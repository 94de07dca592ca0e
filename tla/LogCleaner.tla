----------------------------- MODULE LogCleaner -----------------------------
(***************************************************************************)
(* GlogHelper (glogHelper/GlogHelper.cpp): the constructor starts a thread *)
(* that looks through the log folder every few seconds and removes what    *)
(* bears the program's name and has not changed for keepDays; the          *)
(* destructor waits for it.  Meanwhile the program and others write to the *)
(* files of that folder and remove them.                                   *)
(***************************************************************************)
EXTENDS FilePaths, MachineInts

CONSTANTS
  Files,        \* the file names that may occur in logDir
  Paths,        \* what argv[0] may be
  keepDays,
  Day,          \* 60 * 60 * 24
  IntLimit,     \* 2^31: an int is less than this
  WordMod,      \* 2^64: the modulus of uint64_t
  MaxTime       \* bound: the last second of the clock

ASSUME LogCleanerAssumption ==
  /\ IntLimit \in Nat \ {0} /\ keepDays \in -IntLimit..(IntLimit - 1)
  /\ Day \in Nat \ {0} /\ MaxTime \in Nat
  /\ WordMod \in Nat /\ MaxTime < WordMod /\ IntLimit <= WordMod
  /\ Files \subseteq Seq(0..255) \ {<<>>}
  /\ Paths \subseteq Seq(0..255) /\ \A p \in Paths : Len(p) < SizeMod

VARIABLES
  argv0,        \* the path the program was started by
  program,      \* what main makes of it, the member of the object
  clock,        \* time(): it may be set back
  ctime,        \* a file's st_ctime; -1: there is no such file
  isRun,
  pc,           \* where cleaner is
  logs,         \* the names it has still to look at
  now, file,    \* its locals: the time of the scan and the name it removes
  owner,        \* where the object is in its life
  setBack       \* history: the clock was set back in this scan

scan == <<logs, now, file>>
started == <<argv0, program>>
vars == <<started, clock, ctime, isRun, pc, scan, owner, setBack>>

PC == {"none", "check", "sleep", "stat", "announce", "remove", "ended"}

Absent == -1

Init ==
  /\ argv0 \in Paths /\ program = <<>>
  /\ clock \in 0..MaxTime /\ ctime \in [Files -> Absent..MaxTime]
  /\ isRun = FALSE /\ pc = "none" /\ logs = {}
  /\ now = 0 /\ file = <<>>
  /\ owner = "none" /\ setBack = FALSE

IsLog(f) == startsWith(f, program \o <<Dot>>)

\* The product is one of ints; the result becomes a uint64_t.
keepSeconds == AsInt(keepDays * Day, IntLimit) % WordMod

\* Faulty variant of TooOld: a file of exactly keepDays is old.
TooOldFaulty(t, c) == (t - c) % WordMod >= keepSeconds

\* now - buf.st_ctime is a time_t, but it is compared with a uint64_t.
TooOld(t, c) == (t - c) % WordMod > keepSeconds

-----------------------------------------------------------------------------
\* main names the logs after the program, and constructs the object.
Construct ==
  /\ owner = "none" /\ owner' = "running"
  /\ program' = getFileName(argv0)
  /\ isRun' = TRUE /\ pc' = "check"
  /\ UNCHANGED <<argv0, clock, ctime, scan, setBack>>

\* Faulty variant of DestroyBegin: it waits without telling the thread.
DestroyBeginFaulty ==
  /\ owner = "running" /\ owner' = "destroying"
  /\ UNCHANGED <<started, clock, ctime, isRun, pc, scan, setBack>>

\* The destructor: it tells the thread, and waits for it.
DestroyBegin ==
  /\ owner = "running" /\ owner' = "destroying"
  /\ isRun' = FALSE
  /\ UNCHANGED <<started, clock, ctime, pc, scan, setBack>>

DestroyReturn ==
  /\ owner = "destroying" /\ pc = "ended" /\ owner' = "destroyed"
  /\ UNCHANGED <<started, clock, ctime, isRun, pc, scan, setBack>>

-----------------------------------------------------------------------------
Moves(from, to) == pc = from /\ pc' = to

Check ==
  /\ Moves("check", IF isRun THEN "sleep" ELSE "ended")
  /\ UNCHANGED <<started, clock, ctime, isRun, scan, owner, setBack>>

Listed == {f \in Files : ctime[f] # Absent /\ IsLog(f)}

\* Faulty variant of Begin: the clock is read one second early.
BeginFaulty(names) == Moves("sleep", "stat") /\ logs' = names /\ now' = clock - 1

\* The names, and the time.
Begin(names) == Moves("sleep", "stat") /\ logs' = names /\ now' = clock

\* After the sleep.  An exception of the folder's iterator ends the list early.
List(names) ==
  /\ IF names # {} THEN Begin(names) ELSE Moves("sleep", "check") /\ UNCHANGED <<logs, now>>
  /\ UNCHANGED <<started, clock, ctime, isRun, file, owner, setBack>>

ListAll == List(Listed)
ListCutShort == \E names \in SUBSET Listed : names # Listed /\ List(names)

\* Where the loop over the names ends, its locals end.
EndScan == pc' = "check" /\ logs' = {} /\ now' = 0 /\ setBack' = FALSE

\* Faulty variant of Continue: one name a scan.
ContinueFaulty(rest) == EndScan /\ file' = <<>>

\* Where the loop goes on.
Continue(rest) ==
  /\ file' = <<>>
  /\ IF rest = {} THEN EndScan ELSE pc' = "stat" /\ logs' = rest /\ UNCHANGED <<now, setBack>>

StatKeeps ==
  /\ pc = "stat"
  /\ \E f \in logs : /\ ctime[f] # Absent => ~TooOld(now, ctime[f])
                     /\ Continue(logs \ {f})
  /\ UNCHANGED <<started, clock, ctime, isRun, owner>>

StatTooOld ==
  /\ Moves("stat", "announce")
  /\ \E f \in logs : /\ ctime[f] # Absent /\ TooOld(now, ctime[f])
                     /\ file' = f /\ logs' = logs \ {f}
  /\ UNCHANGED <<started, clock, ctime, isRun, now, owner, setBack>>

\* LOG(INFO) writes to a log of the program, or to the console only.
Announce ==
  /\ Moves("announce", "remove")
  /\ \/ UNCHANGED ctime
     \/ \E f \in Files : IsLog(f) /\ ctime' = [ctime EXCEPT ![f] = clock]
  /\ UNCHANGED <<started, clock, isRun, scan, owner, setBack>>

RemoveOk ==
  /\ pc = "remove" /\ Continue(logs)
  /\ ctime[file] # Absent
  /\ ctime' = [ctime EXCEPT ![file] = Absent]
  /\ UNCHANGED <<started, clock, isRun, owner>>

RemoveFails ==
  /\ pc = "remove" /\ Continue(logs)
  /\ UNCHANGED <<started, clock, ctime, isRun, owner>>

-----------------------------------------------------------------------------
\* What goes on around it while the object lives.
Lives == owner \in {"running", "destroying"}

Tick ==
  /\ Lives
  /\ clock < MaxTime /\ clock' = clock + 1
  /\ UNCHANGED <<started, ctime, isRun, pc, scan, owner, setBack>>

SetBack ==
  /\ Lives
  /\ \E t \in 0..clock - 1 : clock' = t
  /\ setBack' = (pc \in {"stat", "announce", "remove"})
  /\ UNCHANGED <<started, ctime, isRun, pc, scan, owner>>

\* A file is written or created; a file is removed by someone else.
Touch(f) ==
  /\ Lives
  /\ ctime' = [ctime EXCEPT ![f] = clock]
  /\ UNCHANGED <<started, clock, isRun, pc, scan, owner, setBack>>

Unlink(f) ==
  /\ Lives
  /\ ctime[f] # Absent
  /\ ctime' = [ctime EXCEPT ![f] = Absent]
  /\ UNCHANGED <<started, clock, isRun, pc, scan, owner, setBack>>

cleaner == Check \/ ListAll \/ ListCutShort \/ StatKeeps \/ StatTooOld
             \/ Announce \/ RemoveOk \/ RemoveFails

Next ==
  \/ Construct \/ DestroyBegin \/ DestroyReturn
  \/ Check \/ ListAll \/ ListCutShort \/ StatKeeps \/ StatTooOld
  \/ Announce \/ RemoveOk \/ RemoveFails
  \/ Tick \/ SetBack
  \/ \E f \in Files : Touch(f) \/ Unlink(f)

\* The thread runs on; the folder can be listed and a file removed again and
\* again; the destructor's wait ends when the thread has.
Fairness ==
  /\ WF_vars(cleaner) /\ WF_vars(DestroyReturn)
  /\ SF_vars(ListAll)
  /\ \A f \in Files : SF_vars(RemoveOk /\ file = f)

Spec == Init /\ [][Next]_vars /\ Fairness

-----------------------------------------------------------------------------
\* Every variable keeps to its type.
TypeOK ==
  /\ argv0 \in Seq(0..255) /\ program \in Seq(0..255)
  /\ clock \in 0..MaxTime /\ ctime \in [Files -> Absent..MaxTime]
  /\ isRun \in BOOLEAN /\ pc \in PC /\ logs \subseteq Files
  /\ now \in 0..MaxTime /\ file \in Files \cup {<<>>}
  /\ owner \in {"none", "running", "destroying", "destroyed"}
  /\ setBack \in BOOLEAN

\* A step of the cleaner that removes a file.
Removes(f) == RemoveOk /\ file = f

\* keepDays in seconds is a number that an int can hold: up to 24855 days.
SecondsFit == keepDays * Day \in 0..(IntLimit - 1)

\* The file had changed within keepDays when the scan read the clock.
Recent(f) == ctime[f] < now /\ now - ctime[f] <= keepDays * Day

\* What the cleaner removes has not changed for keepDays when the scan reads the
\* clock, or bears a time at or after that reading, unless the clock is set back
\* meanwhile or the seconds of keepDays do not fit an int: the age is judged with a
\* clock reading and a stat that are stale by the time of the removal, and a file
\* written after the reading, by the cleaner's own message for one, goes with the
\* old ones (GlogHelper.cpp:84, 100-107).
OnlyOldOrTouched ==
  [][\A f \in Files : Removes(f) /\ ~setBack /\ SecondsFit => ~Recent(f)]_vars

\* The cleaner removes no file whose name does not begin with the program's own
\* name and a dot, wherever the program was started from.
OthersKept ==
  [][\A f \in Files : Removes(f) =>
       \E n \in 1..Len(f) : f[n] = Dot /\ IsBaseName(argv0, SubSeq(f, 1, n - 1))]_vars

\* If the seconds of keepDays fit an int, a log that has not changed for keepDays
\* does not stay so while the cleaner runs: it is removed, unless it is written
\* again or the clock goes back (GlogHelper.cpp:86-117).
OldLogsGo ==
  SecondsFit =>
    \A f \in Files :
      (owner = "running" /\ IsLog(f) /\ ctime[f] # Absent /\ clock - ctime[f] > keepDays * Day)
        ~> (owner # "running" \/ ctime[f] = Absent \/ clock - ctime[f] <= keepDays * Day)

\* The destructor returns, wherever it finds the thread.
DestructorEnds == owner = "destroying" ~> owner = "destroyed"
=============================================================================
