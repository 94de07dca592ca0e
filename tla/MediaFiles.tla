----------------------------- MODULE MediaFiles -----------------------------
(***************************************************************************)
(* The media side of DJI (DJI/DJI.cpp): InitGetMediaFiles registers an     *)
(* observer and launches a detached thread; the SDK announces new files to *)
(* the observer, which puts them in a queue; the thread is to take them    *)
(* from there, read them from the dock and write them to the local disk.   *)
(*                                                                         *)
(* A step is what one thread does between two points where another can see *)
(* or disturb it.  The queue, its mutex and its condition variable are     *)
(* globals; _isRun is a plain member that the destructor clears.  The      *)
(* thread clears image at the end of each round (187).                     *)
(***************************************************************************)
EXTENDS Naturals, Sequences

CONSTANTS
  MaxFiles,    \* bound: how many files the SDK announces
  MaxInits     \* bound: how many calls of InitGetMediaFiles launch a thread

Files == 1..MaxFiles
Threads == 1..MaxInits

VARIABLES
  isRun,
  observing,   \* whether MediaFilesUpdateCallback is registered
  queue,       \* media_file_queue
  mutex,       \* media_file_queue_mutex: "free" or "held"
  announced,   \* how many files the SDK has announced
  client,      \* where the client is
  launched,    \* how many threads have been launched
  pc,          \* where each thread is
  file, image, \* per thread: the file in hand, and how much of it was read
  saved        \* history: the files that are on the local disk in full

queueVars == <<queue, mutex>>
threadVars == <<pc, file, image>>
vars == <<isRun, observing, queueVars, announced, client, launched, threadVars, saved>>

None == 0

Init ==
  /\ isRun = FALSE /\ observing = FALSE
  /\ queue = <<>> /\ mutex = "free" /\ announced = 0
  /\ client = "idle" /\ launched = 0
  /\ pc = [t \in Threads |-> "off"] /\ file = [t \in Threads |-> None]
  /\ image = [t \in Threads |-> "empty"]
  /\ saved = {}

Moves(t, from, to) == pc[t] = from /\ pc' = [pc EXCEPT ![t] = to]

(***************************************************************************)
(* InitGetMediaFiles and the destructor.                                   *)
(***************************************************************************)

\* A call that finds no manager, or that the dock refuses, returns before this.
InitRegister ==
  /\ client = "idle" /\ launched < MaxInits
  /\ client' = "launch"
  /\ observing' = TRUE
  /\ UNCHANGED <<isRun, queueVars, announced, launched, threadVars, saved>>

InitLaunch ==
  /\ client = "launch" /\ client' = "idle"
  /\ launched' = launched + 1
  /\ pc' = [pc EXCEPT ![launched'] = "check"]
  /\ UNCHANGED <<isRun, observing, queueVars, announced, file, image, saved>>

\* Neither the thread nor the observer is told; what they do with the dead object
\* is not followed.
Destroy ==
  /\ client = "idle" /\ client' = "gone"
  /\ isRun' = FALSE
  /\ UNCHANGED <<observing, queueVars, announced, launched, threadVars, saved>>

(***************************************************************************)
(* MediaFilesUpdateCallback, on a thread of the SDK.                       *)
(***************************************************************************)

Waiting == {t \in Threads : pc[t] = "wait"}
MediaFilesUpdateCallback ==
  /\ observing /\ announced < MaxFiles /\ mutex = "free" /\ client # "gone"
  /\ announced' = announced + 1
  /\ queue' = Append(queue, announced')
  /\ IF Waiting = {} THEN UNCHANGED pc
     ELSE \E t \in Waiting : pc' = [pc EXCEPT ![t] = "lock"]
  /\ UNCHANGED <<isRun, observing, mutex, client, launched, file, image, saved>>

(***************************************************************************)
(* ProcessMediaFileThread.                                                 *)
(***************************************************************************)

Check(t) ==
  /\ Moves(t, "check", IF isRun THEN "lock" ELSE "done")
  /\ UNCHANGED <<isRun, observing, queueVars, announced, client, launched, file, image, saved>>

Lock(t) ==
  /\ mutex = "free" /\ mutex' = "held"
  /\ Moves(t, "lock", "pred")
  /\ UNCHANGED <<isRun, observing, queue, announced, client, launched, file, image, saved>>

\* The wait looks at the queue only.
Wait(t) ==
  /\ queue = <<>>
  /\ Moves(t, "pred", "wait")
  /\ mutex' = "free"
  /\ UNCHANGED <<isRun, observing, queue, announced, client, launched, file, image, saved>>

SpuriousWakeup(t) ==
  /\ Moves(t, "wait", "lock")
  /\ UNCHANGED <<isRun, observing, queueVars, announced, client, launched, file, image, saved>>

Pop(t) ==
  /\ queue # <<>>
  /\ Moves(t, "pred", "read")
  /\ file' = [file EXCEPT ![t] = Head(queue)]
  /\ queue' = Tail(queue) /\ mutex' = "free"
  /\ UNCHANGED <<isRun, observing, announced, client, launched, image, saved>>

\* A file that cannot be opened is given up.
OpenFails(t) ==
  /\ Moves(t, "read", "check")
  /\ UNCHANGED <<isRun, observing, queueVars, announced, client, launched, file, image, saved>>

\* A read that fails half-way ends the loop as the end of the file does.
ReadMediaFile(t) ==
  /\ Moves(t, "read", "dump")
  /\ \E amount \in {"whole", "part"} : image' = [image EXCEPT ![t] = amount]
  /\ UNCHANGED <<isRun, observing, queueVars, announced, client, launched, file, saved>>

\* A failed fopen or fwrite is not noticed; the upload of the file's data is a stub.
DumpMediaFile(t) ==
  /\ Moves(t, "dump", "check")
  /\ saved' \in {saved, IF image[t] = "whole" THEN saved \cup {file[t]} ELSE saved}
  /\ image' = [image EXCEPT ![t] = "empty"]
  /\ UNCHANGED <<isRun, observing, queueVars, announced, client, launched, file>>

(***************************************************************************)
(* The specification.                                                      *)
(***************************************************************************)

ProcessMediaFileThread(t) ==
  /\ client # "gone"
  /\ \/ Check(t) \/ Lock(t) \/ Wait(t) \/ Pop(t)
     \/ OpenFails(t) \/ ReadMediaFile(t) \/ DumpMediaFile(t)

\* _isRun starts as FALSE and nothing sets it, so no thread gets past its first
\* Check; what follows it is what the code would do.
Next ==
  \/ InitRegister \/ InitLaunch \/ Destroy
  \/ MediaFilesUpdateCallback
  \/ \E t \in Threads : ProcessMediaFileThread(t) \/ SpuriousWakeup(t)

\* Threads that can run do run, and so does a call that has begun.
Spec ==
  /\ Init /\ [][Next]_vars
  /\ WF_vars(InitLaunch)
  /\ \A t \in Threads : WF_vars(ProcessMediaFileThread(t)) /\ SF_vars(Lock(t))

----------------------------------------------------------------------------

\* DJI.h:53, "when the queue has a new file, fetch it to the local disk": a file in
\* the queue is taken from it, unless the object is destroyed.
QueueIsServed ==
  \A f \in Files :
    (\E i \in 1..Len(queue) : queue[i] = f) ~>
      (client = "gone" \/ ~\E i \in 1..Len(queue) : queue[i] = f)
=============================================================================
