------------------------------- MODULE Timer -------------------------------
(***************************************************************************)
(* One Timer object (utils/timeTask.hpp), the threads that call start and  *)
(* stop on it, and the detached threads that start launches.  A step is    *)
(* one access to an atomic, to the lock or to the condition variable.      *)
(*                                                                         *)
(* Left out: the name and the period, which nothing but their getters      *)
(* reads, and startOnce, whose thread does not touch the timer.  The task  *)
(* is code of the caller's; it ends, and it does not call its own timer.   *)
(***************************************************************************)
EXTENDS Naturals

CONSTANTS
  Starters,    \* threads that call start
  Stoppers,    \* threads that call stop
  MaxStarts    \* bound: how many threads are launched

ASSUME TimerAssumption == MaxStarts \in Nat

Callers == Starters \cup Stoppers
Threads == 1..MaxStarts

VARIABLES
  expired, tryToExpire,  \* _expired, _try_to_expire
  mutex,                 \* _mutex: "free" or "held"
  caller,                \* where each caller is
  thread,                \* where each launched thread is
  launched               \* how many have been launched

vars == <<expired, tryToExpire, mutex, caller, thread, launched>>

CallerPC == {"idle", "startSet", "startLaunch", "stopTry", "stopSet", "stopLock",
             "stopPred", "stopWait", "stopReset", "stopUnlock"}
ThreadPC == {"off", "check", "task", "lock", "expire", "notify", "unlock", "done"}

Init ==
  /\ expired = TRUE /\ tryToExpire = FALSE /\ mutex = "free"
  /\ caller = [c \in Callers |-> "idle"]
  /\ thread = [t \in Threads |-> "off"] /\ launched = 0

CallerMoves(c, from, to) == caller[c] = from /\ caller' = [caller EXCEPT ![c] = to]
ThreadMoves(t, from, to) == thread[t] = from /\ thread' = [thread EXCEPT ![t] = to]

(***************************************************************************)
(* Faulty variants of steps below, each with one mistake.  They are not    *)
(* part of the specification; PROJECT.json pairs each with a property that *)
(* notices when it takes the place of the step it is named after.          *)
(***************************************************************************)

\* start does not look at _expired
StartCheckFaulty(c) ==
  /\ c \in Starters /\ launched < MaxStarts
  /\ CallerMoves(c, "idle", "startSet")
  /\ UNCHANGED <<expired, tryToExpire, mutex, thread, launched>>

\* one start launches two threads
StartLaunchFaulty(c) ==
  /\ launched < MaxStarts
  /\ CallerMoves(c, "startLaunch", "idle")
  /\ launched' = launched + 1
  /\ thread' = [t \in Threads |-> IF t \in {launched', launched' + 1} THEN "check"
                                  ELSE thread[t]]
  /\ UNCHANGED <<expired, tryToExpire, mutex>>

\* the thread does not look at _try_to_expire
ThreadCheckFaulty(t) ==
  /\ ThreadMoves(t, "check", "task")
  /\ UNCHANGED <<expired, tryToExpire, mutex, caller, launched>>

\* the end of the thread is not signalled
NotifyFaulty(t) ==
  /\ ThreadMoves(t, "notify", "unlock")
  /\ UNCHANGED <<expired, tryToExpire, mutex, caller, launched>>

(***************************************************************************)
(* start                                                                   *)
(***************************************************************************)

\* A started timer is not started again.
StartCheck(c) ==
  /\ c \in Starters /\ launched < MaxStarts
  /\ expired
  /\ CallerMoves(c, "idle", "startSet")
  /\ UNCHANGED <<expired, tryToExpire, mutex, thread, launched>>

StartSet(c) ==
  /\ CallerMoves(c, "startSet", "startLaunch")
  /\ expired' = FALSE
  /\ UNCHANGED <<tryToExpire, mutex, thread, launched>>

StartLaunch(c) ==
  /\ launched < MaxStarts
  /\ CallerMoves(c, "startLaunch", "idle")
  /\ launched' = launched + 1
  /\ thread' = [thread EXCEPT ![launched'] = "check"]
  /\ UNCHANGED <<expired, tryToExpire, mutex>>

(***************************************************************************)
(* The launched thread.                                                    *)
(***************************************************************************)

ThreadCheck(t) ==
  /\ ThreadMoves(t, "check", IF tryToExpire THEN "lock" ELSE "task")
  /\ UNCHANGED <<expired, tryToExpire, mutex, caller, launched>>

\* the task, and the sleep of one interval after it
ThreadTask(t) ==
  /\ ThreadMoves(t, "task", "check")
  /\ UNCHANGED <<expired, tryToExpire, mutex, caller, launched>>

ThreadLock(t) ==
  /\ mutex = "free"
  /\ ThreadMoves(t, "lock", "expire")
  /\ mutex' = "held"
  /\ UNCHANGED <<expired, tryToExpire, caller, launched>>

ThreadExpire(t) ==
  /\ ThreadMoves(t, "expire", "notify")
  /\ expired' = TRUE
  /\ UNCHANGED <<tryToExpire, mutex, caller, launched>>

\* notify_one wakes one of the callers in wait, if there is any.
Waiting == {c \in Callers : caller[c] = "stopWait"}
Notify(t) ==
  /\ ThreadMoves(t, "notify", "unlock")
  /\ IF Waiting = {} THEN UNCHANGED caller
     ELSE \E c \in Waiting : caller' = [caller EXCEPT ![c] = "stopLock"]
  /\ UNCHANGED <<expired, tryToExpire, mutex, launched>>

ThreadUnlock(t) ==
  /\ ThreadMoves(t, "unlock", "done")
  /\ mutex' = "free"
  /\ UNCHANGED <<expired, tryToExpire, caller, launched>>

(***************************************************************************)
(* stop.  Its two early returns read one atomic each.                      *)
(***************************************************************************)

StopCheck(c) ==
  /\ c \in Stoppers
  /\ ~expired
  /\ CallerMoves(c, "idle", "stopTry")
  /\ UNCHANGED <<expired, tryToExpire, mutex, thread, launched>>

StopTry(c) ==
  /\ CallerMoves(c, "stopTry", IF tryToExpire THEN "idle" ELSE "stopSet")
  /\ UNCHANGED <<expired, tryToExpire, mutex, thread, launched>>

StopSet(c) ==
  /\ CallerMoves(c, "stopSet", "stopLock")
  /\ tryToExpire' = TRUE
  /\ UNCHANGED <<expired, mutex, thread, launched>>

\* The lock is taken at first, and again when wait returns from the kernel.
StopWoken(c) ==
  /\ mutex = "free"
  /\ CallerMoves(c, "stopLock", "stopPred")
  /\ mutex' = "held"
  /\ UNCHANGED <<expired, tryToExpire, thread, launched>>

\* The wait gives up the lock and starts to wait in one step.
StopPred(c) ==
  /\ CallerMoves(c, "stopPred", IF expired THEN "stopReset" ELSE "stopWait")
  /\ mutex' = IF expired THEN mutex ELSE "free"
  /\ UNCHANGED <<expired, tryToExpire, thread, launched>>

SpuriousWakeup(c) ==
  /\ CallerMoves(c, "stopWait", "stopLock")
  /\ UNCHANGED <<expired, tryToExpire, mutex, thread, launched>>

\* _expired is read once more: a start may have cleared it since, without the lock.
StopReset(c) ==
  /\ CallerMoves(c, "stopReset", "stopUnlock")
  /\ tryToExpire' = (tryToExpire /\ ~expired)
  /\ UNCHANGED <<expired, mutex, thread, launched>>

StopUnlock(c) ==
  /\ CallerMoves(c, "stopUnlock", "idle")
  /\ mutex' = "free"
  /\ UNCHANGED <<expired, tryToExpire, thread, launched>>

(***************************************************************************)
(* The specification.                                                      *)
(***************************************************************************)

Thread(t) ==
  \/ ThreadCheck(t) \/ ThreadTask(t) \/ ThreadLock(t)
  \/ ThreadExpire(t) \/ Notify(t) \/ ThreadUnlock(t)

\* What is left of a call once it is past its first look at _expired.
CallerRuns(c) ==
  \/ StartSet(c) \/ StartLaunch(c)
  \/ StopTry(c) \/ StopSet(c) \/ StopWoken(c) \/ StopPred(c)
  \/ StopReset(c) \/ StopUnlock(c)

Next ==
  \/ \E t \in Threads : Thread(t)
  \/ \E c \in Callers : StartCheck(c) \/ StopCheck(c) \/ CallerRuns(c) \/ SpuriousWakeup(c)

Fairness ==
  /\ \A t \in Threads : WF_vars(Thread(t)) /\ SF_vars(ThreadLock(t))
  /\ \A c \in Callers : WF_vars(CallerRuns(c)) /\ SF_vars(StopWoken(c))

Spec == Init /\ [][Next]_vars /\ Fairness

----------------------------------------------------------------------------

\* The type of every variable of Timer.
TypeOK ==
  /\ expired \in BOOLEAN /\ tryToExpire \in BOOLEAN /\ mutex \in {"free", "held"}
  /\ caller \in [Callers -> CallerPC] /\ thread \in [Threads -> ThreadPC]
  /\ launched \in 0..MaxStarts
  /\ \A t \in Threads : t > launched <=> thread[t] = "off"

\* The threads that have not declared the timer expired yet.
Running == {t \in Threads : thread[t] \in {"check", "task", "lock", "expire"}}

\* A timer that is started is not started again (timeTask.hpp:38-40): it never has
\* two threads that run its task, whatever stops come in between.  This takes a
\* single thread that calls start: the look at _expired and its reset are two steps.
NotStartedAgain == \A s, t \in Threads : s \in Running /\ t \in Running => s = t

\* A stop that waits has a thread to wait for, or one that is on its way, or the
\* wakeup is about to be given: nobody waits for a signal that has gone
\* (timeTask.hpp:51-56, 80).  This takes a single thread that calls stop:
\* notify_one wakes only one.
WaitsForThread ==
  Waiting # {} =>
    \/ \E t \in Threads : t \in Running \/ thread[t] = "notify"
    \/ \E c \in Callers : caller[c] = "startLaunch"

\* A stop that has asked the thread to end comes back (timeTask.hpp:77-86), even
\* when another thread starts the timer again between the signal and the
\* stopper's look at _expired.
StopEnds == \A c \in Callers : (caller[c] = "stopLock") ~> (caller[c] = "idle")
=============================================================================
