---------------------------- MODULE TimerProofs ----------------------------
(***************************************************************************)
(* Proofs about Timer, for any threads that call stop and any number of    *)
(* starts.                                                                 *)
(***************************************************************************)
EXTENDS Timer, TLAPS

USE TimerAssumption DEF TimerAssumption

\* Every variable of the timer keeps its type.
THEOREM TypeCorrect == Spec => []TypeOK
<1>1. Init => TypeOK
  <2> SUFFICES ASSUME Init PROVE TypeOK
    OBVIOUS
  <2>1. caller \in [Callers -> CallerPC]
    BY DEF Init, CallerPC
  <2>2. thread \in [Threads -> ThreadPC] /\ launched \in 0..MaxStarts
    BY DEF Init, ThreadPC
  <2>3. \A t \in Threads : t > launched <=> thread[t] = "off"
    BY DEF Init, Threads
  <2>4. QED
    BY <2>1, <2>2, <2>3 DEF Init, TypeOK
<1>2. TypeOK /\ [Next]_vars => TypeOK'
  <2> SUFFICES ASSUME TypeOK, [Next]_vars PROVE TypeOK'
    OBVIOUS
  <2>1. CASE \E c \in Callers : StartCheck(c)
    BY <2>1 DEF TypeOK, CallerPC, ThreadPC, Threads, StartCheck, CallerMoves
  <2>2. CASE \E c \in Callers : StartSet(c)
    BY <2>2 DEF TypeOK, CallerPC, ThreadPC, Threads, StartSet, CallerMoves
  <2>3. CASE \E c \in Callers : StartLaunch(c)
    BY <2>3 DEF TypeOK, CallerPC, ThreadPC, Threads, StartLaunch, CallerMoves
  <2>4. CASE \E c \in Callers : StopCheck(c)
    BY <2>4 DEF TypeOK, CallerPC, ThreadPC, Threads, StopCheck, CallerMoves
  <2>5. CASE \E c \in Callers : StopTry(c)
    BY <2>5 DEF TypeOK, CallerPC, ThreadPC, Threads, StopTry, CallerMoves
  <2>6. CASE \E c \in Callers : StopSet(c)
    BY <2>6 DEF TypeOK, CallerPC, ThreadPC, Threads, StopSet, CallerMoves
  <2>7. CASE \E c \in Callers : StopWoken(c)
    BY <2>7 DEF TypeOK, CallerPC, ThreadPC, Threads, StopWoken, CallerMoves
  <2>8. CASE \E c \in Callers : StopPred(c)
    BY <2>8 DEF TypeOK, CallerPC, ThreadPC, Threads, StopPred, CallerMoves
  <2>9. CASE \E c \in Callers : SpuriousWakeup(c)
    BY <2>9 DEF TypeOK, CallerPC, ThreadPC, Threads, SpuriousWakeup, CallerMoves
  <2>10. CASE \E c \in Callers : StopReset(c)
    BY <2>10 DEF TypeOK, CallerPC, ThreadPC, Threads, StopReset, CallerMoves
  <2>11. CASE \E c \in Callers : StopUnlock(c)
    BY <2>11 DEF TypeOK, CallerPC, ThreadPC, Threads, StopUnlock, CallerMoves
  <2>12. CASE \E t \in Threads : ThreadCheck(t)
    BY <2>12 DEF TypeOK, CallerPC, ThreadPC, Threads, ThreadCheck, ThreadMoves
  <2>13. CASE \E t \in Threads : ThreadTask(t)
    BY <2>13 DEF TypeOK, CallerPC, ThreadPC, Threads, ThreadTask, ThreadMoves
  <2>14. CASE \E t \in Threads : ThreadLock(t)
    BY <2>14 DEF TypeOK, CallerPC, ThreadPC, Threads, ThreadLock, ThreadMoves
  <2>15. CASE \E t \in Threads : ThreadExpire(t)
    BY <2>15 DEF TypeOK, CallerPC, ThreadPC, Threads, ThreadExpire, ThreadMoves
  <2>16. CASE \E t \in Threads : Notify(t)
    BY <2>16 DEF TypeOK, CallerPC, ThreadPC, Threads, Notify, ThreadMoves, Waiting
  <2>17. CASE \E t \in Threads : ThreadUnlock(t)
    BY <2>17 DEF TypeOK, CallerPC, ThreadPC, Threads, ThreadUnlock, ThreadMoves
  <2>18. CASE UNCHANGED vars
    BY <2>18 DEF TypeOK, CallerPC, ThreadPC, Threads, vars
  <2>19. QED
    BY <2>1, <2>2, <2>3, <2>4, <2>5, <2>6, <2>7, <2>8, <2>9, <2>10, <2>11, <2>12, <2>13, <2>14, <2>15, <2>16, <2>17, <2>18 DEF Next, Thread, CallerRuns
<1>3. QED
  BY <1>1, <1>2, PTL DEF Spec

----------------------------------------------------------------------------
\* One thread at most calls start.
OneStarter == \A c, d \in Starters : c = d

\* While a thread runs the timer is not expired; a start that has passed its look
\* at _expired finds no thread running, and only then launches one.
StartInv ==
  /\ NotStartedAgain
  /\ \A t \in Running : ~expired
  /\ \A c \in Callers : caller[c] \in {"startSet", "startLaunch"} =>
       c \in Starters /\ Running = {}
  /\ \A c \in Callers : caller[c] = "startLaunch" => ~expired

\* StartInv is an invariant if one thread at most calls start.
THEOREM StartInvariant == ASSUME OneStarter PROVE Spec => []StartInv
<1>1. Init => StartInv
  BY DEF Init, StartInv, NotStartedAgain, Running
<1>2. TypeOK /\ StartInv /\ [Next]_vars => StartInv'
  <2> SUFFICES ASSUME TypeOK, StartInv, [Next]_vars PROVE StartInv'
    OBVIOUS
  <2>1. CASE \E c \in Callers : StartCheck(c)
    BY <2>1, OneStarter DEF TypeOK, StartInv, NotStartedAgain, Running, StartCheck, CallerMoves, OneStarter
  <2>2. CASE \E c \in Callers : StartSet(c)
    BY <2>2, OneStarter DEF TypeOK, StartInv, NotStartedAgain, Running, StartSet, CallerMoves, OneStarter
  <2>3. CASE \E c \in Callers : StartLaunch(c)
    BY <2>3, OneStarter DEF TypeOK, StartInv, NotStartedAgain, Running, StartLaunch, CallerMoves, OneStarter, Threads
  <2>4. CASE \E c \in Callers : StopCheck(c)
    BY <2>4 DEF TypeOK, StartInv, NotStartedAgain, Running, StopCheck, CallerMoves
  <2>5. CASE \E c \in Callers : StopTry(c)
    BY <2>5 DEF TypeOK, StartInv, NotStartedAgain, Running, StopTry, CallerMoves
  <2>6. CASE \E c \in Callers : StopSet(c)
    BY <2>6 DEF TypeOK, StartInv, NotStartedAgain, Running, StopSet, CallerMoves
  <2>7. CASE \E c \in Callers : StopWoken(c)
    BY <2>7 DEF TypeOK, StartInv, NotStartedAgain, Running, StopWoken, CallerMoves
  <2>8. CASE \E c \in Callers : StopPred(c)
    BY <2>8 DEF TypeOK, StartInv, NotStartedAgain, Running, StopPred, CallerMoves
  <2>9. CASE \E c \in Callers : SpuriousWakeup(c)
    BY <2>9 DEF TypeOK, StartInv, NotStartedAgain, Running, SpuriousWakeup, CallerMoves
  <2>10. CASE \E c \in Callers : StopReset(c)
    BY <2>10 DEF TypeOK, StartInv, NotStartedAgain, Running, StopReset, CallerMoves
  <2>11. CASE \E c \in Callers : StopUnlock(c)
    BY <2>11 DEF TypeOK, StartInv, NotStartedAgain, Running, StopUnlock, CallerMoves
  <2>12. CASE \E t \in Threads : ThreadCheck(t)
    BY <2>12 DEF TypeOK, StartInv, NotStartedAgain, Running, ThreadCheck, ThreadMoves
  <2>13. CASE \E t \in Threads : ThreadTask(t)
    BY <2>13 DEF TypeOK, StartInv, NotStartedAgain, Running, ThreadTask, ThreadMoves
  <2>14. CASE \E t \in Threads : ThreadLock(t)
    BY <2>14 DEF TypeOK, StartInv, NotStartedAgain, Running, ThreadLock, ThreadMoves
  <2>15. CASE \E t \in Threads : ThreadExpire(t)
    BY <2>15 DEF TypeOK, StartInv, NotStartedAgain, Running, ThreadExpire, ThreadMoves
  <2>16. CASE \E t \in Threads : Notify(t)
    BY <2>16 DEF TypeOK, StartInv, NotStartedAgain, Running, Notify, ThreadMoves, Waiting
  <2>17. CASE \E t \in Threads : ThreadUnlock(t)
    BY <2>17 DEF TypeOK, StartInv, NotStartedAgain, Running, ThreadUnlock, ThreadMoves
  <2>18. CASE UNCHANGED vars
    BY <2>18 DEF TypeOK, StartInv, NotStartedAgain, Running, vars
  <2>19. QED
    BY <2>1, <2>2, <2>3, <2>4, <2>5, <2>6, <2>7, <2>8, <2>9, <2>10, <2>11, <2>12, <2>13, <2>14, <2>15, <2>16, <2>17, <2>18 DEF Next, Thread, CallerRuns
<1>3. QED
  BY <1>1, <1>2, TypeCorrect, PTL DEF Spec

\* A timer that is started is not started again, if one thread at most calls
\* start (timeTask.hpp:38-40).
THEOREM NotStartedAgainTheorem == ASSUME OneStarter PROVE Spec => []NotStartedAgain
<1>1. StartInv => NotStartedAgain
  BY DEF StartInv
<1>2. QED
  BY <1>1, StartInvariant, PTL

----------------------------------------------------------------------------
\* One thread at most calls stop.
OneStopper == \A c, d \in Stoppers : c = d

StopPC == {"stopTry", "stopSet", "stopLock", "stopPred", "stopWait", "stopReset",
           "stopUnlock"}

\* A timer that is not expired has a thread that will say so, or is about to have
\* one; and notify_one reaches the only stopper there can be in wait.
WaitInv ==
  /\ WaitsForThread
  /\ ~expired => \/ \E t \in Threads : t \in Running
                 \/ \E c \in Callers : caller[c] = "startLaunch"
  /\ \A c \in Callers : caller[c] \in StopPC => c \in Stoppers

\* WaitInv is an invariant if one thread at most calls stop, whoever calls start.
THEOREM WaitInvariant == ASSUME OneStopper PROVE Spec => []WaitInv
<1>1. Init => WaitInv
  BY DEF Init, WaitInv, WaitsForThread, Waiting, StopPC
<1>2. TypeOK /\ WaitInv /\ [Next]_vars => WaitInv'
  <2> SUFFICES ASSUME TypeOK, WaitInv, [Next]_vars PROVE WaitInv'
    OBVIOUS
  <2>1. CASE \E c \in Callers : StartCheck(c)
    BY <2>1 DEF TypeOK, WaitInv, WaitsForThread, Waiting, Running, StopPC, StartCheck, CallerMoves
  <2>2. CASE \E c \in Callers : StartSet(c)
    BY <2>2 DEF TypeOK, WaitInv, WaitsForThread, Waiting, Running, StopPC, StartSet, CallerMoves
  <2>3. CASE \E c \in Callers : StartLaunch(c)
    BY <2>3 DEF TypeOK, WaitInv, WaitsForThread, Waiting, Running, StopPC, StartLaunch, CallerMoves, Threads
  <2>4. CASE \E c \in Callers : StopCheck(c)
    BY <2>4 DEF TypeOK, WaitInv, WaitsForThread, Waiting, Running, StopPC, StopCheck, CallerMoves
  <2>5. CASE \E c \in Callers : StopTry(c)
    BY <2>5 DEF TypeOK, WaitInv, WaitsForThread, Waiting, Running, StopPC, StopTry, CallerMoves
  <2>6. CASE \E c \in Callers : StopSet(c)
    BY <2>6 DEF TypeOK, WaitInv, WaitsForThread, Waiting, Running, StopPC, StopSet, CallerMoves
  <2>7. CASE \E c \in Callers : StopWoken(c)
    BY <2>7 DEF TypeOK, WaitInv, WaitsForThread, Waiting, Running, StopPC, StopWoken, CallerMoves
  <2>8. CASE \E c \in Callers : StopPred(c)
    BY <2>8 DEF TypeOK, WaitInv, WaitsForThread, Waiting, Running, StopPC, StopPred, CallerMoves
  <2>9. CASE \E c \in Callers : SpuriousWakeup(c)
    BY <2>9 DEF TypeOK, WaitInv, WaitsForThread, Waiting, Running, StopPC, SpuriousWakeup, CallerMoves
  <2>10. CASE \E c \in Callers : StopReset(c)
    BY <2>10 DEF TypeOK, WaitInv, WaitsForThread, Waiting, Running, StopPC, StopReset, CallerMoves
  <2>11. CASE \E c \in Callers : StopUnlock(c)
    BY <2>11 DEF TypeOK, WaitInv, WaitsForThread, Waiting, Running, StopPC, StopUnlock, CallerMoves
  <2>12. CASE \E t \in Threads : ThreadCheck(t)
    BY <2>12 DEF TypeOK, WaitInv, WaitsForThread, Waiting, Running, StopPC, ThreadCheck, ThreadMoves
  <2>13. CASE \E t \in Threads : ThreadTask(t)
    BY <2>13 DEF TypeOK, WaitInv, WaitsForThread, Waiting, Running, StopPC, ThreadTask, ThreadMoves
  <2>14. CASE \E t \in Threads : ThreadLock(t)
    BY <2>14 DEF TypeOK, WaitInv, WaitsForThread, Waiting, Running, StopPC, ThreadLock, ThreadMoves
  <2>15. CASE \E t \in Threads : ThreadExpire(t)
    BY <2>15 DEF TypeOK, WaitInv, WaitsForThread, Waiting, Running, StopPC, ThreadExpire, ThreadMoves
  <2>16. CASE \E t \in Threads : Notify(t)
    BY <2>16 DEF TypeOK, WaitInv, WaitsForThread, Waiting, Running, StopPC, Notify, ThreadMoves, OneStopper
  <2>17. CASE \E t \in Threads : ThreadUnlock(t)
    BY <2>17 DEF TypeOK, WaitInv, WaitsForThread, Waiting, Running, StopPC, ThreadUnlock, ThreadMoves
  <2>18. CASE UNCHANGED vars
    BY <2>18 DEF TypeOK, WaitInv, WaitsForThread, Waiting, Running, StopPC, vars
  <2>19. QED
    BY <2>1, <2>2, <2>3, <2>4, <2>5, <2>6, <2>7, <2>8, <2>9, <2>10, <2>11, <2>12, <2>13, <2>14, <2>15, <2>16, <2>17, <2>18 DEF Next, Thread, CallerRuns
<1>3. QED
  BY <1>1, <1>2, TypeCorrect, PTL DEF Spec

\* A stop that waits has something to wait for, if one thread at most calls stop
\* (timeTask.hpp:51-56, 80).
THEOREM WaitsForThreadTheorem == ASSUME OneStopper PROVE Spec => []WaitsForThread
<1>1. WaitInv => WaitsForThread
  BY DEF WaitInv
<1>2. QED
  BY <1>1, WaitInvariant, PTL
=============================================================================
