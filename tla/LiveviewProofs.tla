--------------------------- MODULE LiveviewProofs ---------------------------
(***************************************************************************)
(* Proofs about Liveview, for every number of sessions and chunks, every   *)
(* chunk length, every movement of the clock and every set of statuses.    *)
(* The sections build on one another: types, the decoder's lifetime, the   *)
(* lock, wakeups, the stream, the abstract channel.                        *)
(***************************************************************************)
EXTENDS LiveviewProps, SequenceTheorems, WellFoundedInduction, TLAPS

USE LiveviewAssumption, UintModAssumption DEF LiveviewAssumption, UintModAssumption

\* The published rate is a natural number: the arithmetic is unsigned.
LEMMA KbpsType == \A bytes \in Nat : Kbps(bytes) \in Nat
  BY DEF Kbps, BITRATE_CALCULATE_BITS_PER_BYTE, BITRATE_CALCULATE_INTERVAL_TIME_MS

\* The callback's look at the clock keeps the type of the bitrate members, even
\* when the clock has gone back.
LEMMA ElapseType ==
  ASSUME NEW r \in Rate, NEW gap \in Int
  PROVE  Elapse(r, gap) \in Rate
  BY DEF Rate, Elapse

\* So does counting a chunk, whether a rate is published or not.
LEMMA AccountType ==
  ASSUME NEW r \in Rate, NEW len \in Nat
  PROVE  Account(r, len) \in Rate
  <1>1. (r.total + len) % UintMod \in Nat
    BY DEF Rate
  <1>2. Kbps((r.total + len) % UintMod) \in Nat
    BY <1>1, KbpsType
  <1>3. QED
    BY <1>1, <1>2 DEF Rate, Account

\* DecoderPred, with its two outcomes apart.
LEMMA PredMoves ==
  ASSUME NEW s \in Sessions, DecoderPred(s)
  PROVE  /\ dec[s] = "pred"
         /\ \/ cache # <<>> /\ dec' = [dec EXCEPT ![s] = "copy"]
            \/ cache = <<>> /\ dec' = [dec EXCEPT ![s] = "block"]
         /\ UNCHANGED <<clVars, cbVars, batch, decoded, sdkVars, cache, mutex, st>>
  BY DEF DecoderPred, DecoderMoves

\* A decoder that looks at the cache holds the mutex before and after it.
LEMMA PredKeepsLock ==
  ASSUME TypeOK, NEW s \in Sessions, DecoderPred(s)
  PROVE  \A t \in Sessions : (dec'[t] \in {"pred", "block", "copy"}) <=> InCritical(t)
<1>1. PICK next \in {"copy", "block"} : dec' = [dec EXCEPT ![s] = next]
  BY PredMoves
<1>2. DOMAIN dec = Sessions
  BY DEF TypeOK
<1>3. dec[s] = "pred"
  BY PredMoves
<1>4. QED
  <2> SUFFICES ASSUME NEW t \in Sessions
               PROVE  (dec'[t] \in {"pred", "block", "copy"}) <=> InCritical(t)
    OBVIOUS
  <2>1. CASE t = s
    BY <1>1, <1>2, <1>3, <2>1 DEF InCritical
  <2>2. CASE t # s
    BY <1>1, <1>2, <2>2 DEF InCritical
  <2>3. QED
    BY <2>1, <2>2

\* Every variable keeps its type.
THEOREM TypeCorrect == Spec => []TypeOK
<1> USE DEF TypeOK, Sessions, Items, Sentinel, ClientPC, DecoderPC, StarterPC, CallbackPC
<1>1. Init => TypeOK
  <2> SUFFICES ASSUME Init
               PROVE  TypeOK
    OBVIOUS
  <2>1. rate \in Rate
    BY DEF Init, NewRate, Rate
  <2>2. window \in [lo : 0..MaxChunks, hi : 0..MaxChunks]
    BY DEF Init
  <2>3. cache \in Seq(Items) /\ snap \in Seq(Items) /\ decoded \in Seq(Items)
    BY DEF Init
  <2>4. /\ dec \in [Sessions -> DecoderPC]
        /\ batch \in [Sessions -> Seq(Items)]
        /\ st \in [Sessions -> StarterPC]
    BY DEF Init
  <2>5. /\ cb \in CallbackPC /\ cl \in ClientPC /\ mutex \in {"free", "held"}
        /\ arrived \in (IF cb = "idle" THEN 0 ELSE 1)..MaxChunks
        /\ session \in 0..MaxSessions
    BY DEF Init
  <2>6. /\ isRun \in BOOLEAN /\ isLocalThreadRun \in BOOLEAN /\ status \in Status
        /\ streaming \in BOOLEAN /\ cacheUB \in BOOLEAN
    BY DEF Init
  <2>7. QED
    BY <2>1, <2>2, <2>3, <2>4, <2>5, <2>6 DEF TypeOK
<1>2. TypeOK /\ [Next]_vars => TypeOK'
  <2> SUFFICES ASSUME TypeOK, [Next]_vars
               PROVE  TypeOK'
    OBVIOUS
  <2> USE DEF clVars, cbVars, decVars, sdkVars
  <2>1. CASE LiveviewStatusCallback
    BY <2>1 DEF LiveviewStatusCallback
  <2>2. CASE CallbackEnter
    <3>1. rate' \in Rate
      BY <2>2, ElapseType DEF CallbackEnter
    <3>2. QED
      BY <2>2, <3>1 DEF CallbackEnter
  <2>3. CASE CallbackLock
    BY <2>3 DEF CallbackLock
  <2>4. CASE CallbackBody
    <3>1. rate' \in Rate
      <4>1. ChunkLen[arrived] \in Nat
        BY <2>4 DEF CallbackBody
      <4>2. QED
        BY <2>4, <4>1, AccountType DEF CallbackBody
    <3>2. dec' \in [Sessions -> DecoderPC]
      BY <2>4 DEF CallbackBody, NotifyOne, Waiting
    <3>3. window' \in [lo : 0..MaxChunks, hi : 0..MaxChunks]
      BY <2>4 DEF CallbackBody
    <3>4. cache' \in Seq(Items)
      BY <2>4 DEF CallbackBody
    <3>5. QED
      BY <2>4, <3>1, <3>2, <3>3, <3>4 DEF CallbackBody
  <2>5. CASE LiveviewInit
    BY <2>5 DEF LiveviewInit, ClientMoves
  <2>6. CASE StartBegin
    BY <2>6 DEF StartBegin, ClientMoves
  <2>7. CASE StartStarter
    BY <2>7 DEF StartStarter, ClientMoves
  <2>8. CASE StartReturn
    BY <2>8 DEF StartReturn, ClientMoves
  <2>9. CASE StopBegin
    BY <2>9 DEF StopBegin, ClientMoves
  <2>10. CASE StopPush
    BY <2>10 DEF StopPush, ClientMoves
  <2>11. CASE StopStore
    <3>1. cache' \in Seq(Items)
      <4>1. Append(cache, Sentinel) \in Seq(Items) /\ Append(snap, Sentinel) \in Seq(Items)
        OBVIOUS
      <4>2. \/ cache' = Append(cache, Sentinel)
            \/ cache' = Append(snap, Sentinel)
            \/ cache' = cache
        BY <2>11 DEF StopStore
      <4>3. QED
        BY <4>1, <4>2
    <3>2. cacheUB' \in BOOLEAN
      BY <2>11 DEF StopStore, Mutating
    <3>3. QED
      BY <2>11, <3>1, <3>2, SMTT(30) DEF StopStore, ClientMoves
  <2>12. CASE StopNotify
    BY <2>12 DEF StopNotify, ClientMoves, NotifyOne, Waiting
  <2>13. CASE StopJoin
    BY <2>13 DEF StopJoin, ClientMoves
  <2>14. CASE StopReturn
    BY <2>14 DEF StopReturn, ClientMoves
  <2>15. CASE DestroyBegin
    BY <2>15 DEF DestroyBegin, ClientMoves
  <2>16. CASE DestroyReturn
    BY <2>16 DEF DestroyReturn, ClientMoves
  <2>17. CASE \E s \in Sessions : DecoderInit(s)
    BY <2>17 DEF DecoderInit, DecoderMoves
  <2>18. CASE \E s \in Sessions : DecoderCheck(s)
    BY <2>18 DEF DecoderCheck, DecoderMoves
  <2>19. CASE \E s \in Sessions : DecoderLock(s)
    BY <2>19 DEF DecoderLock, DecoderMoves
  <2>20. CASE \E s \in Sessions : DecoderPred(s)
    <3>1. dec' \in [Sessions -> DecoderPC]
      BY <2>20 DEF DecoderPred, DecoderMoves
    <3>2. QED
      BY <2>20, <3>1, SMTT(30) DEF DecoderPred
  <2>21. CASE \E s \in Sessions : DecoderBlock(s)
    BY <2>21 DEF DecoderBlock, DecoderMoves
  <2>22. CASE \E s \in Sessions : DecoderCopy(s)
    BY <2>22 DEF DecoderCopy, DecoderMoves
  <2>23. CASE \E s \in Sessions : DecoderDecode(s)
    BY <2>23 DEF DecoderDecode, DecoderMoves
  <2>24. CASE \E s \in Sessions : DecoderCleanup(s)
    BY <2>24 DEF DecoderCleanup, DecoderMoves
  <2>25. CASE \E s \in Sessions : SpuriousWakeup(s)
    BY <2>25 DEF SpuriousWakeup, DecoderMoves
  <2>26. CASE \E s \in Sessions : StarterCheck(s)
    BY <2>26 DEF StarterCheck, StarterMoves
  <2>27. CASE \E s \in Sessions : StarterPoll(s)
    BY <2>27 DEF StarterPoll, StarterMoves
  <2>28. CASE \E s \in Sessions : StarterSendAccepted(s)
    BY <2>28 DEF StarterSendAccepted, StarterMoves
  <2>29. CASE \E s \in Sessions : StarterSendRefused(s)
    BY <2>29 DEF StarterSendRefused, StarterMoves
  <2>30. CASE UNCHANGED vars
    BY <2>30 DEF vars
  <2>31. QED
    BY <2>1, <2>2, <2>3, <2>4, <2>5, <2>6, <2>7, <2>8, <2>9, <2>10, <2>11, <2>12, <2>13, <2>14, <2>15, <2>16, <2>17, <2>18, <2>19, <2>20, <2>21, <2>22, <2>23, <2>24, <2>25, <2>26, <2>27, <2>28, <2>29, <2>30
    DEF Next, Callback, Decoder, Starter, ClientRuns
<1>3. QED
  BY <1>1, <1>2, PTL DEF Spec

----------------------------------------------------------------------------
\* DecoderLifetime is almost inductive: what is missing is where the client can
\* be while isLocalThreadRun is set, and that by then it has called Start.
LifeInv ==
  /\ DecoderLifetime
  /\ isLocalThreadRun => cl \in {"idle", "startDecoder", "startStarter", "destroy", "gone"}
  /\ isLocalThreadRun \/ cl \in {"push", "store", "notify", "join"} => session # 0

\* LifeInv is an invariant.
THEOREM LifeInvariant == Spec => []LifeInv
<1>1. Init => LifeInv
  BY DEF Init, LifeInv, DecoderLifetime, Ended, TypeOK, Sessions
<1>2. TypeOK /\ TypeOK' /\ LifeInv /\ [Next]_vars => LifeInv'
  <2> SUFFICES ASSUME TypeOK, TypeOK', LifeInv, [Next]_vars
               PROVE  LifeInv'
    OBVIOUS
  <2> USE DEF LifeInv, DecoderLifetime, Ended, TypeOK, Sessions, clVars, cbVars, decVars, sdkVars
  <2>1. CASE LiveviewStatusCallback
    BY <2>1 DEF LiveviewStatusCallback
  <2>2. CASE CallbackEnter
    BY <2>2 DEF CallbackEnter
  <2>3. CASE CallbackLock
    BY <2>3 DEF CallbackLock
  <2>4. CASE CallbackBody
    BY <2>4 DEF CallbackBody, NotifyOne, Waiting
  <2>5. CASE LiveviewInit
    BY <2>5 DEF LiveviewInit, ClientMoves
  <2>6. CASE StartBegin
    BY <2>6 DEF StartBegin, ClientMoves
  <2>7. CASE StartStarter
    BY <2>7 DEF StartStarter, ClientMoves
  <2>8. CASE StartReturn
    BY <2>8 DEF StartReturn, ClientMoves
  <2>9. CASE StopBegin
    BY <2>9 DEF StopBegin, ClientMoves
  <2>10. CASE StopPush
    BY <2>10 DEF StopPush, ClientMoves
  <2>11. CASE StopStore
    BY <2>11 DEF StopStore, ClientMoves
  <2>12. CASE StopNotify
    BY <2>12 DEF StopNotify, ClientMoves, NotifyOne, Waiting
  <2>13. CASE StopJoin
    BY <2>13 DEF StopJoin, ClientMoves
  <2>14. CASE StopReturn
    BY <2>14 DEF StopReturn, ClientMoves
  <2>15. CASE DestroyBegin
    BY <2>15 DEF DestroyBegin, ClientMoves
  <2>16. CASE DestroyReturn
    BY <2>16 DEF DestroyReturn, ClientMoves
  <2>17. CASE \E s \in Sessions : DecoderInit(s)
    BY <2>17 DEF DecoderInit, DecoderMoves
  <2>18. CASE \E s \in Sessions : DecoderCheck(s)
    BY <2>18 DEF DecoderCheck, DecoderMoves
  <2>19. CASE \E s \in Sessions : DecoderLock(s)
    BY <2>19 DEF DecoderLock, DecoderMoves
  <2>20. CASE \E s \in Sessions : DecoderPred(s)
    BY <2>20, PredMoves
  <2>21. CASE \E s \in Sessions : DecoderBlock(s)
    BY <2>21 DEF DecoderBlock, DecoderMoves
  <2>22. CASE \E s \in Sessions : DecoderCopy(s)
    BY <2>22 DEF DecoderCopy, DecoderMoves
  <2>23. CASE \E s \in Sessions : DecoderDecode(s)
    BY <2>23 DEF DecoderDecode, DecoderMoves
  <2>24. CASE \E s \in Sessions : DecoderCleanup(s)
    BY <2>24 DEF DecoderCleanup, DecoderMoves
  <2>25. CASE \E s \in Sessions : SpuriousWakeup(s)
    BY <2>25 DEF SpuriousWakeup, DecoderMoves
  <2>26. CASE \E s \in Sessions : StarterCheck(s)
    BY <2>26 DEF StarterCheck, StarterMoves
  <2>27. CASE \E s \in Sessions : StarterPoll(s)
    BY <2>27 DEF StarterPoll, StarterMoves
  <2>28. CASE \E s \in Sessions : StarterSendAccepted(s)
    BY <2>28 DEF StarterSendAccepted, StarterMoves
  <2>29. CASE \E s \in Sessions : StarterSendRefused(s)
    BY <2>29 DEF StarterSendRefused, StarterMoves
  <2>30. CASE UNCHANGED vars
    BY <2>30 DEF vars
  <2>31. QED
    BY <2>1, <2>2, <2>3, <2>4, <2>5, <2>6, <2>7, <2>8, <2>9, <2>10, <2>11, <2>12, <2>13, <2>14, <2>15, <2>16, <2>17, <2>18, <2>19, <2>20, <2>21, <2>22, <2>23, <2>24, <2>25, <2>26, <2>27, <2>28, <2>29, <2>30
    DEF Next, Callback, Decoder, Starter, ClientRuns
<1>3. QED
  BY <1>1, <1>2, TypeCorrect, PTL DEF Spec

\* At most one decoder is alive, the one of the last Start, and it does not
\* outlive the Stop that joins it (DJILiveview.cpp:23, 31-40).
THEOREM LifetimeTheorem == Spec => []DecoderLifetime
<1>1. LifeInv => DecoderLifetime
  BY DEF LifeInv
<1>2. QED
  BY <1>1, LifeInvariant, PTL

----------------------------------------------------------------------------

\* At most one thread is in the critical section, and the mutex says so.
THEOREM LockInvariant == Spec => []CacheGuarded
<1>1. Init => CacheGuarded
  BY DEF Init, CacheGuarded, InCritical, TypeOK, Sessions
<1>2. TypeOK /\ LifeInv /\ TypeOK' /\ LifeInv' /\ CacheGuarded /\ [Next]_vars => CacheGuarded'
  <2> SUFFICES ASSUME TypeOK, LifeInv, TypeOK', LifeInv', CacheGuarded, [Next]_vars
               PROVE  CacheGuarded'
    OBVIOUS
  <2> USE DEF CacheGuarded, InCritical, TypeOK, Sessions, clVars, cbVars, decVars, sdkVars
  <2>1. CASE LiveviewStatusCallback
    BY <2>1 DEF LiveviewStatusCallback
  <2>2. CASE CallbackEnter
    BY <2>2 DEF CallbackEnter
  <2>3. CASE CallbackLock
    BY <2>3 DEF CallbackLock
  <2>4. CASE CallbackBody
    BY <2>4 DEF CallbackBody, NotifyOne, Waiting
  <2>5. CASE LiveviewInit
    BY <2>5 DEF LiveviewInit, ClientMoves
  <2>6. CASE StartBegin
    BY <2>6 DEF StartBegin, ClientMoves, LifeInv, DecoderLifetime, Ended
  <2>7. CASE StartStarter
    BY <2>7 DEF StartStarter, ClientMoves
  <2>8. CASE StartReturn
    BY <2>8 DEF StartReturn, ClientMoves
  <2>9. CASE StopBegin
    BY <2>9 DEF StopBegin, ClientMoves
  <2>10. CASE StopPush
    BY <2>10 DEF StopPush, ClientMoves
  <2>11. CASE StopStore
    BY <2>11 DEF StopStore, ClientMoves
  <2>12. CASE StopNotify
    BY <2>12 DEF StopNotify, ClientMoves, NotifyOne, Waiting
  <2>13. CASE StopJoin
    BY <2>13 DEF StopJoin, ClientMoves
  <2>14. CASE StopReturn
    BY <2>14 DEF StopReturn, ClientMoves
  <2>15. CASE DestroyBegin
    BY <2>15 DEF DestroyBegin, ClientMoves
  <2>16. CASE DestroyReturn
    BY <2>16 DEF DestroyReturn, ClientMoves
  <2>17. CASE \E s \in Sessions : DecoderInit(s)
    BY <2>17 DEF DecoderInit, DecoderMoves
  <2>18. CASE \E s \in Sessions : DecoderCheck(s)
    BY <2>18 DEF DecoderCheck, DecoderMoves
  <2>19. CASE \E s \in Sessions : DecoderLock(s)
    BY <2>19 DEF DecoderLock, DecoderMoves
  <2>20. CASE \E s \in Sessions : DecoderPred(s)
    <3>1. PICK s \in Sessions : DecoderPred(s)
      BY <2>20
    <3>2. \A t \in Sessions : (dec'[t] \in {"pred", "block", "copy"}) <=> InCritical(t)
      BY <3>1, PredKeepsLock
    <3>3. QED
      BY <3>1, <3>2, PredMoves
  <2>21. CASE \E s \in Sessions : DecoderBlock(s)
    BY <2>21 DEF DecoderBlock, DecoderMoves
  <2>22. CASE \E s \in Sessions : DecoderCopy(s)
    BY <2>22 DEF DecoderCopy, DecoderMoves
  <2>23. CASE \E s \in Sessions : DecoderDecode(s)
    BY <2>23, SMTT(30) DEF DecoderDecode, DecoderMoves
  <2>24. CASE \E s \in Sessions : DecoderCleanup(s)
    BY <2>24 DEF DecoderCleanup, DecoderMoves
  <2>25. CASE \E s \in Sessions : SpuriousWakeup(s)
    BY <2>25 DEF SpuriousWakeup, DecoderMoves
  <2>26. CASE \E s \in Sessions : StarterCheck(s)
    BY <2>26 DEF StarterCheck, StarterMoves
  <2>27. CASE \E s \in Sessions : StarterPoll(s)
    BY <2>27 DEF StarterPoll, StarterMoves
  <2>28. CASE \E s \in Sessions : StarterSendAccepted(s)
    BY <2>28 DEF StarterSendAccepted, StarterMoves
  <2>29. CASE \E s \in Sessions : StarterSendRefused(s)
    BY <2>29 DEF StarterSendRefused, StarterMoves
  <2>30. CASE UNCHANGED vars
    BY <2>30 DEF vars
  <2>31. QED
    BY <2>1, <2>2, <2>3, <2>4, <2>5, <2>6, <2>7, <2>8, <2>9, <2>10, <2>11, <2>12, <2>13, <2>14, <2>15, <2>16, <2>17, <2>18, <2>19, <2>20, <2>21, <2>22, <2>23, <2>24, <2>25, <2>26, <2>27, <2>28, <2>29, <2>30
    DEF Next, Callback, Decoder, Starter, ClientRuns
<1>3. QED
  BY <1>1, <1>2, TypeCorrect, LifeInvariant, PTL DEF Spec

----------------------------------------------------------------------------
\* A decoder that has found the cache empty and is about to wait still holds the
\* lock: only Stop's unlocked push_back can have filled the cache since.
WakeInv ==
  /\ NoLostWakeup
  /\ \A s \in Sessions : dec[s] = "block" /\ cache # <<>> => cl \in {"notify", "join"}

\* No wakeup is lost but under Stop.
THEOREM WakeInvariant == Spec => []WakeInv
<1>1. Init => WakeInv
  BY DEF Init, WakeInv, NoLostWakeup, TypeOK, Sessions
<1>2. TypeOK /\ LifeInv /\ CacheGuarded /\ TypeOK' /\ LifeInv' /\ CacheGuarded' /\ WakeInv /\ [Next]_vars => WakeInv'
  <2> SUFFICES ASSUME TypeOK, LifeInv, CacheGuarded, TypeOK', LifeInv', CacheGuarded', WakeInv, [Next]_vars
               PROVE  WakeInv'
    OBVIOUS
  <2> USE DEF WakeInv, NoLostWakeup, TypeOK, Sessions, clVars, cbVars, decVars, sdkVars
  <2>1. CASE LiveviewStatusCallback
    BY <2>1 DEF LiveviewStatusCallback
  <2>2. CASE CallbackEnter
    BY <2>2 DEF CallbackEnter
  <2>3. CASE CallbackLock
    BY <2>3 DEF CallbackLock
  <2>4. CASE CallbackBody
    BY <2>4 DEF CallbackBody, NotifyOne, Waiting, CacheGuarded, InCritical, LifeInv, DecoderLifetime, Ended
  <2>5. CASE LiveviewInit
    BY <2>5 DEF LiveviewInit, ClientMoves
  <2>6. CASE StartBegin
    BY <2>6 DEF StartBegin, ClientMoves
  <2>7. CASE StartStarter
    BY <2>7 DEF StartStarter, ClientMoves
  <2>8. CASE StartReturn
    BY <2>8 DEF StartReturn, ClientMoves
  <2>9. CASE StopBegin
    BY <2>9 DEF StopBegin, ClientMoves
  <2>10. CASE StopPush
    BY <2>10 DEF StopPush, ClientMoves
  <2>11. CASE StopStore
    BY <2>11 DEF StopStore, ClientMoves
  <2>12. CASE StopNotify
    BY <2>12 DEF StopNotify, ClientMoves, NotifyOne, Waiting
  <2>13. CASE StopJoin
    BY <2>13 DEF StopJoin, ClientMoves, LifeInv, DecoderLifetime, Ended
  <2>14. CASE StopReturn
    BY <2>14 DEF StopReturn, ClientMoves
  <2>15. CASE DestroyBegin
    BY <2>15 DEF DestroyBegin, ClientMoves
  <2>16. CASE DestroyReturn
    BY <2>16 DEF DestroyReturn, ClientMoves
  <2>17. CASE \E s \in Sessions : DecoderInit(s)
    BY <2>17 DEF DecoderInit, DecoderMoves
  <2>18. CASE \E s \in Sessions : DecoderCheck(s)
    BY <2>18 DEF DecoderCheck, DecoderMoves
  <2>19. CASE \E s \in Sessions : DecoderLock(s)
    BY <2>19 DEF DecoderLock, DecoderMoves
  <2>20. CASE \E s \in Sessions : DecoderPred(s)
    BY <2>20, PredMoves
  <2>21. CASE \E s \in Sessions : DecoderBlock(s)
    BY <2>21 DEF DecoderBlock, DecoderMoves
  <2>22. CASE \E s \in Sessions : DecoderCopy(s)
    BY <2>22 DEF DecoderCopy, DecoderMoves
  <2>23. CASE \E s \in Sessions : DecoderDecode(s)
    BY <2>23 DEF DecoderDecode, DecoderMoves
  <2>24. CASE \E s \in Sessions : DecoderCleanup(s)
    BY <2>24 DEF DecoderCleanup, DecoderMoves
  <2>25. CASE \E s \in Sessions : SpuriousWakeup(s)
    BY <2>25 DEF SpuriousWakeup, DecoderMoves
  <2>26. CASE \E s \in Sessions : StarterCheck(s)
    BY <2>26 DEF StarterCheck, StarterMoves
  <2>27. CASE \E s \in Sessions : StarterPoll(s)
    BY <2>27 DEF StarterPoll, StarterMoves
  <2>28. CASE \E s \in Sessions : StarterSendAccepted(s)
    BY <2>28 DEF StarterSendAccepted, StarterMoves
  <2>29. CASE \E s \in Sessions : StarterSendRefused(s)
    BY <2>29 DEF StarterSendRefused, StarterMoves
  <2>30. CASE UNCHANGED vars
    BY <2>30 DEF vars
  <2>31. QED
    BY <2>1, <2>2, <2>3, <2>4, <2>5, <2>6, <2>7, <2>8, <2>9, <2>10, <2>11, <2>12, <2>13, <2>14, <2>15, <2>16, <2>17, <2>18, <2>19, <2>20, <2>21, <2>22, <2>23, <2>24, <2>25, <2>26, <2>27, <2>28, <2>29, <2>30
    DEF Next, Callback, Decoder, Starter, ClientRuns
<1>3. QED
  BY <1>1, <1>2, TypeCorrect, LifeInvariant, LockInvariant, PTL DEF Spec

\* No decoder sleeps on the condition variable with something in the cache,
\* except under a Stop that has pushed its byte (DJILiveview.cpp:33-36).
THEOREM WakeupTheorem == Spec => []NoLostWakeup
<1>1. WakeInv => NoLostWakeup
  BY DEF WakeInv
<1>2. QED
  BY <1>1, WakeInvariant, PTL

----------------------------------------------------------------------------
\* The callback's insert at the end of the cache is an insert at the end of the
\* stream.
LEMMA AppendToStream ==
  ASSUME NEW S, NEW a \in Seq(S), NEW b \in Seq(S), NEW c \in Seq(S), NEW x \in S
  PROVE  a \o b \o Append(c, x) = Append(a \o b \o c, x)
  BY AppendProperties, ConcatProperties, SeqEqual, SMTT(30)

\* DecoderCopy moves the cache to an empty batch: the stream stays the same.
LEMMA MoveToBatch ==
  ASSUME NEW S, NEW a \in Seq(S), NEW c \in Seq(S)
  PROVE  a \o c \o <<>> = a \o <<>> \o c
  BY ConcatEmptySeq, ConcatProperties

\* DecoderDecode moves the batch to what is decoded: the stream stays the same.
LEMMA MoveToDecoded ==
  ASSUME NEW S, NEW a \in Seq(S), NEW b \in Seq(S), NEW c \in Seq(S)
  PROVE  (a \o b) \o <<>> \o c = a \o b \o c
  BY ConcatEmptySeq, ConcatProperties

\* The chunks 1 to n, followed by the next one.
LEMMA CountUp ==
  ASSUME NEW n \in Nat
  PROVE  Append([i \in 1..n |-> i], n + 1) = [i \in 1..(n + 1) |-> i]
  BY SMTT(30)

\* Between the copy and the decoding of a batch is the only time there is one.
BatchInv == \A s \in Sessions : dec[s] # "decode" => batch[s] = <<>>

\* decode_data is spent once it has been decoded.
THEOREM BatchInvariant == Spec => []BatchInv
<1>1. Init => BatchInv
  BY DEF Init, BatchInv, TypeOK, Sessions
<1>2. TypeOK /\ LifeInv /\ TypeOK' /\ LifeInv' /\ BatchInv /\ [Next]_vars => BatchInv'
  <2> SUFFICES ASSUME TypeOK, LifeInv, TypeOK', LifeInv', BatchInv, [Next]_vars
               PROVE  BatchInv'
    OBVIOUS
  <2> USE DEF BatchInv, TypeOK, Sessions, clVars, cbVars, decVars, sdkVars
  <2>1. CASE LiveviewStatusCallback
    BY <2>1 DEF LiveviewStatusCallback
  <2>2. CASE CallbackEnter
    BY <2>2 DEF CallbackEnter
  <2>3. CASE CallbackLock
    BY <2>3 DEF CallbackLock
  <2>4. CASE CallbackBody
    BY <2>4 DEF CallbackBody, NotifyOne, Waiting
  <2>5. CASE LiveviewInit
    BY <2>5 DEF LiveviewInit, ClientMoves
  <2>6. CASE StartBegin
    BY <2>6 DEF StartBegin, ClientMoves, LifeInv, DecoderLifetime, Ended
  <2>7. CASE StartStarter
    BY <2>7 DEF StartStarter, ClientMoves
  <2>8. CASE StartReturn
    BY <2>8 DEF StartReturn, ClientMoves
  <2>9. CASE StopBegin
    BY <2>9 DEF StopBegin, ClientMoves
  <2>10. CASE StopPush
    BY <2>10 DEF StopPush, ClientMoves
  <2>11. CASE StopStore
    BY <2>11 DEF StopStore, ClientMoves
  <2>12. CASE StopNotify
    BY <2>12 DEF StopNotify, ClientMoves, NotifyOne, Waiting
  <2>13. CASE StopJoin
    BY <2>13 DEF StopJoin, ClientMoves
  <2>14. CASE StopReturn
    BY <2>14 DEF StopReturn, ClientMoves
  <2>15. CASE DestroyBegin
    BY <2>15 DEF DestroyBegin, ClientMoves
  <2>16. CASE DestroyReturn
    BY <2>16 DEF DestroyReturn, ClientMoves
  <2>17. CASE \E s \in Sessions : DecoderInit(s)
    BY <2>17 DEF DecoderInit, DecoderMoves
  <2>18. CASE \E s \in Sessions : DecoderCheck(s)
    BY <2>18 DEF DecoderCheck, DecoderMoves
  <2>19. CASE \E s \in Sessions : DecoderLock(s)
    BY <2>19 DEF DecoderLock, DecoderMoves
  <2>20. CASE \E s \in Sessions : DecoderPred(s)
    BY <2>20, PredMoves
  <2>21. CASE \E s \in Sessions : DecoderBlock(s)
    BY <2>21 DEF DecoderBlock, DecoderMoves
  <2>22. CASE \E s \in Sessions : DecoderCopy(s)
    BY <2>22 DEF DecoderCopy, DecoderMoves
  <2>23. CASE \E s \in Sessions : DecoderDecode(s)
    BY <2>23 DEF DecoderDecode, DecoderMoves
  <2>24. CASE \E s \in Sessions : DecoderCleanup(s)
    BY <2>24 DEF DecoderCleanup, DecoderMoves
  <2>25. CASE \E s \in Sessions : SpuriousWakeup(s)
    BY <2>25 DEF SpuriousWakeup, DecoderMoves
  <2>26. CASE \E s \in Sessions : StarterCheck(s)
    BY <2>26 DEF StarterCheck, StarterMoves
  <2>27. CASE \E s \in Sessions : StarterPoll(s)
    BY <2>27 DEF StarterPoll, StarterMoves
  <2>28. CASE \E s \in Sessions : StarterSendAccepted(s)
    BY <2>28 DEF StarterSendAccepted, StarterMoves
  <2>29. CASE \E s \in Sessions : StarterSendRefused(s)
    BY <2>29 DEF StarterSendRefused, StarterMoves
  <2>30. CASE UNCHANGED vars
    BY <2>30 DEF vars
  <2>31. QED
    BY <2>1, <2>2, <2>3, <2>4, <2>5, <2>6, <2>7, <2>8, <2>9, <2>10, <2>11, <2>12, <2>13, <2>14, <2>15, <2>16, <2>17, <2>18, <2>19, <2>20, <2>21, <2>22, <2>23, <2>24, <2>25, <2>26, <2>27, <2>28, <2>29, <2>30
    DEF Next, Callback, Decoder, Starter, ClientRuns
<1>3. QED
  BY <1>1, <1>2, TypeCorrect, LifeInvariant, PTL DEF Spec

\* What a step does to the stream: nothing, one more chunk at its end, or a byte
\* of Stop at its end, which is the only thing that may go wrong.
StreamMoves ==
  /\ cacheUB => cacheUB'
  /\ \/ Stream' = Stream /\ Inserted' = Inserted /\ (Fresh' => Fresh)
     \/ /\ Stream' = Append(Stream, Inserted + 1) /\ Inserted' = Inserted + 1
        /\ Inserted + 1 \in Items /\ (Fresh' => Fresh)
     \/ /\ ~cacheUB' => Stream' = Append(Stream, Sentinel)
        /\ Inserted' = Inserted /\ ~Fresh'

\* A step that moves no chunk.
LEMMA StreamFrame ==
  ASSUME Fresh' => Fresh, Inserted' = Inserted, cacheUB => cacheUB',
         UNCHANGED <<batch, decoded, cache, session>>
  PROVE  StreamMoves
  <1>1. Stream' = Stream
    BY DEF Stream, Batch
  <1>2. QED
    BY <1>1 DEF StreamMoves

\* The batch of the running session.
LEMMA BatchType == ASSUME TypeOK PROVE Batch \in Seq(Items)
  BY DEF TypeOK, Batch, Sessions

\* Every step moves the stream so, while one decoder at a time is alive.
LEMMA StreamStep ==
  ASSUME TypeOK, LifeInv, BatchInv, [Next]_vars
  PROVE  StreamMoves
<1>1. CASE LiveviewStatusCallback
  BY <1>1, StreamFrame DEF Fresh, Inserted, clVars, cbVars, decVars, LiveviewStatusCallback
<1>2. CASE CallbackEnter
  <2>1. Inserted' = Inserted
    BY <1>2 DEF CallbackEnter, Inserted, TypeOK
  <2>2. QED
    BY <1>2, <2>1, StreamFrame DEF CallbackEnter, Fresh, clVars, decVars
<1>3. CASE CallbackLock
  BY <1>3, StreamFrame DEF Fresh, Inserted, clVars, cbVars, decVars, CallbackLock
<1>4. CASE CallbackBody
  <2>1. /\ arrived \in Nat \ {0} /\ arrived \in Items
        /\ Inserted = arrived - 1 /\ Inserted' = arrived
    BY <1>4 DEF CallbackBody, Inserted, TypeOK, Items
  <2>2. Batch' = Batch
    BY <1>4 DEF CallbackBody, Batch, clVars
  <2>3. Stream' = Append(Stream, arrived)
    <3>1. decoded' = decoded /\ cache' = Append(cache, arrived)
      BY <1>4 DEF CallbackBody
    <3>2. decoded \in Seq(Items) /\ cache \in Seq(Items)
      BY DEF TypeOK
    <3>3. Stream' = decoded \o Batch \o Append(cache, arrived)
      BY <2>2, <3>1 DEF Stream
    <3>4. decoded \o Batch \o Append(cache, arrived) = Append(decoded \o Batch \o cache, arrived)
      <4>1. Batch \in Seq(Items) /\ arrived \in Items
        BY <2>1, BatchType
      <4>2. QED
        BY <3>2, <4>1, AppendToStream
    <3>5. QED
      BY <3>3, <3>4 DEF Stream
  <2>4. Fresh' => Fresh
    BY <1>4 DEF CallbackBody, Fresh, clVars
  <2>5. cacheUB' = cacheUB
    BY <1>4 DEF CallbackBody, clVars
  <2>6. QED
    BY <2>1, <2>3, <2>4, <2>5 DEF StreamMoves
<1>5. CASE LiveviewInit
  BY <1>5, StreamFrame DEF Fresh, Inserted, clVars, cbVars, decVars, LiveviewInit, ClientMoves
<1>6. CASE StartBegin
  <2>1. /\ Fresh' => Fresh
        /\ session' \in Sessions /\ Inserted' = Inserted /\ cacheUB' = cacheUB
    BY <1>6 DEF StartBegin, Fresh, TypeOK, Sessions, Inserted, cbVars
  <2>2. \A s \in Sessions : batch[s] = <<>>
    BY <1>6 DEF StartBegin, ClientMoves, LifeInv, DecoderLifetime, Ended, BatchInv
  <2>3. Batch = <<>> /\ Batch' = <<>>
    BY <1>6, <2>1, <2>2 DEF StartBegin, Batch, TypeOK, Sessions
  <2>4. Stream' = Stream
    BY <1>6, <2>3 DEF StartBegin, Stream
  <2>5. QED
    BY <2>1, <2>4 DEF StreamMoves
<1>7. CASE StartStarter
  BY <1>7, StreamFrame DEF Fresh, Inserted, clVars, cbVars, decVars, StartStarter, ClientMoves
<1>8. CASE StartReturn
  BY <1>8, StreamFrame DEF Fresh, Inserted, clVars, cbVars, decVars, StartReturn, ClientMoves
<1>9. CASE StopBegin
  BY <1>9, StreamFrame DEF Fresh, Inserted, clVars, cbVars, decVars, StopBegin, ClientMoves
<1>10. CASE StopPush
  BY <1>10, StreamFrame DEF Fresh, Inserted, clVars, cbVars, decVars, StopPush, ClientMoves
<1>11. CASE StopStore
  <2>1. ~Fresh' /\ Inserted' = Inserted /\ Batch' = Batch /\ decoded' = decoded
    BY <1>11 DEF StopStore, ClientMoves, LifeInv, Fresh, Inserted, Batch, cbVars, decVars
  <2>2. (cacheUB => cacheUB') /\ (~cacheUB' => cache' = Append(cache, Sentinel))
    BY <1>11 DEF StopStore
  <2>3. decoded \o Batch \o Append(cache, Sentinel) = Append(decoded \o Batch \o cache, Sentinel)
    <3>1. decoded \in Seq(Items) /\ cache \in Seq(Items) /\ Sentinel \in Items
      BY DEF TypeOK, Sentinel, Items
    <3>2. QED
      BY <3>1, BatchType, AppendToStream
  <2>4. ~cacheUB' => Stream' = Append(Stream, Sentinel)
    BY <2>1, <2>2, <2>3 DEF Stream
  <2>5. QED
    BY <2>1, <2>2, <2>4 DEF StreamMoves
<1>12. CASE StopNotify
  BY <1>12, StreamFrame DEF Fresh, Inserted, clVars, cbVars, decVars, StopNotify, ClientMoves
<1>13. CASE StopJoin
  BY <1>13, StreamFrame DEF Fresh, Inserted, clVars, cbVars, decVars, StopJoin, ClientMoves
<1>14. CASE StopReturn
  BY <1>14, StreamFrame DEF Fresh, Inserted, clVars, cbVars, decVars, StopReturn, ClientMoves
<1>15. CASE DestroyBegin
  BY <1>15, StreamFrame DEF Fresh, Inserted, clVars, cbVars, decVars, DestroyBegin, ClientMoves
<1>16. CASE DestroyReturn
  BY <1>16, StreamFrame DEF Fresh, Inserted, clVars, cbVars, decVars, DestroyReturn, ClientMoves
<1>17. CASE \E s \in Sessions : DecoderInit(s)
  BY <1>17, StreamFrame DEF Fresh, Inserted, clVars, cbVars, decVars, DecoderInit, DecoderMoves
<1>18. CASE \E s \in Sessions : DecoderCheck(s)
  BY <1>18, StreamFrame DEF Fresh, Inserted, clVars, cbVars, decVars, DecoderCheck, DecoderMoves
<1>19. CASE \E s \in Sessions : DecoderLock(s)
  BY <1>19, StreamFrame DEF Fresh, Inserted, clVars, cbVars, decVars, DecoderLock, DecoderMoves
<1>20. CASE \E s \in Sessions : DecoderPred(s)
  BY <1>20, PredMoves, StreamFrame DEF Fresh, Inserted, clVars, cbVars
<1>21. CASE \E s \in Sessions : DecoderBlock(s)
  BY <1>21, StreamFrame DEF Fresh, Inserted, clVars, cbVars, decVars, DecoderBlock, DecoderMoves
<1>22. CASE \E s \in Sessions : DecoderCopy(s)
  <2>1. PICK s \in Sessions : DecoderCopy(s)
    BY <1>22
  <2>2. s = session /\ session # 0
    BY <2>1 DEF DecoderCopy, DecoderMoves, LifeInv, DecoderLifetime, Ended, Sessions
  <2>3. Batch = <<>> /\ Batch' = cache
    BY <2>1, <2>2 DEF DecoderCopy, DecoderMoves, Batch, BatchInv, clVars, TypeOK
  <2>4. Stream' = decoded \o cache \o <<>> /\ Stream = decoded \o <<>> \o cache
    BY <2>1, <2>3 DEF DecoderCopy, Stream
  <2>5. Stream' = Stream
    BY <2>4, MoveToBatch DEF TypeOK
  <2>6. Fresh' = Fresh /\ Inserted' = Inserted /\ cacheUB' = cacheUB
    BY <2>1 DEF DecoderCopy, Fresh, Inserted, clVars, cbVars
  <2>7. QED
    BY <2>5, <2>6 DEF StreamMoves
<1>23. CASE \E s \in Sessions : DecoderDecode(s)
  <2>1. PICK s \in Sessions : DecoderDecode(s)
    BY <1>23
  <2>2. s = session /\ session # 0
    BY <2>1 DEF DecoderDecode, DecoderMoves, LifeInv, DecoderLifetime, Ended, Sessions
  <2>3. Batch = batch[s] /\ Batch' = <<>>
    BY <2>1, <2>2 DEF DecoderDecode, Batch, clVars, TypeOK
  <2>4. Stream' = (decoded \o batch[s]) \o <<>> \o cache /\ Stream = decoded \o batch[s] \o cache
    BY <2>1, <2>3 DEF DecoderDecode, Stream
  <2>5. Stream' = Stream
    BY <2>3, <2>4, BatchType, MoveToDecoded DEF TypeOK
  <2>6. Fresh' = Fresh /\ Inserted' = Inserted /\ cacheUB' = cacheUB
    BY <2>1 DEF DecoderDecode, Fresh, Inserted, clVars, cbVars
  <2>7. QED
    BY <2>5, <2>6 DEF StreamMoves
<1>24. CASE \E s \in Sessions : DecoderCleanup(s)
  BY <1>24, StreamFrame DEF Fresh, Inserted, clVars, cbVars, decVars, DecoderCleanup, DecoderMoves
<1>25. CASE \E s \in Sessions : SpuriousWakeup(s)
  BY <1>25, StreamFrame DEF Fresh, Inserted, clVars, cbVars, decVars, SpuriousWakeup, DecoderMoves
<1>26. CASE \E s \in Sessions : StarterCheck(s)
  BY <1>26, StreamFrame DEF Fresh, Inserted, clVars, cbVars, decVars, StarterCheck, StarterMoves
<1>27. CASE \E s \in Sessions : StarterPoll(s)
  BY <1>27, StreamFrame DEF Fresh, Inserted, clVars, cbVars, decVars, StarterPoll, StarterMoves
<1>28. CASE \E s \in Sessions : StarterSendAccepted(s)
  BY <1>28, StreamFrame DEF Fresh, Inserted, clVars, cbVars, decVars, StarterSendAccepted, StarterMoves
<1>29. CASE \E s \in Sessions : StarterSendRefused(s)
  BY <1>29, StreamFrame DEF Fresh, Inserted, clVars, cbVars, decVars, StarterSendRefused, StarterMoves
<1>30. CASE UNCHANGED vars
  BY <1>30, StreamFrame DEF Fresh, Inserted, clVars, cbVars, decVars, vars
<1>31. QED
  BY <1>1, <1>2, <1>3, <1>4, <1>5, <1>6, <1>7, <1>8, <1>9, <1>10, <1>11, <1>12, <1>13, <1>14, <1>15, <1>16, <1>17, <1>18, <1>19, <1>20, <1>21, <1>22, <1>23, <1>24, <1>25, <1>26, <1>27, <1>28, <1>29, <1>30
  DEF Next, Callback, Decoder, Starter, ClientRuns

\* In the first session the decoder gets exactly the chunks the SDK delivered.
THEOREM StreamInvariant == Spec => []StreamIntact
<1>1. Init => StreamIntact
  BY ConcatEmptySeq DEF Init, StreamIntact, Stream, Batch, Inserted
<1>2. TypeOK /\ LifeInv /\ BatchInv /\ StreamIntact /\ [Next]_vars => StreamIntact'
  <2> SUFFICES ASSUME TypeOK, LifeInv, BatchInv, StreamIntact, [Next]_vars, Fresh'
               PROVE  Stream' = [i \in 1..Inserted' |-> i]
    BY DEF StreamIntact
  <2>1. Inserted \in Nat
    BY DEF Inserted, TypeOK
  <2>2. Append([i \in 1..Inserted |-> i], Inserted + 1) = [i \in 1..(Inserted + 1) |-> i]
    BY <2>1, CountUp
  <2>3. StreamMoves
    BY StreamStep
  <2>4. QED
    BY <2>2, <2>3 DEF StreamIntact, StreamMoves
<1>3. QED
  BY <1>1, <1>2, TypeCorrect, LifeInvariant, BatchInvariant, PTL DEF Spec

\* A value appended to a sequence is its last one, and the others stay in place.
LEMMA AppendIs ==
  ASSUME NEW S, NEW s \in Seq(S), NEW x \in S
  PROVE  /\ DOMAIN Append(s, x) = DOMAIN s \cup {Len(s) + 1} /\ DOMAIN s = 1..Len(s)
         /\ \A p \in DOMAIN s : Append(s, x)[p] = s[p]
         /\ Append(s, x)[Len(s) + 1] = x
  BY AppendProperties

\* The chunks of a stream, which may also hold bytes of Stop, are 1 to n in order.
CountsUp(s, n) ==
  /\ ToSet(s) \ {Sentinel} = 1..n
  /\ \A p, q \in DOMAIN s : p < q /\ Sentinel \notin {s[p], s[q]} => s[p] < s[q]

\* They still are with one more chunk, or with a byte of Stop, at the end.
LEMMA CountsOn ==
  ASSUME NEW s \in Seq(Items), NEW n \in Nat, CountsUp(s, n)
  PROVE  /\ n + 1 \in Items => CountsUp(Append(s, n + 1), n + 1)
         /\ CountsUp(Append(s, Sentinel), n)
<1>1. /\ Sentinel \in Items /\ Sentinel = 0 /\ Len(s) \in Nat
      /\ \A p \in DOMAIN s : s[p] \in Items /\ s[p] \in Nat /\ (s[p] # Sentinel => s[p] <= n)
  BY DEF Items, Sentinel, CountsUp, ToSet
<1>2. ASSUME NEW x \in Items
      PROVE  ToSet(Append(s, x)) = ToSet(s) \cup {x}
  BY <1>1, AppendIs DEF ToSet
<1>3. ASSUME n + 1 \in Items
      PROVE  CountsUp(Append(s, n + 1), n + 1)
  <2>1. ToSet(Append(s, n + 1)) \ {Sentinel} = 1..(n + 1)
    <3>1. (ToSet(s) \cup {n + 1}) \ {Sentinel} = 1..n \cup {n + 1}
      BY <1>1 DEF CountsUp
    <3>2. 1..n \cup {n + 1} = 1..(n + 1)
      OBVIOUS
    <3>3. QED
      BY <1>2, <1>3, <3>1, <3>2
  <2>2. ASSUME NEW p \in DOMAIN Append(s, n + 1), NEW q \in DOMAIN Append(s, n + 1), p < q,
               Sentinel \notin {Append(s, n + 1)[p], Append(s, n + 1)[q]}
        PROVE  Append(s, n + 1)[p] < Append(s, n + 1)[q]
    <3>1. p \in DOMAIN s /\ (q \in DOMAIN s \/ q = Len(s) + 1)
      BY <1>1, <1>3, <2>2, AppendIs
    <3>2. CASE q \in DOMAIN s
      BY <1>3, <2>2, <3>1, <3>2, AppendIs DEF CountsUp
    <3>3. CASE q = Len(s) + 1
      <4>1. Append(s, n + 1)[p] = s[p] /\ Append(s, n + 1)[q] = n + 1
        BY <1>3, <3>1, <3>3, AppendIs
      <4>2. QED
        BY <1>1, <2>2, <3>1, <4>1
    <3>4. QED
      BY <3>1, <3>2, <3>3
  <2>3. QED
    BY <2>1, <2>2 DEF CountsUp
<1>4. CountsUp(Append(s, Sentinel), n)
  <2>1. ToSet(Append(s, Sentinel)) \ {Sentinel} = 1..n
    BY <1>1, <1>2 DEF CountsUp
  <2>2. ASSUME NEW p \in DOMAIN Append(s, Sentinel), NEW q \in DOMAIN Append(s, Sentinel), p < q,
               Sentinel \notin {Append(s, Sentinel)[p], Append(s, Sentinel)[q]}
        PROVE  Append(s, Sentinel)[p] < Append(s, Sentinel)[q]
    <3>1. p \in DOMAIN s /\ q \in DOMAIN s
      BY <1>1, <2>2, AppendIs
    <3>2. QED
      BY <1>1, <2>2, <3>1, AppendIs DEF CountsUp
  <2>3. QED
    BY <2>1, <2>2 DEF CountsUp
<1>5. QED
  BY <1>3, <1>4

\* Over any number of sessions no chunk is lost, repeated or overtaken, unless the
\* unlocked push_back of a Stop raced.
THEOREM ChunksInvariant == Spec => []ChunksKept
<1>1. Init => ChunksKept
  <2> SUFFICES ASSUME Init PROVE CountsUp(Stream, Inserted)
    BY DEF ChunksKept, CountsUp
  <2>1. Stream = <<>> /\ Inserted = 0
    BY ConcatEmptySeq DEF Init, Stream, Batch, Inserted
  <2>2. CountsUp(<<>>, 0)
    BY DEF CountsUp, ToSet
  <2>3. QED
    BY <2>1, <2>2
<1>2. TypeOK /\ LifeInv /\ BatchInv /\ ChunksKept /\ [Next]_vars => ChunksKept'
  <2> SUFFICES ASSUME TypeOK, LifeInv, BatchInv, ChunksKept, [Next]_vars, ~cacheUB'
               PROVE  CountsUp(Stream', Inserted')
    BY DEF ChunksKept, CountsUp
  <2>1. StreamMoves
    BY StreamStep
  <2>2. ~cacheUB /\ CountsUp(Stream, Inserted)
    BY <2>1 DEF StreamMoves, ChunksKept, CountsUp
  <2>3. Inserted \in Nat /\ Stream \in Seq(Items)
    BY BatchType DEF TypeOK, Inserted, Stream
  <2>4. QED
    BY <2>1, <2>2, <2>3, CountsOn DEF StreamMoves
<1>3. QED
  BY <1>1, <1>2, TypeCorrect, LifeInvariant, BatchInvariant, PTL DEF Spec

----------------------------------------------------------------------------
(* The bitrate.  Delivered and % are over data of any size, so the facts    *)
(* about them that the proof needs come first.                              *)

\* A set of numbers that has one has a least one.
LEMMA LeastNumber ==
  ASSUME NEW T \in SUBSET Nat, T # {}
  PROVE  \E m \in T : \A n \in T : m <= n
<1> DEFINE R == {ss \in Nat \X Nat : ss[1] < ss[2]}
<1>1. IsWellFoundedOn(R, Nat)
  BY NatLessThanWellFounded DEF OpToRel
<1>2. \A m, n \in Nat : <<n, m>> \notin R => m <= n
  OBVIOUS
<1> HIDE DEF R
<1>3. PICK m \in T : \A n \in T : ~(<<n, m>> \in R)
  BY <1>1, WFMin
<1>4. QED
  BY <1>2, <1>3

\* The sums of a table of numbers, from 0 up to any of its places, exist.
LEMMA SumsExist ==
  ASSUME NEW f, NEW N \in Nat, \A i \in 1..N : f[i] \in Nat
  PROVE  \E g \in [0..N -> Nat] : g[0] = 0 /\ \A i \in 1..N : g[i] = g[i - 1] + f[i]
<1> DEFINE Sums(g, n) == g \in [0..n -> Nat] /\ g[0] = 0 /\ \A i \in 1..n : g[i] = g[i - 1] + f[i]
           T == {n \in 0..N : ~\E g : Sums(g, n)}
<1>1. SUFFICES ASSUME T # {} PROVE FALSE
  <2>1. N \in 0..N
    OBVIOUS
  <2>2. N \notin T
    <3> HIDE DEF T
    <3>1. QED
      BY <1>1
  <2>3. \E g : Sums(g, N)
    BY <2>1, <2>2
  <2>4. QED
    BY <2>3
<1>2. PICK m \in T : \A n \in T : m <= n
  <2>1. T \in SUBSET Nat
    OBVIOUS
  <2> HIDE DEF T
  <2>2. QED
    BY <1>1, <2>1, LeastNumber
<1>3. m # 0
  <2>1. Sums([n \in 0..0 |-> 0], 0)
    OBVIOUS
  <2>2. QED
    BY <2>1
<1>4. m \in 1..N /\ m - 1 \in 0..N /\ m - 1 \notin T
  <2>1. m \in 0..N
    BY <1>2
  <2>2. m \in 1..N /\ m - 1 \in 0..N /\ ~(m <= m - 1)
    BY <1>3, <2>1
  <2> HIDE DEF T
  <2>3. QED
    BY <1>2, <2>2
<1>5. PICK g : Sums(g, m - 1)
  BY <1>4
<1>6. Sums([n \in 0..m |-> IF n = m THEN g[m - 1] + f[m] ELSE g[n]], m)
  BY <1>4, <1>5
<1>7. \E h : Sums(h, m)
  BY <1>6
<1>8. QED
  BY <1>2, <1>7

\* Delivered adds up the lengths of the chunks.
LEMMA DeliveredSums ==
  /\ Delivered \in [0..MaxChunks -> Nat]
  /\ \A n \in 1..MaxChunks : Delivered[n] = Delivered[n - 1] + ChunkLen[n]
<1> DEFINE Sums(g) == g = [n \in 0..MaxChunks |-> IF n = 0 THEN 0 ELSE g[n - 1] + ChunkLen[n]]
<1>1. PICK g \in [0..MaxChunks -> Nat] :
        g[0] = 0 /\ \A i \in 1..MaxChunks : g[i] = g[i - 1] + ChunkLen[i]
  BY SumsExist
<1>2. Sums(g)
  BY <1>1
<1>3. Delivered = [n \in 0..MaxChunks |-> IF n = 0 THEN 0 ELSE Delivered[n - 1] + ChunkLen[n]]
  BY <1>2 DEF Delivered
<1>4. Delivered[0] = 0 /\ \A n \in 1..MaxChunks : Delivered[n] = Delivered[n - 1] + ChunkLen[n]
  BY <1>3
<1> DEFINE T == {n \in 0..MaxChunks : Delivered[n] \notin Nat}
<1>5. T = {}
  <2> SUFFICES ASSUME T # {} PROVE FALSE
    OBVIOUS
  <2>1. PICK m \in T : \A n \in T : m <= n
    <3>1. T \in SUBSET Nat
      OBVIOUS
    <3> HIDE DEF T
    <3>2. QED
      BY <3>1, LeastNumber
  <2>2. m \in 1..MaxChunks /\ Delivered[m] \notin Nat
    BY <1>4, <2>1
  <2>3. m - 1 \in 0..MaxChunks /\ ~(m <= m - 1)
    BY <2>2
  <2>4. Delivered[m - 1] \in Nat
    BY <2>1, <2>3
  <2>5. QED
    BY <1>4, <2>2, <2>4
<1>6. Delivered \in [0..MaxChunks -> Nat]
  BY <1>3, <1>5
<1>7. QED
  BY <1>4, <1>6

\* A product with a sum.
LEMMA Distributes ==
  ASSUME NEW m \in Int, NEW x \in Int, NEW y \in Int
  PROVE  m * (x + y) = m * x + m * y
  OBVIOUS

\* A number is made up of its quotient and its remainder.
LEMMA Divided ==
  ASSUME NEW m \in Nat \ {0}, NEW x \in Int
  PROVE  /\ x \div m \in Int /\ x % m \in 0..(m - 1)
         /\ x = m * (x \div m) + (x % m)
  OBVIOUS

\* A number has one remainder.
LEMMA ModUnique ==
  ASSUME NEW m \in Nat \ {0}, NEW p \in Int, NEW q \in Int,
         NEW r \in 0..(m - 1), NEW s \in 0..(m - 1), m * p + r = m * q + s
  PROVE  r = s
<1>1. m * (p - q) = s - r /\ m * (q - p) = r - s
  OBVIOUS
<1>2. CASE p - q >= 1
  <2>1. m * (p - q) >= m
    BY <1>2
  <2>2. QED
    BY <1>1, <2>1
<1>3. CASE q - p >= 1
  <2>1. m * (q - p) >= m
    BY <1>3
  <2>2. QED
    BY <1>1, <2>1
<1>4. CASE p = q
  BY <1>4
<1>5. QED
  BY <1>2, <1>3, <1>4

\* Unsigned addition may wrap at every step or once at the end.
LEMMA ModSum ==
  ASSUME NEW m \in Nat \ {0}, NEW a \in Int, NEW b \in Int
  PROVE  ((a % m) + b) % m = (a + b) % m
<1> DEFINE c == (a % m) + b
           p == (a \div m) + (c \div m)
           q == (a + b) \div m
           r == c % m
           s == (a + b) % m
<1>1. a = m * (a \div m) + (a % m) /\ a % m \in 0..(m - 1) /\ a \div m \in Int
  BY Divided
<1>2. c \in Int /\ c = m * (c \div m) + r /\ r \in 0..(m - 1) /\ c \div m \in Int
  <2>1. c \in Int
    BY <1>1
  <2> HIDE DEF c
  <2>2. QED
    BY <2>1, Divided
<1>3. a + b = m * q + s /\ s \in 0..(m - 1) /\ q \in Int
  <2>1. a + b \in Int
    OBVIOUS
  <2>2. QED
    BY <2>1, Divided
<1>4. a + b = m * (a \div m) + c
  BY <1>1
<1>5. m * p = m * (a \div m) + m * (c \div m)
  <2> HIDE DEF c
  <2>1. QED
    BY <1>1, <1>2, Distributes
<1>6. p \in Int /\ m * p + r = m * q + s
  <2> HIDE DEF c
  <2>1. p \in Int
    BY <1>1, <1>2
  <2> HIDE DEF p, q, r, s
  <2>2. QED
    BY <1>1, <1>2, <1>3, <1>4, <1>5, <2>1
<1> HIDE DEF p, q, r, s
<1>7. r = s
  BY <1>2, <1>3, <1>6, ModUnique
<1>8. QED
  BY <1>7 DEF r, s

\* One more chunk in an interval, and an interval without chunks.
LEMMA BytesOn ==
  ASSUME NEW lo \in 0..MaxChunks, NEW n \in 1..MaxChunks
  PROVE  /\ BytesOf(lo, n) = (BytesOf(lo, n - 1) + ChunkLen[n]) % UintMod
         /\ BytesOf(lo, lo) = 0
<1>1. /\ Delivered[n] \in Int /\ Delivered[n - 1] \in Int /\ Delivered[lo] \in Int
      /\ ChunkLen[n] \in Int /\ n - 1 \in 0..MaxChunks
      /\ Delivered[n] = Delivered[n - 1] + ChunkLen[n]
  BY DeliveredSums
<1> DEFINE d == Delivered[n - 1] - Delivered[lo]
<1>2. d \in Int /\ Delivered[n] - Delivered[lo] = d + ChunkLen[n]
  BY <1>1
<1>3. ((d % UintMod) + ChunkLen[n]) % UintMod = (d + ChunkLen[n]) % UintMod
  <2> HIDE DEF d
  <2>1. QED
    BY <1>1, <1>2, ModSum
<1>4. Delivered[lo] - Delivered[lo] = 0 /\ 0 % UintMod = 0
  BY <1>1
<1>5. QED
  BY <1>2, <1>3, <1>4 DEF BytesOf

\* Only the callback touches the bitrate, and counts its chunk as it inserts it.
LEMMA RateStep ==
  ASSUME [Next]_vars
  PROVE  CallbackEnter \/ CallbackBody \/ UNCHANGED <<rate, window, Inserted>>
<1> USE DEF Inserted, clVars, cbVars, decVars, sdkVars
<1>1. CASE LiveviewStatusCallback \/ CallbackLock
  BY <1>1 DEF LiveviewStatusCallback, CallbackLock
<1>2. CASE LiveviewInit \/ StartBegin \/ StartStarter \/ StartReturn
  BY <1>2 DEF LiveviewInit, StartBegin, StartStarter, StartReturn
<1>3. CASE StopBegin \/ StopPush \/ StopStore \/ StopNotify \/ StopJoin \/ StopReturn
  BY <1>3 DEF StopBegin, StopPush, StopStore, StopNotify, StopJoin, StopReturn
<1>4. CASE DestroyBegin \/ DestroyReturn
  BY <1>4 DEF DestroyBegin, DestroyReturn
<1>5. CASE \E s \in Sessions : DecoderInit(s) \/ DecoderCheck(s) \/ DecoderLock(s) \/ DecoderPred(s)
  BY <1>5 DEF DecoderInit, DecoderCheck, DecoderLock, DecoderPred
<1>6. CASE \E s \in Sessions : \/ DecoderBlock(s) \/ DecoderCopy(s) \/ DecoderDecode(s)
                              \/ DecoderCleanup(s) \/ SpuriousWakeup(s)
  BY <1>6 DEF DecoderBlock, DecoderCopy, DecoderDecode, DecoderCleanup, SpuriousWakeup
<1>7. CASE \E s \in Sessions : Starter(s)
  BY <1>7 DEF Starter, StarterCheck, StarterPoll, StarterSendAccepted, StarterSendRefused
<1>8. CASE UNCHANGED vars
  BY <1>8 DEF vars
<1>9. QED
  BY <1>1, <1>2, <1>3, <1>4, <1>5, <1>6, <1>7, <1>8 DEF Next, Callback, Decoder, ClientRuns

\* Every chunk is counted once between two publications, however long the chunks
\* are and however the clock moves.
THEOREM RateInvariant == Spec => []RateCountsEveryChunk
<1>1. Init => RateCountsEveryChunk
  <2>1. BytesOf(0, 0) = 0 /\ Kbps(0) = 0
    BY DeliveredSums
    DEF BytesOf, Kbps, BITRATE_CALCULATE_BITS_PER_BYTE, BITRATE_CALCULATE_INTERVAL_TIME_MS
  <2>2. QED
    BY <2>1 DEF Init, NewRate, RateCountsEveryChunk, Inserted
<1>2. TypeOK /\ RateCountsEveryChunk /\ [Next]_vars => RateCountsEveryChunk'
  <2> SUFFICES ASSUME TypeOK, RateCountsEveryChunk, [Next]_vars
               PROVE  RateCountsEveryChunk'
    OBVIOUS
  <2>1. CASE UNCHANGED <<rate, window, Inserted>>
    BY <2>1 DEF RateCountsEveryChunk
  <2>2. CASE CallbackEnter
    <3>1. rate'.total = rate.total /\ rate'.kbps = rate.kbps /\ window' = window
      BY <2>2 DEF CallbackEnter, Elapse, TypeOK, Rate
    <3>2. Inserted' = Inserted
      BY <2>2 DEF CallbackEnter, Inserted, TypeOK
    <3>3. QED
      BY <3>1, <3>2 DEF RateCountsEveryChunk
  <2>3. CASE CallbackBody
    <3> DEFINE total == (rate.total + ChunkLen[arrived]) % UintMod
    <3>1. /\ arrived \in 1..MaxChunks /\ Inserted = arrived - 1 /\ Inserted' = arrived
          /\ window.hi \in 0..MaxChunks
      BY <2>3 DEF CallbackBody, Inserted, TypeOK
    <3>2. total = BytesOf(window.hi, arrived)
      BY <3>1, BytesOn DEF RateCountsEveryChunk
    <3> HIDE DEF total
    <3>3. CASE Publishes(rate)
      <4>1. rate'.total = 0 /\ rate'.kbps = Kbps(total)
        BY <2>3, <3>3 DEF CallbackBody, Account, total
      <4>2. window'.lo = window.hi /\ window'.hi = arrived
        BY <2>3, <3>3 DEF CallbackBody
      <4>3. QED
        BY <3>1, <3>2, <4>1, <4>2, BytesOn DEF RateCountsEveryChunk
    <3>4. CASE ~Publishes(rate)
      <4>1. rate'.total = total /\ rate'.kbps = rate.kbps
        BY <2>3, <3>4 DEF CallbackBody, Account, total, TypeOK, Rate
      <4>2. window' = window
        BY <2>3, <3>4 DEF CallbackBody
      <4>3. QED
        BY <3>1, <3>2, <4>1, <4>2 DEF RateCountsEveryChunk
    <3>5. QED
      BY <3>3, <3>4
  <2>4. QED
    BY <2>1, <2>2, <2>3, RateStep
<1>3. QED
  BY <1>1, <1>2, TypeCorrect, PTL DEF Spec

----------------------------------------------------------------------------
\* What the decoder has taken only ever gets longer.
LEMMA ExtensionIsPrefix ==
  ASSUME NEW S, NEW a \in Seq(S), NEW b \in Seq(S)
  PROVE  IsPrefix(a, a \o b)
  BY ConcatProperties, SMTT(30) DEF IsPrefix

\* A step that does not touch the stream keeps the channel as it is.
LEMMA ChannelFrame ==
  ASSUME Fresh' = Fresh, Inserted' = Inserted, UNCHANGED <<batch, decoded, cache, session>>
  PROVE  UNCHANGED Channel!vars
  BY DEF Channel!vars, Batch

\* Closing lasts: a live view that is no longer fresh never is again.
LEMMA StaysClosed ==
  ASSUME TypeOK, LifeInv, [Next]_vars, ~Fresh
  PROVE  ~Fresh'

  <1>1. CASE LiveviewStatusCallback
    BY <1>1 DEF LiveviewStatusCallback, Fresh, clVars, TypeOK
  <1>2. CASE CallbackEnter
    BY <1>2 DEF CallbackEnter, Fresh, clVars, TypeOK
  <1>3. CASE CallbackLock
    BY <1>3 DEF CallbackLock, Fresh, clVars, TypeOK
  <1>4. CASE CallbackBody
    BY <1>4 DEF CallbackBody, Fresh, clVars, TypeOK
  <1>5. CASE LiveviewInit
    BY <1>5 DEF LiveviewInit, ClientMoves, Fresh, clVars, TypeOK
  <1>6. CASE StartBegin
    BY <1>6 DEF StartBegin, ClientMoves, Fresh, clVars, TypeOK
  <1>7. CASE StartStarter
    BY <1>7 DEF StartStarter, ClientMoves, Fresh, clVars, TypeOK
  <1>8. CASE StartReturn
    BY <1>8 DEF StartReturn, ClientMoves, Fresh, clVars, TypeOK
  <1>9. CASE StopBegin
    BY <1>9 DEF StopBegin, ClientMoves, Fresh, clVars, TypeOK
  <1>10. CASE StopPush
    BY <1>10 DEF StopPush, ClientMoves, Fresh, clVars, TypeOK
  <1>11. CASE StopStore
    BY <1>11 DEF StopStore, ClientMoves, Fresh, clVars, TypeOK
  <1>12. CASE StopNotify
    BY <1>12 DEF StopNotify, ClientMoves, Fresh, clVars, TypeOK
  <1>13. CASE StopJoin
    BY <1>13 DEF StopJoin, ClientMoves, Fresh, clVars, TypeOK
  <1>14. CASE StopReturn
    BY <1>14 DEF StopReturn, ClientMoves, Fresh, clVars, TypeOK
  <1>15. CASE DestroyBegin
    BY <1>15 DEF DestroyBegin, ClientMoves, Fresh, clVars, TypeOK
  <1>16. CASE DestroyReturn
    BY <1>16 DEF DestroyReturn, ClientMoves, Fresh, clVars, TypeOK
  <1>17. CASE \E s \in Sessions : DecoderInit(s)
    BY <1>17 DEF DecoderInit, DecoderMoves, Fresh, clVars, TypeOK
  <1>18. CASE \E s \in Sessions : DecoderCheck(s)
    BY <1>18 DEF DecoderCheck, DecoderMoves, Fresh, clVars, TypeOK
  <1>19. CASE \E s \in Sessions : DecoderLock(s)
    BY <1>19 DEF DecoderLock, DecoderMoves, Fresh, clVars, TypeOK
  <1>20. CASE \E s \in Sessions : DecoderPred(s)
    BY <1>20, PredMoves DEF Fresh, clVars
  <1>21. CASE \E s \in Sessions : DecoderBlock(s)
    BY <1>21 DEF DecoderBlock, DecoderMoves, Fresh, clVars, TypeOK
  <1>22. CASE \E s \in Sessions : DecoderCopy(s)
    BY <1>22 DEF DecoderCopy, DecoderMoves, Fresh, clVars, TypeOK
  <1>23. CASE \E s \in Sessions : DecoderDecode(s)
    BY <1>23 DEF DecoderDecode, DecoderMoves, Fresh, clVars, TypeOK
  <1>24. CASE \E s \in Sessions : DecoderCleanup(s)
    BY <1>24 DEF DecoderCleanup, DecoderMoves, Fresh, clVars, TypeOK
  <1>25. CASE \E s \in Sessions : SpuriousWakeup(s)
    BY <1>25 DEF SpuriousWakeup, DecoderMoves, Fresh, clVars, TypeOK
  <1>26. CASE \E s \in Sessions : StarterCheck(s)
    BY <1>26 DEF StarterCheck, StarterMoves, Fresh, clVars, TypeOK
  <1>27. CASE \E s \in Sessions : StarterPoll(s)
    BY <1>27 DEF StarterPoll, StarterMoves, Fresh, clVars, TypeOK
  <1>28. CASE \E s \in Sessions : StarterSendAccepted(s)
    BY <1>28 DEF StarterSendAccepted, StarterMoves, Fresh, clVars, TypeOK
  <1>29. CASE \E s \in Sessions : StarterSendRefused(s)
    BY <1>29 DEF StarterSendRefused, StarterMoves, Fresh, clVars, TypeOK
  <1>30. CASE UNCHANGED vars
    BY <1>30 DEF vars, Fresh, clVars, TypeOK
  <1>31. QED
    BY <1>1, <1>2, <1>3, <1>4, <1>5, <1>6, <1>7, <1>8, <1>9, <1>10, <1>11, <1>12, <1>13, <1>14, <1>15, <1>16, <1>17, <1>18, <1>19, <1>20, <1>21, <1>22, <1>23, <1>24, <1>25, <1>26, <1>27, <1>28, <1>29, <1>30
    DEF Next, Callback, Decoder, Starter, ClientRuns

\* Every step of the live view is a step of the abstract channel or leaves it
\* alone: the safety part of ChannelSpec.
THEOREM ImplementsChannel == Spec => Channel!Init /\ [][Channel!Next]_(Channel!vars)
<1>1. Init => Channel!Init
  BY ConcatEmptySeq DEF Init, Channel!Init, Fresh, Inserted, Batch
<1>2. TypeOK /\ TypeOK' /\ LifeInv /\ BatchInv /\ [Next]_vars => [Channel!Next]_(Channel!vars)
  <2> SUFFICES ASSUME TypeOK, TypeOK', LifeInv, BatchInv, [Next]_vars
               PROVE  [Channel!Next]_(Channel!vars)
    OBVIOUS
  <2>t. decoded \o Batch \in Seq(Items) /\ cache \in Seq(Items)
    BY BatchType, ConcatProperties DEF TypeOK
  <2>c. ASSUME ~Fresh, Batch' = Batch, decoded' = decoded
        PROVE  Channel!Next
    <3>1. IsPrefix(decoded \o Batch, decoded \o Batch)
      <4> DEFINE out == decoded \o Batch
      <4>1. out \in Seq(Items) /\ <<>> \in Seq(Items) /\ out \o <<>> = out
        BY <2>t, ConcatEmptySeq, EmptySeq
      <4> HIDE DEF out
      <4>2. IsPrefix(out, out)
        BY <4>1, ExtensionIsPrefix
      <4>3. QED
        BY <4>2 DEF out
    <3>2. IsPrefix(decoded \o Batch, decoded' \o Batch')
      BY <2>c, <3>1
    <3>3. ~Fresh'
      BY <2>c, StaysClosed
    <3>4. QED
      BY <2>c, <3>2, <3>3 DEF Channel!Next, Channel!AfterClose, Channel!IsPrefix, IsPrefix
  <2>1. CASE LiveviewStatusCallback
    BY <2>1, ChannelFrame DEF Fresh, Inserted, clVars, cbVars, decVars, LiveviewStatusCallback
  <2>2. CASE CallbackEnter
    <3>1. Inserted' = Inserted
      BY <2>2 DEF CallbackEnter, Inserted, TypeOK
    <3>2. QED
      BY <2>2, <3>1, ChannelFrame DEF CallbackEnter, Fresh, clVars, decVars
  <2>3. CASE CallbackLock
    BY <2>3, ChannelFrame DEF Fresh, Inserted, clVars, cbVars, decVars, CallbackLock
  <2>4. CASE CallbackBody
    <3>1. Inserted' = Inserted + 1 /\ Inserted' = arrived
      BY <2>4 DEF CallbackBody, Inserted, TypeOK
    <3>2. Fresh' = Fresh /\ Batch' = Batch /\ decoded' = decoded /\ cache' = Append(cache, arrived)
      BY <2>4 DEF CallbackBody, Fresh, Batch, clVars
    <3>3. CASE Fresh
      BY <3>1, <3>2, <3>3 DEF Channel!Next, Channel!Arrive
    <3>4. QED
      BY <3>2, <3>3, <2>c
  <2>5. CASE LiveviewInit
    BY <2>5, ChannelFrame DEF Fresh, Inserted, clVars, cbVars, decVars, LiveviewInit, ClientMoves
  <2>6. CASE StartBegin
    <3>1. CASE Fresh
      <4>1. session = 0 /\ session' = 1 /\ Fresh'
        BY <2>6, <3>1 DEF StartBegin, ClientMoves, Fresh, TypeOK
      <4>2. 1 \in Sessions /\ dec[1] # "decode"
        BY <2>6, <4>1 DEF StartBegin, ClientMoves, LifeInv, DecoderLifetime, Ended, Sessions
      <4>3. Batch = <<>> /\ Batch' = <<>>
        BY <2>6, <4>1, <4>2 DEF StartBegin, Batch, BatchInv
      <4>4. QED
        BY <2>6, <3>1, <4>1, <4>3 DEF StartBegin, Channel!vars, Inserted, cbVars
    <3>2. CASE ~Fresh
      <4>1. session \in Sessions /\ session' \in Sessions /\ session' # 0 /\ session # 0
        BY <2>6, <3>2 DEF StartBegin, TypeOK, Fresh, Sessions
      <4>2. dec[session] # "decode" /\ dec[session'] # "decode"
        BY <2>6, <4>1 DEF StartBegin, ClientMoves, LifeInv, DecoderLifetime, Ended
      <4>3. batch[session] = <<>> /\ batch[session'] = <<>>
        BY <4>1, <4>2 DEF BatchInv
      <4>4. Batch = <<>> /\ Batch' = <<>>
        BY <2>6, <4>1, <4>3 DEF StartBegin, Batch
      <4>5. QED
        BY <2>6, <3>2, <4>4, <2>c DEF StartBegin
    <3>3. QED
      BY <3>1, <3>2
  <2>7. CASE StartStarter
    BY <2>7, ChannelFrame DEF Fresh, Inserted, clVars, cbVars, decVars, StartStarter, ClientMoves
  <2>8. CASE StartReturn
    BY <2>8, ChannelFrame DEF Fresh, Inserted, clVars, cbVars, decVars, StartReturn, ClientMoves
  <2>9. CASE StopBegin
    <3>1. Fresh' = Fresh
      BY <2>9 DEF StopBegin, ClientMoves, Fresh, LifeInv, TypeOK
    <3>2. QED
      BY <2>9, <3>1, ChannelFrame DEF StopBegin, Inserted, cbVars, decVars
  <2>10. CASE StopPush
    BY <2>10, ChannelFrame DEF Fresh, Inserted, clVars, cbVars, decVars, StopPush, ClientMoves
  <2>11. CASE StopStore
    <3>1. ~Fresh' /\ Batch' = Batch /\ decoded' = decoded /\ Inserted' = Inserted
      BY <2>11 DEF StopStore, ClientMoves, LifeInv, Fresh, Batch, Inserted, cbVars, decVars
    <3>2. CASE Fresh
      BY <3>1, <3>2 DEF Channel!Next, Channel!Close
    <3>3. QED
      BY <3>1, <3>2, <2>c
  <2>12. CASE StopNotify
    BY <2>12, ChannelFrame DEF Fresh, Inserted, clVars, cbVars, decVars, StopNotify, ClientMoves
  <2>13. CASE StopJoin
    BY <2>13, ChannelFrame DEF Fresh, Inserted, clVars, cbVars, decVars, StopJoin, ClientMoves
  <2>14. CASE StopReturn
    BY <2>14, ChannelFrame DEF Fresh, Inserted, clVars, cbVars, decVars, StopReturn, ClientMoves
  <2>15. CASE DestroyBegin
    BY <2>15, ChannelFrame DEF Fresh, Inserted, clVars, cbVars, decVars, DestroyBegin, ClientMoves
  <2>16. CASE DestroyReturn
    BY <2>16, ChannelFrame DEF Fresh, Inserted, clVars, cbVars, decVars, DestroyReturn, ClientMoves
  <2>17. CASE \E s \in Sessions : DecoderInit(s)
    BY <2>17, ChannelFrame DEF Fresh, Inserted, clVars, cbVars, decVars, DecoderInit, DecoderMoves
  <2>18. CASE \E s \in Sessions : DecoderCheck(s)
    BY <2>18, ChannelFrame DEF Fresh, Inserted, clVars, cbVars, decVars, DecoderCheck, DecoderMoves
  <2>19. CASE \E s \in Sessions : DecoderLock(s)
    BY <2>19, ChannelFrame DEF Fresh, Inserted, clVars, cbVars, decVars, DecoderLock, DecoderMoves
  <2>20. CASE \E s \in Sessions : DecoderPred(s)
    BY <2>20, PredMoves, ChannelFrame DEF Fresh, Inserted, clVars, cbVars
  <2>21. CASE \E s \in Sessions : DecoderBlock(s)
    BY <2>21, ChannelFrame DEF Fresh, Inserted, clVars, cbVars, decVars, DecoderBlock, DecoderMoves
  <2>22. CASE \E s \in Sessions : DecoderCopy(s)
    <3>1. PICK s \in Sessions : DecoderCopy(s)
      BY <2>22
    <3>2. s = session /\ session # 0
      BY <3>1 DEF DecoderCopy, DecoderMoves, LifeInv, DecoderLifetime, Ended, Sessions
    <3>3. Batch = <<>> /\ Batch' = cache /\ decoded' = decoded /\ cache' = <<>>
      BY <3>1, <3>2 DEF DecoderCopy, DecoderMoves, Batch, BatchInv, clVars, TypeOK
    <3>4. (decoded \o Batch)' = (decoded \o Batch) \o cache
      BY <3>3, ConcatEmptySeq DEF TypeOK
    <3>5. Fresh' = Fresh /\ Inserted' = Inserted
      BY <3>1 DEF DecoderCopy, Fresh, Inserted, clVars, cbVars
    <3>6. CASE Fresh /\ cache # <<>>
      BY <3>3, <3>4, <3>5, <3>6 DEF Channel!Next, Channel!Deliver
    <3>7. CASE Fresh /\ cache = <<>>
      BY <3>3, <3>5, <3>7 DEF Channel!vars
    <3>8. CASE ~Fresh
      <4>1. IsPrefix(decoded \o Batch, (decoded \o Batch) \o cache)
        BY <2>t, ExtensionIsPrefix
      <4>2. IsPrefix(decoded \o Batch, decoded' \o Batch')
        BY <3>4, <4>1
      <4>3. QED
        BY <3>5, <3>8, <4>2 DEF Channel!Next, Channel!AfterClose, Channel!IsPrefix, IsPrefix
    <3>9. QED
      BY <3>6, <3>7, <3>8
  <2>23. CASE \E s \in Sessions : DecoderDecode(s)
    <3>1. PICK s \in Sessions : DecoderDecode(s)
      BY <2>23
    <3>2. s = session /\ session # 0
      BY <3>1 DEF DecoderDecode, DecoderMoves, LifeInv, DecoderLifetime, Ended, Sessions
    <3>3. Batch = batch[s] /\ Batch' = <<>> /\ decoded' = decoded \o batch[s]
      BY <3>1, <3>2 DEF DecoderDecode, Batch, clVars, TypeOK
    <3>4. (decoded \o Batch)' = decoded \o Batch
      <4>1. decoded \o Batch \in Seq(Items)
        BY <2>t
      <4>2. (decoded \o Batch)' = (decoded \o Batch) \o <<>>
        BY <3>3
      <4>3. QED
        BY <4>1, <4>2, ConcatEmptySeq
    <3>5. QED
      BY <3>1, <3>4 DEF DecoderDecode, Channel!vars, Fresh, Inserted, clVars, cbVars
  <2>24. CASE \E s \in Sessions : DecoderCleanup(s)
    BY <2>24, ChannelFrame DEF Fresh, Inserted, clVars, cbVars, decVars, DecoderCleanup, DecoderMoves
  <2>25. CASE \E s \in Sessions : SpuriousWakeup(s)
    BY <2>25, ChannelFrame DEF Fresh, Inserted, clVars, cbVars, decVars, SpuriousWakeup, DecoderMoves
  <2>26. CASE \E s \in Sessions : StarterCheck(s)
    BY <2>26, ChannelFrame DEF Fresh, Inserted, clVars, cbVars, decVars, StarterCheck, StarterMoves
  <2>27. CASE \E s \in Sessions : StarterPoll(s)
    BY <2>27, ChannelFrame DEF Fresh, Inserted, clVars, cbVars, decVars, StarterPoll, StarterMoves
  <2>28. CASE \E s \in Sessions : StarterSendAccepted(s)
    BY <2>28, ChannelFrame DEF Fresh, Inserted, clVars, cbVars, decVars, StarterSendAccepted, StarterMoves
  <2>29. CASE \E s \in Sessions : StarterSendRefused(s)
    BY <2>29, ChannelFrame DEF Fresh, Inserted, clVars, cbVars, decVars, StarterSendRefused, StarterMoves
  <2>30. CASE UNCHANGED vars
    BY <2>30, ChannelFrame DEF Fresh, Inserted, clVars, cbVars, decVars, vars
  <2>31. QED
    BY <2>1, <2>2, <2>3, <2>4, <2>5, <2>6, <2>7, <2>8, <2>9, <2>10, <2>11, <2>12, <2>13, <2>14, <2>15, <2>16, <2>17, <2>18, <2>19, <2>20, <2>21, <2>22, <2>23, <2>24, <2>25, <2>26, <2>27, <2>28, <2>29, <2>30
    DEF Next, Callback, Decoder, Starter, ClientRuns
<1>3. QED
  BY <1>1, <1>2, TypeCorrect, LifeInvariant, BatchInvariant, PTL DEF Spec
=============================================================================
