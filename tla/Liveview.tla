------------------------------ MODULE Liveview ------------------------------
(***************************************************************************)
(* One DJILiveview object (DJI/DJILiveview.cpp) and the threads that share *)
(* it:                                                                     *)
(*   - the client, which calls Init, Start, Stop and the destructor;       *)
(*   - one decoder thread per Start (ThreadProcessH264Stream);             *)
(*   - one starter thread per Start (ThreadStartH264Stream);               *)
(*   - the SDK thread that runs StreamCallback and the one that runs       *)
(*     LiveviewStatusCallback.                                             *)
(*                                                                         *)
(* A step is what one thread does between two points where another thread  *)
(* can see or disturb it: an access to a flag, to the lock, to the         *)
(* condition variable, or a call into the SDK.  _isRun, isLocalThreadRun   *)
(* and _status are plain variables; every loop that polls them calls out   *)
(* of the translation unit, so each poll is a fresh read.                  *)
(***************************************************************************)
EXTENDS Integers, Sequences, StreamBitrate

CONSTANTS
  MaxSessions,   \* bound: how many times the client calls Start
  MaxChunks,     \* bound: how many chunks the SDK delivers
  ChunkLen,      \* ChunkLen[c]: bytes in chunk c
  Gaps,          \* milliseconds the clock moves between two callbacks
  Status         \* values of LiveviewStatus, 0 among them: no stream usable

ASSUME LiveviewAssumption ==
  /\ MaxSessions \in Nat \ {0}
  /\ MaxChunks \in Nat
  /\ ChunkLen \in [1..MaxChunks -> Nat]
  /\ Gaps \subseteq Int
  /\ 0 \in Status

Sessions == 1..MaxSessions
Sentinel == 0                  \* the byte 1 that Stop pushes into the cache
Items == 0..MaxChunks          \* the sentinel and the numbers of the chunks

VARIABLES
  isRun, isLocalThreadRun, status,
  cache,      \* _h264_cache, as the sequence of chunks its bytes came from
  mutex,      \* _h264_cache_mutex: "free" or "held"
  rate,       \* the bitrate members, see StreamBitrate
  window,     \* history: the chunks (lo, hi] of the last published rate
  streaming,  \* the SDK: whether it delivers chunks
  arrived,    \* chunks the SDK has started to deliver
  cb,         \* where StreamCallback is
  cl,         \* where the client is
  session,    \* the number of Starts so far
  dec, batch, \* per Start: where the decoder thread is, and its decode_data
  st,         \* per Start: where the starter thread is
  decoded,    \* history: what went through decoding, oldest first
  snap,       \* the cache as Stop's unlocked push_back read it
  cacheUB     \* whether that push_back has raced with another access

clVars == <<isRun, isLocalThreadRun, cl, session, snap, cacheUB>>
cbVars == <<rate, window, arrived, cb>>
decVars == <<dec, batch, decoded>>
sdkVars == <<status, streaming>>
vars == <<clVars, cbVars, decVars, sdkVars, cache, mutex, st>>

ClientPC == {"created", "idle", "startDecoder", "startStarter",
             "push", "store", "notify", "join", "sdkStop", "destroy", "gone"}
DecoderPC == {"off", "init", "check", "lock", "pred", "block", "wait", "copy",
              "decode", "cleanup", "done"}
StarterPC == {"off", "check", "poll", "send", "done"}
CallbackPC == {"idle", "lock", "body"}

Init ==
  /\ isRun = FALSE /\ isLocalThreadRun = FALSE /\ status = 0
  /\ cache = <<>> /\ mutex = "free"
  /\ rate = NewRate /\ window = [lo |-> 0, hi |-> 0]
  /\ streaming = FALSE /\ arrived = 0 /\ cb = "idle"
  /\ cl = "created" /\ session = 0 /\ snap = <<>> /\ cacheUB = FALSE
  /\ dec = [s \in Sessions |-> "off"] /\ batch = [s \in Sessions |-> <<>>]
  /\ st = [s \in Sessions |-> "off"]
  /\ decoded = <<>>

Ended(pc) == pc \in {"off", "done"}
InCritical(s) == dec[s] \in {"pred", "block", "copy"}

\* The waiters of _h264_cache_cv; notify_one wakes one of them, if there is any,
\* which then competes for the lock.
Waiting == {s \in Sessions : dec[s] = "wait"}
NotifyOneFaulty == UNCHANGED dec  \* see the faulty variants below
NotifyOne == IF Waiting = {} THEN UNCHANGED dec
             ELSE \E s \in Waiting : dec' = [dec EXCEPT ![s] = "lock"]

\* A thread, or the client, goes on from one point of its code to another.
DecoderMoves(s, from, to) == dec[s] = from /\ dec' = [dec EXCEPT ![s] = to]
StarterMoves(s, from, to) == st[s] = from /\ st' = [st EXCEPT ![s] = to]
ClientMoves(from, to) == cl = from /\ cl' = to

(***************************************************************************)
(* Faulty variants of steps below, each with one mistake.  They are not    *)
(* part of the specification; PROJECT.json pairs each with a property that *)
(* notices when it takes the place of the step it is named after.          *)
(***************************************************************************)

\* the number of the chunk is not advanced
CallbackEnterFaulty ==
  /\ streaming /\ cb = "idle" /\ cl # "gone" /\ arrived < MaxChunks
  /\ \E gap \in Gaps : rate' = Elapse(rate, gap)
  /\ cb' = "lock"
  /\ UNCHANGED <<clVars, window, arrived, decVars, sdkVars, cache, mutex, st>>

\* the callback does not take the lock
CallbackLockFaulty ==
  /\ cb = "lock" /\ cl # "gone"
  /\ cb' = "body"
  /\ UNCHANGED <<clVars, rate, window, arrived, decVars, sdkVars, cache, mutex, st>>

\* insert at begin() in place of end()
CallbackBodyFaulty ==
  /\ cb = "body" /\ cl # "gone"
  /\ cache' = <<arrived>> \o cache
  /\ NotifyOne
  /\ rate' = Account(rate, ChunkLen[arrived])
  /\ window' = IF Publishes(rate) THEN [lo |-> window.hi, hi |-> arrived]
               ELSE window
  /\ cb' = "idle" /\ mutex' = "free"
  /\ UNCHANGED <<clVars, arrived, batch, decoded, sdkVars, st>>

\* the cache is copied and not cleared
DecoderCopyFaulty(s) ==
  /\ DecoderMoves(s, "copy", "decode")
  /\ batch' = [batch EXCEPT ![s] = cache]
  /\ mutex' = "free"
  /\ UNCHANGED <<clVars, cbVars, decoded, sdkVars, cache, st>>

\* the cache is cleared (again) after the decoding, outside the lock
DecoderDecodeFaulty(s) ==
  /\ DecoderMoves(s, "decode", "check")
  /\ decoded' = decoded \o batch[s]
  /\ batch' = [batch EXCEPT ![s] = <<>>]
  /\ cache' = <<>>
  /\ UNCHANGED <<clVars, cbVars, sdkVars, mutex, st>>

\* the poll waits for the status to become 0
StarterPollFaulty(s) ==
  /\ status = 0
  /\ StarterMoves(s, "poll", "send")
  /\ UNCHANGED <<clVars, cbVars, decVars, sdkVars, cache, mutex>>

\* a refused start command ends the loop
StarterSendRefusedFaulty(s) ==
  /\ StarterMoves(s, "send", "done")
  /\ UNCHANGED <<clVars, cbVars, decVars, sdkVars, cache, mutex>>

\* Stop does not signal the decoder
StopNotifyFaulty ==
  /\ ClientMoves("notify", "join")
  /\ UNCHANGED <<isRun, isLocalThreadRun, session, snap, cacheUB, cbVars, decVars,
                 sdkVars, cache, mutex, st>>

\* Stop does not wait for the decoder
StopJoinFaulty ==
  /\ ClientMoves("join", "sdkStop")
  /\ UNCHANGED <<isRun, isLocalThreadRun, session, snap, cacheUB, cbVars, decVars,
                 sdkVars, cache, mutex, st>>

(***************************************************************************)
(* The SDK's threads.  After the destructor the object is gone and neither *)
(* callback is followed any further: what it would do is undefined.        *)
(***************************************************************************)

LiveviewStatusCallback ==
  /\ cl \notin {"created", "gone"}
  /\ status' \in Status \ {status}
  /\ UNCHANGED <<clVars, cbVars, decVars, streaming, cache, mutex, st>>

CallbackEnter ==
  /\ streaming /\ cb = "idle" /\ cl # "gone" /\ arrived < MaxChunks
  /\ arrived' = arrived + 1
  /\ \E gap \in Gaps : rate' = Elapse(rate, gap)
  /\ cb' = "lock"
  /\ UNCHANGED <<clVars, window, decVars, sdkVars, cache, mutex, st>>

CallbackLock ==
  /\ cb = "lock" /\ mutex = "free" /\ cl # "gone"
  /\ cb' = "body" /\ mutex' = "held"
  /\ UNCHANGED <<clVars, rate, window, arrived, decVars, sdkVars, cache, st>>

CallbackBody ==
  /\ cb = "body" /\ cl # "gone"
  /\ cache' = Append(cache, arrived)
  /\ NotifyOne
  /\ rate' = Account(rate, ChunkLen[arrived])
  /\ window' = IF Publishes(rate) THEN [lo |-> window.hi, hi |-> arrived]
               ELSE window
  /\ cb' = "idle" /\ mutex' = "free"
  /\ UNCHANGED <<clVars, arrived, batch, decoded, sdkVars, st>>

(***************************************************************************)
(* ThreadProcessH264Stream.                                                *)
(***************************************************************************)

\* initDecoder and the encoder's init: their results are ignored.
DecoderInit(s) ==
  /\ DecoderMoves(s, "init", "check")
  /\ UNCHANGED <<clVars, cbVars, batch, decoded, sdkVars, cache, mutex, st>>

DecoderCheck(s) ==
  /\ DecoderMoves(s, "check", IF isRun THEN "lock" ELSE "cleanup")
  /\ UNCHANGED <<clVars, cbVars, batch, decoded, sdkVars, cache, mutex, st>>

\* On entry to the critical section, and again when wait returns from the kernel.
DecoderLock(s) ==
  /\ mutex = "free"
  /\ DecoderMoves(s, "lock", "pred")
  /\ mutex' = "held"
  /\ UNCHANGED <<clVars, cbVars, batch, decoded, sdkVars, cache, st>>

DecoderPred(s) ==
  /\ DecoderMoves(s, "pred", IF cache # <<>> THEN "copy" ELSE "block")
  /\ UNCHANGED <<clVars, cbVars, batch, decoded, sdkVars, cache, mutex, st>>

\* The wait gives up the lock and starts to wait in one step.
DecoderBlock(s) ==
  /\ DecoderMoves(s, "block", "wait")
  /\ mutex' = "free"
  /\ UNCHANGED <<clVars, cbVars, batch, decoded, sdkVars, cache, st>>

SpuriousWakeup(s) ==
  /\ DecoderMoves(s, "wait", "lock")
  /\ UNCHANGED <<clVars, cbVars, batch, decoded, sdkVars, cache, mutex, st>>

DecoderCopy(s) ==
  /\ DecoderMoves(s, "copy", "decode")
  /\ batch' = [batch EXCEPT ![s] = cache]
  /\ cache' = <<>>
  /\ mutex' = "free"
  /\ UNCHANGED <<clVars, cbVars, decoded, sdkVars, st>>

DecoderDecode(s) ==
  /\ DecoderMoves(s, "decode", "check")
  /\ decoded' = decoded \o batch[s]
  /\ batch' = [batch EXCEPT ![s] = <<>>]
  /\ UNCHANGED <<clVars, cbVars, sdkVars, cache, mutex, st>>

\* deInitDecoder, and the encoders torn down
DecoderCleanup(s) ==
  /\ DecoderMoves(s, "cleanup", "done")
  /\ UNCHANGED <<clVars, cbVars, batch, decoded, sdkVars, cache, mutex, st>>

(***************************************************************************)
(* ThreadStartH264Stream.  Its inner loop polls until _status is not 0.    *)
(***************************************************************************)

StarterCheck(s) ==
  /\ StarterMoves(s, "check", IF isRun THEN "poll" ELSE "done")
  /\ UNCHANGED <<clVars, cbVars, decVars, sdkVars, cache, mutex>>

StarterPoll(s) ==
  /\ status # 0
  /\ StarterMoves(s, "poll", "send")
  /\ UNCHANGED <<clVars, cbVars, decVars, sdkVars, cache, mutex>>

StarterSendAccepted(s) ==
  /\ StarterMoves(s, "send", "done")
  /\ streaming' = TRUE
  /\ UNCHANGED <<clVars, cbVars, decVars, status, cache, mutex>>

StarterSendRefused(s) ==
  /\ StarterMoves(s, "send", "check")
  /\ UNCHANGED <<clVars, cbVars, decVars, sdkVars, cache, mutex>>

(***************************************************************************)
(* The client.  It never starts a running object and calls the methods one *)
(* at a time, as main does; Stop and the destructor it may call when it    *)
(* likes.                                                                  *)
(***************************************************************************)

LiveviewInit ==
  /\ ClientMoves("created", "idle")
  /\ UNCHANGED <<isRun, isLocalThreadRun, session, snap, cacheUB, cbVars,
                 decVars, sdkVars, cache, mutex, st>>

StartBegin ==
  /\ ~isLocalThreadRun /\ session < MaxSessions
  /\ ClientMoves("idle", "startDecoder")
  /\ isRun' = TRUE /\ isLocalThreadRun' = TRUE
  /\ session' = session + 1
  /\ dec' = [dec EXCEPT ![session'] = "init"]
  /\ UNCHANGED <<snap, cacheUB, cbVars, batch, decoded, sdkVars, cache, mutex, st>>

\* Assigning to a shared_future that came from std::async waits for the thread
\* of its old value; by then the new thread runs.
StartStarter ==
  /\ \A s \in 1..(session - 1) : dec[s] = "done"
  /\ ClientMoves("startDecoder", "startStarter")
  /\ st' = [st EXCEPT ![session] = "check"]
  /\ UNCHANGED <<isRun, isLocalThreadRun, session, snap, cacheUB, cbVars,
                 decVars, sdkVars, cache, mutex>>

StartReturn ==
  /\ \A s \in 1..(session - 1) : st[s] = "done"
  /\ ClientMoves("startStarter", "idle")
  /\ UNCHANGED <<isRun, isLocalThreadRun, session, snap, cacheUB, cbVars,
                 decVars, sdkVars, cache, mutex, st>>

StopBegin ==
  /\ ClientMoves("idle", IF isLocalThreadRun THEN "push" ELSE "sdkStop")
  /\ isRun' = FALSE /\ isLocalThreadRun' = FALSE
  /\ UNCHANGED <<session, snap, cacheUB, cbVars, decVars, sdkVars, cache, mutex, st>>

\* push_back outside the lock, in two steps: it reads the vector, then it writes
\* the byte and the new size.
Mutating == cb = "body" \/ \E s \in Sessions : dec[s] = "copy"

StopPush ==
  /\ ClientMoves("push", "store")
  /\ snap' = cache
  /\ cacheUB' = (cacheUB \/ Mutating)
  /\ UNCHANGED <<isRun, isLocalThreadRun, session, cbVars, decVars, sdkVars,
                 cache, mutex, st>>

\* A push_back that overlaps another change of the vector may take effect, undo
\* the other change or be lost.  It may also kill the process; the behaviour
\* then ends, as a prefix of these ones.
StopStore ==
  /\ ClientMoves("store", "notify")
  /\ cacheUB' = (cacheUB \/ Mutating \/ cache # snap)
  /\ cache' \in IF cacheUB'
                  THEN {Append(cache, Sentinel), Append(snap, Sentinel), cache}
                  ELSE {Append(cache, Sentinel)}
  /\ snap' = <<>>
  /\ UNCHANGED <<isRun, isLocalThreadRun, session, cbVars, decVars, sdkVars, mutex, st>>

StopNotify ==
  /\ ClientMoves("notify", "join")
  /\ NotifyOne
  /\ UNCHANGED <<isRun, isLocalThreadRun, session, snap, cacheUB, cbVars, batch,
                 decoded, sdkVars, cache, mutex, st>>

StopJoin ==
  /\ ClientMoves("join", "sdkStop")
  /\ dec[session] = "done"
  /\ UNCHANGED <<isRun, isLocalThreadRun, session, snap, cacheUB, cbVars,
                 decVars, sdkVars, cache, mutex, st>>

\* StopH264Stream; Stop returns its error and leaves it at that.
StopReturn ==
  /\ ClientMoves("sdkStop", "idle")
  /\ streaming' \in {FALSE, streaming}
  /\ UNCHANGED <<isRun, isLocalThreadRun, session, snap, cacheUB, cbVars,
                 decVars, status, cache, mutex, st>>

DestroyBegin ==
  /\ ClientMoves("idle", "destroy")
  /\ UNCHANGED <<isRun, isLocalThreadRun, session, snap, cacheUB, cbVars,
                 decVars, sdkVars, cache, mutex, st>>

\* The members are destroyed in reverse order; the two futures wait for their
\* threads, nothing waits for a callback.
DestroyReturn ==
  /\ \A s \in Sessions : Ended(dec[s]) /\ Ended(st[s])
  /\ ClientMoves("destroy", "gone")
  /\ UNCHANGED <<isRun, isLocalThreadRun, session, snap, cacheUB, cbVars,
                 decVars, sdkVars, cache, mutex, st>>

(***************************************************************************)
(* The specification.                                                      *)
(***************************************************************************)

Callback == CallbackLock \/ CallbackBody

Decoder(s) ==
  \/ DecoderInit(s) \/ DecoderCheck(s) \/ DecoderLock(s) \/ DecoderPred(s)
  \/ DecoderBlock(s) \/ DecoderCopy(s) \/ DecoderDecode(s) \/ DecoderCleanup(s)

Starter(s) ==
  \/ StarterCheck(s) \/ StarterPoll(s)
  \/ StarterSendAccepted(s) \/ StarterSendRefused(s)

\* What is left of a method once it is called.
ClientRuns ==
  \/ StartStarter \/ StartReturn
  \/ StopPush \/ StopStore \/ StopNotify \/ StopJoin \/ StopReturn
  \/ DestroyReturn

Next ==
  \/ LiveviewStatusCallback \/ CallbackEnter \/ Callback
  \/ \E s \in Sessions : Decoder(s) \/ SpuriousWakeup(s) \/ Starter(s)
  \/ LiveviewInit \/ StartBegin \/ StopBegin \/ DestroyBegin \/ ClientRuns

\* Threads that can run do run; a lock that is released over and over is
\* eventually granted; and the SDK does not refuse for ever.  Nothing makes the
\* client call a method, a chunk arrive or the status change, and no thread can
\* count on a spurious wakeup.
Fairness ==
  /\ WF_vars(CallbackBody) /\ SF_vars(CallbackLock)
  /\ WF_vars(ClientRuns)
  /\ \A s \in Sessions :
       /\ WF_vars(Decoder(s)) /\ SF_vars(DecoderLock(s))
       /\ WF_vars(Starter(s)) /\ SF_vars(StarterSendAccepted(s))

Spec == Init /\ [][Next]_vars /\ Fairness
=============================================================================
