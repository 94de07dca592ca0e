--------------------------- MODULE LiveviewProps ---------------------------
(***************************************************************************)
(* What must hold of a DJILiveview object and the threads that share it.   *)
(***************************************************************************)
EXTENDS Liveview, SequencesExt

\* The type of every variable of Liveview.
TypeOK ==
  /\ isRun \in BOOLEAN /\ isLocalThreadRun \in BOOLEAN /\ status \in Status
  /\ cache \in Seq(Items) /\ mutex \in {"free", "held"}
  /\ rate \in Rate
  /\ window \in [lo : 0..MaxChunks, hi : 0..MaxChunks]
  /\ streaming \in BOOLEAN
  /\ cb \in CallbackPC /\ arrived \in (IF cb = "idle" THEN 0 ELSE 1)..MaxChunks
  /\ cl \in ClientPC /\ session \in 0..MaxSessions
  /\ dec \in [Sessions -> DecoderPC] /\ batch \in [Sessions -> Seq(Items)]
  /\ st \in [Sessions -> StarterPC]
  /\ decoded \in Seq(Items)
  /\ snap \in Seq(Items) /\ cacheUB \in BOOLEAN

----------------------------------------------------------------------------
(* Threads and the lock *)

\* _h264_cache_mutex is held exactly while the stream callback or one decoder
\* is between its lock and its unlock (DJILiveview.cpp:78-93, 153-157), however
\* often wait gives it up and takes it back.
CacheGuarded ==
  /\ (mutex = "held") <=> (cb = "body" \/ \E s \in Sessions : InCritical(s))
  /\ cb = "body" => \A s \in Sessions : ~InCritical(s)
  /\ \A s, t \in Sessions : InCritical(s) /\ InCritical(t) => s = t

\* No decoder sleeps on the condition variable while there is something in the
\* cache, except under a Stop that has pushed its byte without the lock
\* (DJILiveview.cpp:33-36): every other insertion is seen or signalled.
NoLostWakeup ==
  \A s \in Sessions : dec[s] = "wait" /\ cache # <<>> => cl \in {"notify", "join"}

\* pCodecCtx, pPacket and the encoders belong to the object, not to the thread:
\* at most one decoder is ever alive, the one of the last Start, and it does
\* not outlive the Stop that joins it (DJILiveview.cpp:23, 31-40).
DecoderLifetime ==
  \A s \in Sessions : ~Ended(dec[s]) =>
    /\ s = session
    /\ isLocalThreadRun \/ cl \in {"push", "store", "notify", "join"}

----------------------------------------------------------------------------
(* The stream *)

\* In the first session, until Stop's own byte goes into the cache.
Fresh == \/ session = 0
         \/ session = 1 /\ (isLocalThreadRun \/ cl \in {"push", "store"})

\* The chunk of a callback that has not got to its insert yet does not count.
Inserted == IF cb = "idle" THEN arrived ELSE arrived - 1

Batch == IF session = 0 THEN <<>> ELSE batch[session]
Stream == decoded \o Batch \o cache

\* In the first session the decoder gets the chunks as the SDK delivered them:
\* what is decoded, what it has copied out and what is still cached are together
\* exactly the chunks inserted so far, in order (DJILiveview.cpp:79, 155-159).
StreamIntact == Fresh => Stream = [i \in 1..Inserted |-> i]

\* Over any number of Stops and Starts no chunk is lost, repeated or overtaken,
\* unless a Stop's unlocked push_back raced: what a session leaves in the cache
\* goes to the decoder of the next one.  The stream without the bytes of Stop
\* counts up from 1 to the last chunk inserted.
ChunksKept ==
  ~cacheUB =>
    /\ ToSet(Stream) \ {Sentinel} = 1..Inserted
    /\ \A p, q \in DOMAIN Stream :
         p < q /\ Sentinel \notin {Stream[p], Stream[q]} => Stream[p] < Stream[q]

Channel == INSTANCE H264Channel
             WITH pending <- cache, out <- decoded \o Batch,
                  open <- Fresh, next <- Inserted

\* The cache, its lock and its condition variable implement the abstract channel:
\* a chunk inserted while the live view runs is delivered, in order, and a
\* non-empty channel does not stay undelivered for ever.
ChannelSpec == Channel!Spec

\* The bytes of the first n chunks, and of the chunks (lo, hi].
Delivered[n \in 0..MaxChunks] == IF n = 0 THEN 0 ELSE Delivered[n - 1] + ChunkLen[n]

BytesOf(lo, hi) == (Delivered[hi] - Delivered[lo]) % UintMod

\* Between two publications every chunk is counted once: the running total is
\* made of the chunks since the last publication, and the published rate of those
\* between the last two (DJILiveview.cpp:83-91), all modulo the uint32_t.
RateCountsEveryChunk ==
  /\ rate.total = BytesOf(window.hi, Inserted)
  /\ rate.kbps = Kbps(BytesOf(window.lo, window.hi))

----------------------------------------------------------------------------
(* What must happen in the end *)

\* A start command that the SDK refuses is sent again (DJILiveview.cpp:180-193):
\* a starter that finds the live view running gets the stream on, unless the
\* status drops to 0 or the client stops.
StartRetried ==
  \A s \in Sessions :
    (st[s] = "check" /\ isRun) ~> (streaming \/ ~isRun \/ status = 0)

\* A Stop that signals its decoder comes back from joining it (DJILiveview.cpp:
\* 31-40), whatever the decoder is doing and whatever chunks and wakeups come in
\* between, unless the decoder has just found the cache empty and is about to
\* wait, or the unlocked push_back went wrong.
StopEnds ==
  (cl = "notify" /\ dec[session] # "block") ~> (cl = "sdkStop" \/ cacheUB)

\* The destructor of a stopped object gets past its two futures
\* (DJILiveview.h:43-44) unless the status is 0, on which the starter polls
\* without a look at _isRun.
DestructorEnds == (cl = "destroy" /\ ~isRun) ~> (cl = "gone" \/ status = 0)

----------------------------------------------------------------------------
(* What the source says of itself and the code does not do *)

\* DJILiveview.h:115, "stop the live stream": once Stop has come back with the
\* stream off, the stream stays off.
StaysStopped ==
  [][cl = "idle" /\ ~isRun /\ ~streaming => ~streaming']_vars

\* DJILiveview.cpp:161: when the loop is told to end, the decoder thread releases
\* its resources; so the Stop that waits for it comes back.
StopReleasesDecoder == (cl = "join") ~> (cl = "sdkStop" \/ cacheUB)

\* DJILiveview.cpp:10: the bitrate is calculated over intervals of
\* BITRATE_CALCULATE_INTERVAL_TIME_MS.
RateOverInterval ==
  [][window' # window => rate.since >= BITRATE_CALCULATE_INTERVAL_TIME_MS]_vars
=============================================================================
