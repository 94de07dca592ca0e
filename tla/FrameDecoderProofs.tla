------------------------- MODULE FrameDecoderProofs -------------------------
(***************************************************************************)
(* Proofs about FrameDecoder, for any number of sessions and pieces, and   *)
(* any width of an int.                                                    *)
(***************************************************************************)
EXTENDS FrameDecoder, TLAPS

USE FrameDecoderAssumption DEF FrameDecoderAssumption

\* What an int holds of a length is never more than the length, and is the length
\* if an int can hold that (DJILiveview.cpp:249).
LEMMA IntOfLength ==
  ASSUME NEW limit \in Nat \ {0}, NEW n \in Nat
  PROVE  /\ AsInt(n, limit) \in -limit..(limit - 1)
         /\ AsInt(n, limit) <= n
         /\ n < limit => AsInt(n, limit) = n
<1> DEFINE m == 2 * limit
<1>1. (n + limit) % m \in 0..(m - 1)
  OBVIOUS
<1>2. (n + limit) % m <= n + limit
  OBVIOUS
<1>3. n < limit => (n + limit) % m = n + limit
  OBVIOUS
<1>4. QED
  BY <1>1, <1>2, <1>3 DEF AsInt

\* Where the pieces of the stream are: those that have not come in went nowhere,
\* those of the batch in hand went to the parser up to dataPtr, and what remains is
\* never counted past the end of the batch.
FeedInv ==
  /\ \A p \in Pieces : fed[p] <= 1 /\ (p > given => fed[p] = 0)
  /\ pc \in {"parse", "encode"} =>
       /\ dataPtr <= given + 1
       /\ remain > 0 => dataPtr + remain <= given + 1
       /\ ~narrowed => remain >= 0 /\ dataPtr + remain = given + 1
       /\ \A p \in Pieces : p >= dataPtr => fed[p] = 0
       /\ ~dropped /\ ~narrowed => \A p \in Pieces : p < dataPtr => fed[p] = 1
  /\ pc \notin {"parse", "encode", "crashed"} /\ ~dropped /\ ~narrowed =>
       \A p \in Pieces : p <= given => fed[p] = 1

\* The types and FeedInv hold together: that dataPtr stays in range rests on where
\* the batch ends.
THEOREM FeedInvariant == Spec => [](TypeOK /\ FeedInv)
<1>1. Init => TypeOK /\ FeedInv
  <2> SUFFICES ASSUME Init PROVE TypeOK /\ FeedInv
    OBVIOUS
  <2>1. fed \in [Pieces -> Nat] /\ \A p \in Pieces : fed[p] = 0
    BY DEF Init
  <2>2. failed \in BOOLEAN /\ dropped \in BOOLEAN /\ narrowed \in BOOLEAN
    BY Zenon DEF Init
  <2>3. TypeOK
    BY <2>1, <2>2 DEF Init, TypeOK, PC
  <2>4. FeedInv
    BY <2>1 DEF Init, FeedInv, Pieces
  <2>5. QED
    BY <2>3, <2>4
<1>2. TypeOK /\ FeedInv /\ [Next]_vars => TypeOK' /\ FeedInv'
  <2> SUFFICES ASSUME TypeOK, FeedInv, [Next]_vars PROVE TypeOK' /\ FeedInv'
    OBVIOUS
  <2>1. CASE ThreadBegins
    <3>1. failed' \in BOOLEAN
      BY <2>1, Zenon DEF ThreadBegins
    <3>2. TypeOK'
      BY <2>1, <3>1 DEF TypeOK, PC, ThreadBegins, Moves, decoder, data
    <3>3. FeedInv'
      BY <2>1 DEF FeedInv, ThreadBegins, Moves, data
    <3>4. QED
      BY <3>2, <3>3
  <2>2. CASE CodecMissing
    BY <2>2 DEF TypeOK, FeedInv, PC, Pieces, CodecMissing, Moves, decoder, data
  <2>3. CASE ParserFails
    BY <2>3 DEF TypeOK, FeedInv, PC, Pieces, ParserFails, Moves, decoder, data
  <2>4. CASE LaterObjectFails
    BY <2>4 DEF TypeOK, FeedInv, PC, Pieces, LaterObjectFails, Moves, decoder, data
  <2>5. CASE DecoderReady
    BY <2>5 DEF TypeOK, FeedInv, PC, Pieces, DecoderReady, Moves, decoder, data
  <2>6. CASE EncoderFails
    BY <2>6 DEF TypeOK, FeedInv, PC, Pieces, EncoderFails, Moves, decoder, data
  <2>7. CASE EncoderReady
    BY <2>7 DEF TypeOK, FeedInv, PC, Pieces, EncoderReady, Moves, decoder, data
  <2>8. CASE DecodingBegins
    <3> USE DEF DecodingBegins, decoder
    <3>1. PICK len \in 1..(MaxPieces - given) :
            /\ given' = given + len
            /\ remain' = IF pCodecCtx = "null" THEN 0 ELSE AsInt(len, IntLimit)
            /\ narrowed' = (narrowed \/ (pCodecCtx # "null" /\ len >= IntLimit))
      BY <2>8
    <3>2. given \in Int /\ len \in Nat /\ given >= 0 /\ given + len <= MaxPieces
      BY <3>1 DEF TypeOK
    <3>3. /\ AsInt(len, IntLimit) \in -IntLimit..(IntLimit - 1)
          /\ AsInt(len, IntLimit) <= len
          /\ len < IntLimit => AsInt(len, IntLimit) = len
      BY <3>2, IntOfLength
    <3>4. narrowed' \in BOOLEAN /\ dropped' \in BOOLEAN
      BY <2>8, <3>1, Zenon
    <3>5. TypeOK'
      BY <2>8, <3>1, <3>2, <3>3, <3>4 DEF TypeOK, PC
    <3>6. CASE pCodecCtx = "null"
      <4>1. dropped' = TRUE
        BY <2>8, <3>6, Zenon
      <4>2. pc' = "loop" /\ fed' = fed /\ given' >= given
        BY <2>8, <3>1, <3>2, <3>6
      <4>3. QED
        BY <4>1, <4>2, <3>2, <3>1, <3>5 DEF TypeOK, FeedInv, Pieces
    <3>7. CASE pCodecCtx # "null"
      <4>1. ~narrowed' => ~(len >= IntLimit)
        BY <3>1, <3>7, Zenon
      <4>2. remain' = AsInt(len, IntLimit) /\ (~narrowed' => len < IntLimit)
        BY <3>1, <3>2, <3>7, <4>1
      <4>3. ~narrowed' => ~narrowed
        BY <3>1, Zenon
      <4>4. ~dropped' => ~dropped
        BY <2>8, Zenon
      <4>5. pc' = "parse" /\ fed' = fed /\ dataPtr' = given + 1 /\ given' = given + len
        BY <2>8, <3>1, <3>7
      <4>6. QED
        BY <2>8, <3>2, <3>5, <3>3, <4>2, <4>3, <4>4, <4>5 DEF TypeOK, FeedInv, Pieces
    <3>8. QED
      BY <3>5, <3>6, <3>7
  <2>9. CASE ParseWithoutPacket
    BY <2>9 DEF TypeOK, FeedInv, PC, Pieces, ParseWithoutPacket, Moves, decoder, data
  <2>10. CASE Parse
    BY <2>10 DEF TypeOK, FeedInv, PC, Pieces, Parse, Moves, decoder, data
  <2>11. CASE ParseFails
    BY <2>11 DEF TypeOK, FeedInv, PC, Pieces, ParseFails, Moves, decoder, data
  <2>12. CASE DecodingEnds
    BY <2>12 DEF TypeOK, FeedInv, PC, Pieces, DecodingEnds, Moves, decoder, data
  <2>13. CASE Encode
    BY <2>13 DEF TypeOK, FeedInv, PC, Pieces, Encode, Moves, decoder, data
  <2>14. CASE LoopEnds
    BY <2>14 DEF TypeOK, FeedInv, PC, Pieces, LoopEnds, Moves, decoder, data
  <2>15. CASE DeInitDecoder
    BY <2>15 DEF TypeOK, FeedInv, PC, Pieces, DeInitDecoder, Moves, decoder, data
  <2>16. CASE DeInitEncoder
    BY <2>16 DEF TypeOK, FeedInv, PC, Pieces, DeInitEncoder, Moves, decoder, data
  <2>17. CASE UNCHANGED vars
    BY <2>17 DEF TypeOK, FeedInv, PC, Pieces, vars, decoder, data
  <2>18. QED
    BY <2>1, <2>2, <2>3, <2>4, <2>5, <2>6, <2>7, <2>8, <2>9, <2>10, <2>11, <2>12, <2>13, <2>14, <2>15, <2>16, <2>17 DEF Next
<1>3. QED
  BY <1>1, <1>2, PTL DEF Spec

\* Every variable of the decoder keeps its type.
THEOREM TypeCorrect == Spec => []TypeOK
  BY FeedInvariant, PTL

\* No piece of the stream goes to the parser twice, and none is left out without an
\* error of batches that an int can count (DJILiveview.cpp:249-261).
THEOREM FedOnceTheorem == Spec => []FedOnce
<1>1. TypeOK /\ FeedInv => FedOnce
  BY DEF TypeOK, FeedInv, FedOnce, Pieces
<1>2. QED
  BY <1>1, FeedInvariant, PTL

----------------------------------------------------------------------------
\* Which objects there are at each point of the thread.  An FFmpeg without the
\* decoder never makes a parser; one with it replaces the stale pointer at once.
ObjectInv ==
  /\ ~codecFound => pCodecParserCtx = "null"
  /\ pc \notin {"none", "initDecoder", "deInitEncoder", "crashed"} =>
       pCodecParserCtx # "closed"
  /\ pc \in {"none", "initDecoder", "deInitEncoder"} =>
       pCodecCtx = "null" /\ pPacket = "null"
  /\ pc \in {"none", "initDecoder"} => pFormatCtx = "null"
  /\ pc \in {"initEncoder", "loop", "parse", "encode"} /\ ~failed => pPacket = "live"
  /\ pc \in {"loop", "parse", "encode"} /\ ~failed => pFormatCtx = "ready"
  /\ pc = "crashed" => failed

\* ObjectInv is an invariant over any number of sessions.
THEOREM ObjectInvariant == Spec => []ObjectInv
<1>1. Init => ObjectInv
  BY DEF Init, ObjectInv
<1>2. TypeOK /\ ObjectInv /\ [Next]_vars => ObjectInv'
  <2> SUFFICES ASSUME TypeOK, ObjectInv, [Next]_vars PROVE ObjectInv'
    OBVIOUS
  <2>1. CASE ThreadBegins
    BY <2>1 DEF TypeOK, ObjectInv, PC, ThreadBegins, Moves, decoder, data
  <2>2. CASE CodecMissing
    BY <2>2 DEF TypeOK, ObjectInv, PC, CodecMissing, Moves, decoder, data
  <2>3. CASE ParserFails
    BY <2>3 DEF TypeOK, ObjectInv, PC, ParserFails, Moves, decoder, data
  <2>4. CASE LaterObjectFails
    BY <2>4 DEF TypeOK, ObjectInv, PC, LaterObjectFails, Moves, decoder, data
  <2>5. CASE DecoderReady
    BY <2>5 DEF TypeOK, ObjectInv, PC, DecoderReady, Moves, decoder, data
  <2>6. CASE EncoderFails
    BY <2>6 DEF TypeOK, ObjectInv, PC, EncoderFails, Moves, decoder, data
  <2>7. CASE EncoderReady
    BY <2>7 DEF TypeOK, ObjectInv, PC, EncoderReady, Moves, decoder, data
  <2>8. CASE DecodingBegins
    BY <2>8 DEF TypeOK, ObjectInv, PC, DecodingBegins, Moves, decoder, data
  <2>9. CASE ParseWithoutPacket
    BY <2>9 DEF TypeOK, ObjectInv, PC, ParseWithoutPacket, Moves, decoder, data
  <2>10. CASE Parse
    BY <2>10 DEF TypeOK, ObjectInv, PC, Parse, Moves, decoder, data
  <2>11. CASE ParseFails
    BY <2>11 DEF TypeOK, ObjectInv, PC, ParseFails, Moves, decoder, data
  <2>12. CASE DecodingEnds
    BY <2>12 DEF TypeOK, ObjectInv, PC, DecodingEnds, Moves, decoder, data
  <2>13. CASE Encode
    BY <2>13 DEF TypeOK, ObjectInv, PC, Encode, Moves, decoder, data
  <2>14. CASE LoopEnds
    BY <2>14 DEF TypeOK, ObjectInv, PC, LoopEnds, Moves, decoder, data
  <2>15. CASE DeInitDecoder
    BY <2>15 DEF TypeOK, ObjectInv, PC, DeInitDecoder, Moves, decoder, data
  <2>16. CASE DeInitEncoder
    BY <2>16 DEF TypeOK, ObjectInv, PC, DeInitEncoder, Moves, decoder, data
  <2>17. CASE UNCHANGED vars
    BY <2>17 DEF TypeOK, ObjectInv, PC, vars, decoder, data
  <2>18. QED
    BY <2>1, <2>2, <2>3, <2>4, <2>5, <2>6, <2>7, <2>8, <2>9, <2>10, <2>11, <2>12, <2>13, <2>14, <2>15, <2>16, <2>17 DEF Next
<1>3. QED
  BY <1>1, <1>2, TypeCorrect, PTL DEF Spec

\* A session whose objects could all be made does not use a missing one
\* (DJILiveview.cpp:203-255).
THEOREM SoundTheorem == Spec => []SoundUnlessFailed
<1>1. ObjectInv => SoundUnlessFailed
  BY DEF ObjectInv, SoundUnlessFailed
<1>2. QED
  BY <1>1, ObjectInvariant, PTL

\* No session closes the parser of the one before it (DJILiveview.cpp:237).
THEOREM ParserClosedOnceTheorem == Spec => []ParserClosedOnce
<1>1. ObjectInv => ParserClosedOnce
  BY DEF ObjectInv, ParserClosedOnce
<1>2. QED
  BY <1>1, ObjectInvariant, PTL
=============================================================================
