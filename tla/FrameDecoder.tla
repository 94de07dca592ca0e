---------------------------- MODULE FrameDecoder ----------------------------
(***************************************************************************)
(* What a decoder thread of DJILiveview does with the FFmpeg objects that  *)
(* are members of the live view: initDecoder, decoding and deInitDecoder   *)
(* (DJI/DJILiveview.cpp), and the RTSP encoder the thread makes for itself *)
(* (Encoder/EncoderRTSP.hpp).  Each object may fail to be made.  The       *)
(* threads of successive sessions run one after the other, over the same   *)
(* members: LiveviewProofs has that as LifetimeTheorem.                    *)
(*                                                                         *)
(* A piece is a byte of the stream.  They are numbered in the order they   *)
(* come in; a batch is what the thread took from the cache.  decoding gets a  *)
(* batch's length as a size_t and counts it down in an int.  Whether       *)
(* FFmpeg has an H.264 decoder does not change while the program runs.     *)
(* isEncodeImage is FALSE and nothing sets it: there is no image encoder.  *)
(***************************************************************************)
EXTENDS MachineInts

CONSTANTS
  MaxSessions,   \* bound: how many decoder threads there are
  MaxPieces,     \* bound: how many pieces come in
  IntLimit       \* an int is less than this (2^31)

ASSUME FrameDecoderAssumption ==
  MaxSessions \in Nat /\ MaxPieces \in Nat /\ IntLimit \in Nat \ {0}

Pieces == 1..MaxPieces

VARIABLES
  codecFound,       \* whether this FFmpeg has an H.264 decoder
  pCodecParserCtx,  \* "null", "live", or "closed": a pointer to a parser that is gone
  pCodecCtx,        \* "null", "allocated" or "open"
  pPacket,          \* "null" or "live"
  pFormatCtx,       \* of encoderRTSP: "null", "allocated", or "ready" to take packets
  pc,               \* where the decoder thread is
  sessions,         \* how many there have been
  given,            \* the pieces 1..given have been taken from the cache
  dataPtr,          \* decoding: the first piece that the parser has not had
  remain,           \* decoding: how many pieces of the batch are left, in an int
  fed,              \* history: how often each piece went to the parser
  failed,           \* history: in this session something could not be made
  dropped,          \* history: pieces were passed over after an error
  narrowed          \* history: a batch had more pieces than an int can count

decoder == <<pCodecParserCtx, pCodecCtx, pPacket>>
data == <<given, dataPtr, remain, fed, dropped, narrowed>>
vars == <<codecFound, decoder, pFormatCtx, pc, sessions, data, failed>>

PC == {"none", "initDecoder", "initEncoder", "loop", "parse", "encode",
       "deInitDecoder", "deInitEncoder", "crashed"}

Init ==
  /\ codecFound \in BOOLEAN
  /\ pCodecParserCtx = "null" /\ pCodecCtx = "null" /\ pPacket = "null"
  /\ pFormatCtx = "null" /\ pc = "none" /\ sessions = 0
  /\ given = 0 /\ dataPtr = 1 /\ remain = 0 /\ fed = [p \in Pieces |-> 0]
  /\ failed = FALSE /\ dropped = FALSE /\ narrowed = FALSE

Moves(from, to) == pc = from /\ pc' = to

(***************************************************************************)
(* Faulty variants of steps below, each with one mistake.  They are not    *)
(* part of the specification; PROJECT.json pairs each with a property that *)
(* notices when it takes the place of the step it is named after.          *)
(***************************************************************************)

\* a parser that cannot be made leaves the old pointer in place
ParserFailsFaulty ==
  /\ codecFound
  /\ Moves("initDecoder", "initEncoder")
  /\ failed' = TRUE
  /\ UNCHANGED <<codecFound, decoder, pFormatCtx, sessions, data>>

\* dataPtr is not advanced
ParseFaulty ==
  /\ pPacket = "live" /\ remain > 0
  /\ pc = "parse"
  /\ \E procLen \in 0..remain :
       /\ fed' = [p \in Pieces |->
                    IF p \in dataPtr..(dataPtr + procLen - 1) THEN fed[p] + 1 ELSE fed[p]]
       /\ remain' = remain - procLen
  /\ pc' \in {"parse", "encode"}
  /\ UNCHANGED <<codecFound, decoder, pFormatCtx, sessions, given, dataPtr, failed,
                 dropped, narrowed>>

\* remain is not counted down, and the loop runs past the batch
ParseEndless ==
  /\ pPacket = "live" /\ remain > 0
  /\ pc = "parse"
  /\ \E procLen \in 0..remain :
       /\ fed' = [p \in Pieces |->
                    IF p \in dataPtr..(dataPtr + procLen - 1) THEN fed[p] + 1 ELSE fed[p]]
       /\ dataPtr' = dataPtr + procLen
  /\ pc' \in {"parse", "encode"}
  /\ UNCHANGED <<codecFound, decoder, pFormatCtx, sessions, given, remain, failed,
                 dropped, narrowed>>

\* the packet is not allocated
DecoderReadyFaulty ==
  /\ codecFound
  /\ Moves("initDecoder", "initEncoder")
  /\ pCodecParserCtx' = "live" /\ pCodecCtx' = "open"
  /\ UNCHANGED <<codecFound, pPacket, pFormatCtx, sessions, data, failed>>

(***************************************************************************)
(* initDecoder.  It gives up at the first object that it cannot make; its  *)
(* result is ignored.                                                      *)
(***************************************************************************)

ThreadBegins ==
  /\ sessions < MaxSessions
  /\ Moves("none", "initDecoder")
  /\ sessions' = sessions + 1 /\ failed' = FALSE
  /\ UNCHANGED <<codecFound, decoder, pFormatCtx, data>>

CodecMissing ==
  /\ ~codecFound
  /\ Moves("initDecoder", "initEncoder")
  /\ failed' = TRUE
  /\ UNCHANGED <<codecFound, decoder, pFormatCtx, sessions, data>>

ParserFails ==
  /\ codecFound
  /\ Moves("initDecoder", "initEncoder")
  /\ pCodecParserCtx' = "null" /\ failed' = TRUE
  /\ UNCHANGED <<codecFound, pCodecCtx, pPacket, pFormatCtx, sessions, data>>

\* The context cannot be allocated, or it cannot be opened, or the packet cannot
\* be allocated.
LaterObjectFails ==
  /\ codecFound
  /\ Moves("initDecoder", "initEncoder")
  /\ pCodecParserCtx' = "live" /\ failed' = TRUE
  /\ \/ pCodecCtx' \in {"null", "allocated"} /\ UNCHANGED pPacket
     \/ pCodecCtx' = "open" /\ pPacket' = "null"
  /\ UNCHANGED <<codecFound, pFormatCtx, sessions, data>>

DecoderReady ==
  /\ codecFound
  /\ Moves("initDecoder", "initEncoder")
  /\ pCodecParserCtx' = "live" /\ pCodecCtx' = "open" /\ pPacket' = "live"
  /\ UNCHANGED <<codecFound, pFormatCtx, sessions, data, failed>>

(***************************************************************************)
(* EncoderRTSP::init, on a new object; its result is ignored too.          *)
(***************************************************************************)

\* No context, or one without a stream, without a connection or without a header
EncoderFails ==
  /\ Moves("initEncoder", "loop")
  /\ pFormatCtx' \in {"null", "allocated"}
  /\ failed' = TRUE
  /\ UNCHANGED <<codecFound, decoder, sessions, data>>

EncoderReady ==
  /\ Moves("initEncoder", "loop")
  /\ pFormatCtx' = "ready"
  /\ UNCHANGED <<codecFound, decoder, sessions, data, failed>>

(***************************************************************************)
(* decoding and EncoderRTSP::encode.                                       *)
(***************************************************************************)

\* A batch is passed over if there is no codec context.  What an int holds of a
\* longer batch than it can count may be negative, nothing, or too little.
DecodingBegins ==
  /\ pc = "loop"
  /\ \E len \in 1..(MaxPieces - given) :
       /\ given' = given + len
       /\ remain' = IF pCodecCtx = "null" THEN 0 ELSE AsInt(len, IntLimit)
       /\ narrowed' = (narrowed \/ (pCodecCtx # "null" /\ len >= IntLimit))
  /\ dataPtr' = given + 1
  /\ pc' = IF pCodecCtx = "null" THEN "loop" ELSE "parse"
  /\ dropped' = (dropped \/ pCodecCtx = "null")
  /\ UNCHANGED <<codecFound, decoder, pFormatCtx, sessions, fed, failed>>

\* The parser is told to store what it finds at two addresses in the packet.
ParseWithoutPacket ==
  /\ pPacket = "null" /\ remain > 0
  /\ Moves("parse", "crashed")
  /\ UNCHANGED <<codecFound, decoder, pFormatCtx, sessions, data, failed>>

\* The parser takes some of the pieces, or none, and may complete a packet.
Parse ==
  /\ pPacket = "live" /\ remain > 0
  /\ pc = "parse"
  /\ \E procLen \in 0..remain :
       /\ fed' = [p \in Pieces |->
                    IF p \in dataPtr..(dataPtr + procLen - 1) THEN fed[p] + 1 ELSE fed[p]]
       /\ remain' = remain - procLen
       /\ dataPtr' = dataPtr + procLen
  /\ pc' \in {"parse", "encode"}
  /\ UNCHANGED <<codecFound, decoder, pFormatCtx, sessions, given, failed, dropped,
                 narrowed>>

\* A negative result: the rest of the batch is given up.
ParseFails ==
  /\ pPacket = "live" /\ remain > 0
  /\ Moves("parse", "loop")
  /\ dropped' = TRUE
  /\ UNCHANGED <<codecFound, decoder, pFormatCtx, sessions, given, dataPtr, remain, fed,
                 failed, narrowed>>

DecodingEnds ==
  /\ remain <= 0
  /\ Moves("parse", "loop")
  /\ UNCHANGED <<codecFound, decoder, pFormatCtx, sessions, data, failed>>

\* av_interleaved_write_frame; what it does without a header, or without a context,
\* is undefined.
Encode ==
  /\ pc = "encode"
  /\ pc' \in IF pFormatCtx = "ready" THEN {"parse"} ELSE {"parse", "crashed"}
  /\ UNCHANGED <<codecFound, decoder, pFormatCtx, sessions, data, failed>>

(***************************************************************************)
(* The end of the thread.                                                  *)
(***************************************************************************)

LoopEnds ==
  /\ Moves("loop", "deInitDecoder")
  /\ UNCHANGED <<codecFound, decoder, pFormatCtx, sessions, data, failed>>

\* av_parser_close leaves the pointer as it is, and must not see it a second time.
DeInitDecoder ==
  /\ pc = "deInitDecoder"
  /\ pc' = IF pCodecParserCtx = "closed" THEN "crashed" ELSE "deInitEncoder"
  /\ pCodecParserCtx' = IF pCodecParserCtx = "null" THEN "null" ELSE "closed"
  /\ pCodecCtx' = "null" /\ pPacket' = "null"
  /\ UNCHANGED <<codecFound, pFormatCtx, sessions, data, failed>>

DeInitEncoder ==
  /\ Moves("deInitEncoder", "none")
  /\ pFormatCtx' = "null"
  /\ UNCHANGED <<codecFound, decoder, sessions, data, failed>>

Next ==
  \/ ThreadBegins \/ CodecMissing \/ ParserFails \/ LaterObjectFails \/ DecoderReady
  \/ EncoderFails \/ EncoderReady
  \/ DecodingBegins \/ ParseWithoutPacket \/ Parse \/ ParseFails \/ DecodingEnds \/ Encode
  \/ LoopEnds \/ DeInitDecoder \/ DeInitEncoder

Spec == Init /\ [][Next]_vars

----------------------------------------------------------------------------

\* The type of every variable of FrameDecoder.
TypeOK ==
  /\ codecFound \in BOOLEAN /\ failed \in BOOLEAN
  /\ dropped \in BOOLEAN /\ narrowed \in BOOLEAN
  /\ pCodecParserCtx \in {"null", "live", "closed"}
  /\ pCodecCtx \in {"null", "allocated", "open"} /\ pPacket \in {"null", "live"}
  /\ pFormatCtx \in {"null", "allocated", "ready"}
  /\ pc \in PC /\ sessions \in 0..MaxSessions
  /\ given \in 0..MaxPieces /\ remain \in -IntLimit..(IntLimit - 1)
  /\ dataPtr \in 1..(MaxPieces + 1)
  /\ fed \in [Pieces -> Nat]

\* A session in which everything could be made does not use an object that is
\* missing or gone, whatever went wrong in the sessions before it
\* (DJILiveview.cpp:203-255, EncoderRTSP.hpp:52-107).
SoundUnlessFailed == pc = "crashed" => failed

\* The parser is closed once, also when a later session cannot make a new one:
\* no session ends with a pointer to the last one's parser (DJILiveview.cpp:237).
ParserClosedOnce == pc = "deInitDecoder" => pCodecParserCtx # "closed"

\* No piece of the stream goes to the parser twice, whatever the length of the
\* batches, and after a batch each piece has gone there, unless there was an error
\* or a batch was longer than an int can count (DJILiveview.cpp:249-261).
FedOnce ==
  /\ \A p \in Pieces : fed[p] <= 1
  /\ pc = "loop" /\ ~dropped /\ ~narrowed => \A p \in 1..given : fed[p] = 1
=============================================================================
