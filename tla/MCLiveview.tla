----------------------------- MODULE MCLiveview -----------------------------
(* Instances of Liveview for TLC: the chunks are long enough for the rate to be
   a few kbit/s and for both the sum of three and its bits to pass UintMod. *)
EXTENDS LiveviewProps

MCChunkLen == [c \in 1..MaxChunks |-> 22000 + 500 * c]
=============================================================================
