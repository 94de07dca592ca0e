---------------------------- MODULE H264Channel ----------------------------
(***************************************************************************)
(* What the H.264 cache of DJILiveview promises to the decoder, with no    *)
(* thread, lock or condition variable in sight: chunks come out whole, in  *)
(* the order in which they came in, each exactly once, until the client    *)
(* closes the channel by stopping the live view.  Liveview.tla is shown to *)
(* implement it.                                                           *)
(***************************************************************************)
EXTENDS Naturals, Sequences, SequencesExt

VARIABLES pending,   \* chunks handed over by the SDK and not yet taken
          out,       \* chunks the decoder has taken, oldest first
          open,      \* FALSE once a Stop has put its own byte in the stream
          next       \* number of the last chunk that came in

vars == <<pending, out, open, next>>

Init == pending = <<>> /\ out = <<>> /\ open = TRUE /\ next = 0

Arrive == /\ open
          /\ next' = next + 1
          /\ pending' = Append(pending, next')
          /\ UNCHANGED <<out, open>>

\* The decoder empties the channel in one step, however much is in it.
Deliver == /\ open
           /\ pending # <<>>
           /\ out' = out \o pending
           /\ pending' = <<>>
           /\ UNCHANGED <<open, next>>

Close == open /\ open' = FALSE /\ UNCHANGED <<out, next>>

\* Once closed, the only promise left is that what was taken stays taken.
AfterClose == ~open /\ ~open' /\ IsPrefix(out, out')

Next == Arrive \/ Deliver \/ Close \/ AfterClose

Spec == Init /\ [][Next]_vars /\ WF_vars(Deliver)
=============================================================================
