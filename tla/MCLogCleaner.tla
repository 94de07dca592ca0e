---------------------------- MODULE MCLogCleaner ----------------------------
(***************************************************************************)
(* LogCleaner on a small folder and Utilities on a set of texts: either a  *)
(* cleaner runs, and the text is empty, or a function is called with a     *)
(* text, when the cleaner is gone.                                         *)
(***************************************************************************)
EXTENDS LogCleaner, Utilities

\* "a.i", "a.j" and ".k".
MCFiles == {<<97, Dot, 105>>, <<97, Dot, 106>>, <<Dot, 107>>}

\* "./a".
MCPaths == {<<Dot, Slash, 97>>}

\* Every string of up to six of '/', '.' and 'a'.
PathTexts == SeqOf({Slash, Dot, 97}, 6)

\* Every array of up to four of the bytes at the borders of a group of bits.
ByteTexts == SeqOf({0, 3, 4, 15, 64, 170, 255}, 4) \cup {[i \in 1..7 |-> 36 * i]}

\* Three to five parts, two of which vary, and one dot or colon too many.
Parts == {<<>>, <<48>>, <<49>>, <<48, 49>>, <<57, 57>>, <<50, 53, 53>>, <<50, 53, 54>>,
          <<49, 48, 48, 48>>, <<49, 97>>, <<70, 103>>, <<97, 70, 48, 57>>, <<97, 70, 48, 57, 49>>}

\* n parts between marks: the first is first, the last is last, the rest are "1".
Address(n, mark, first, last) ==
  FlattenSeq([i \in 1..2 * n - 1 |->
    IF i % 2 = 0 THEN <<mark>>
    ELSE IF i = 1 THEN first
    ELSE IF i = 2 * n - 1 THEN last ELSE <<49>>])

AddressTexts ==
  {Address(n, Period, p, q) : n \in 3..5, p \in Parts, q \in Parts}
    \cup {Address(n, Colon, p, q) : n \in 7..9, p \in Parts, q \in Parts}
    \cup {Address(4, Period, p, q) \o <<Colon>> : p \in Parts, q \in Parts}

MCTexts == PathTexts \cup ByteTexts \cup AddressTexts

MCInit ==
  \/ Init /\ text = <<>>
  \/ /\ TextInit
     /\ argv0 \in Paths /\ program = <<>>
     /\ clock = 0 /\ ctime = [f \in Files |-> Absent] /\ isRun = FALSE
     /\ pc = "ended" /\ logs = {} /\ now = 0 /\ file = <<>>
     /\ owner = "destroyed" /\ setBack = FALSE

MCNext == Next /\ UNCHANGED text

MCSpec == MCInit /\ [][MCNext]_<<vars, text>> /\ Fairness
=============================================================================
