----------------------------- MODULE MCMemPipe -----------------------------
(* Small instances of MemPipe for TLC. *)
EXTENDS MemPipe, TLC

CONSTANTS a, b, z      \* byte values

MCBytes == {a, b, z}

\* An empty buffer (what dropping an unused writer sends), one that fits with
\* room to spare, and one that send cuts short.
MCDatas == {<<>>, <<a>>, <<a, b, b>>}

\* Two that differ in length and in bytes: what is left over in a buffer from
\* its previous use would show.
MCDatas2 == {<<a>>, <<b, b, b>>}

\* One, where only the orders matter.
MCDatas1 == {<<a, b, b>>}

ReceiverSymmetry == Permutations(Receivers)
=============================================================================
