---- MODULE MCSuperPeer ----
(***************************************************************************)
(* SuperPeer with rings of two one-byte buffers, for TLC.                  *)
(***************************************************************************)
EXTENDS SuperPeer, TLC

CONSTANTS a, b      \* two different bytes

MCByte == {a, b}
MCBlocks == {<<a>>, <<b>>}

\* Descending, with a repeat.  Each id is at times not published yet, and 0 leaves
\* the ring when all three blocks are.
MCPushLists == {<<1, 0, 0>>}

\* Where contents and repeats do not matter.
OneBlock == {<<a>>}
ShortPushLists == {<<2, 0>>}

\* Neither players nor channels are told apart by the actions.
Symmetry == Permutations(Np) \union Permutations(Channel)
====
