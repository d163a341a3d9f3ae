---- MODULE MCBufferQueue ----
(***************************************************************************)
(* BufferQueue on a ring of three buffers of two bytes, for TLC.           *)
(***************************************************************************)
EXTENDS BufferQueue

CONSTANTS a, b      \* two different bytes

MCByte == {a, b}

\* A short block and two full ones.
MCBlocks == {<<a>>, <<a, b>>, <<b, b>>}

\* Ids before the window, in it and after it; -1 is what an id of 2^31 or
\* more sent by a peer becomes when it is passed as an int.
MCAskedIds == -1 .. 7
====
