---- MODULE MCRecvBuffer ----
(***************************************************************************)
(* RecvBuffer with a two-byte size field and a buffer of eight bytes that  *)
(* may grow to twelve, for TLC.                                            *)
(***************************************************************************)
EXTENDS RecvBuffer

\* Messages much smaller than the buffer, about its size, and beyond it.
MCSizes == {3, 5, 8, 12}

MCStreams == {<<a, a + b, a + b + c>> : a, b, c \in MCSizes}
====
