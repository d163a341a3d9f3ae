---- MODULE MCIntervalArray ----
(***************************************************************************)
(* IntervalArray over eight numbers, for TLC.                              *)
(***************************************************************************)
EXTENDS IntervalArray
====
