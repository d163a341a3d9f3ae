---- MODULE MCSpTracker ----
(***************************************************************************)
(* SpTracker for TLC; super peers can be exchanged with one another.       *)
(***************************************************************************)
EXTENDS SpTracker, TLC

Symmetry == Permutations(Sp)
====
