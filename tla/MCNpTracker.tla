---- MODULE MCNpTracker ----
(***************************************************************************)
(* NpTracker for TLC; channels can be exchanged with one another.          *)
(***************************************************************************)
EXTENDS NpTracker, TLC

Symmetry == Permutations(Channel)
====
