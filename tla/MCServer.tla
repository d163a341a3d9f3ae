---- MODULE MCServer ----
(***************************************************************************)
(* Instances of Server: the register timer is due after one round of main, *)
(* the other one after two, so that they are due apart and together.     *)
(***************************************************************************)
EXTENDS Server, TLC

CONSTANTS n1, c1

MCNpConns == {n1}
MCCsConns == {c1}
MCTimeout == <<1, 2>>

=============================================================================
