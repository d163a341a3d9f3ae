----------------------------- MODULE MCMessages -----------------------------
(* The classes whose three methods are in use on some side of the network.   *)
EXTENDS Messages

\* packed by nobody: Sp2TsLogout, Np2TsReport and Sp2SpPushList
PackedClasses == AllClasses \ {"Sp2TsLogout", "Np2TsReport", "Sp2SpPushList"}

PeersOnly == {"Ts2NpPeers"}
=============================================================================
