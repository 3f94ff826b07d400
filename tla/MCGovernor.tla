----------------------------- MODULE MCGovernor -----------------------------
(* Governor for TLC: two clients, a limit of three, an hour of four seconds.*)
EXTENDS Governor, TLC

CONSTANTS c1, c2

Symmetry == Permutations(Clients)
=============================================================================
