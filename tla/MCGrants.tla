------------------------------- MODULE MCGrants -----------------------------
(* Grants for TLC: one grant, whose client shares its only place with      *)
(* another one.                                                            *)
EXTENDS Grants, TLC

CONSTANTS g1, k1, k2, u1, r1, r2, r3

MCClientOf == [g \in Grants |-> k1]
MCUserOf   == [g \in Grants |-> u1]

Symmetry == Permutations(Requests)
=============================================================================
