------------------------------ MODULE MCLogins ------------------------------
(* Logins for TLC: two processes, four logins for two places each.         *)
EXTENDS Logins, TLC

CONSTANTS p1, p2, l1, l2, l3, l4, h1, h2

Symmetry == Permutations({p1, p2}) \cup Permutations({l1, l2, l3, l4})
            \cup Permutations({h1, h2})
=============================================================================
