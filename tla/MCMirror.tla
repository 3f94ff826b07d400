------------------------------ MODULE MCMirror ------------------------------
(* Small instances of Mirror for TLC: an account, a category, a split      *)
(* transaction and a split schedule, each with one line.                   *)
EXTENDS Mirror

CONSTANTS t1, s1, c1, x1

ParentOf == [s \in Children |-> IF s = s1 THEN t1 ELSE c1]
=============================================================================
