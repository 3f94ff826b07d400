---------------------------- MODULE PlanReplica -----------------------------
(***************************************************************************)
(* What a mirror of a YNAB plan promises its readers: it shows the plan as *)
(* it was at one moment, and moves from one such moment to another in one  *)
(* step.  A refresh takes the plan whole and later installs what it took,  *)
(* or gives up and leaves the replica as it was.                           *)
(***************************************************************************)
CONSTANTS
    Views, \* what a plan can look like
    Empty  \* the plan with nothing in it, and the replica before any sync

VARIABLES
    plan,    \* the plan as YNAB shows it now
    replica, \* the plan as the replica shows it
    pending  \* the view a refresh took, as a one-element sequence, or <<>>

vars == <<plan, replica, pending>>

Init == plan = Empty /\ replica = Empty /\ pending = <<>>

Change  == plan' \in Views /\ UNCHANGED <<replica, pending>>
Take    == pending = <<>> /\ pending' = <<plan>> /\ UNCHANGED <<plan, replica>>
Install == pending = <<replica'>> /\ pending' = <<>> /\ UNCHANGED plan
Abandon == pending # <<>> /\ pending' = <<>> /\ UNCHANGED <<plan, replica>>

Next == Change \/ Take \/ Install \/ Abandon

Spec == Init /\ [][Next]_vars
=============================================================================
