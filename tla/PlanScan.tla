------------------------------ MODULE PlanScan ------------------------------
(***************************************************************************)
(* The archived-plan scan (`finbot sync --archived`; sync/mirror.go,       *)
(* ScanDiscretionary; store/planscan.go) while YNAB's plans change, in a   *)
(* database that other processes open and write to as well (Database).     *)
(* Times are the number of YNAB's changes so far.  One scan runs at a      *)
(* time; every process also writes other tables (a sync's tick).           *)
(***************************************************************************)
EXTENDS Database, Sequences

CONSTANTS
    Scanners,  \* the processes that may scan
    Plans,     \* what the token may reach
    MaxChanges \* bound: how often YNAB's plans change

ASSUME ScanAssumption ==
    /\ Scanners \subseteq Procs
    /\ MaxChanges \in Nat

VARIABLES
    past, \* YNAB, and its history: each plan's answer at each time
    scan, \* the scan under way: plans to fetch, rows so far
    good  \* history: the time of the last good scan stored for each plan

vars == <<dbVars, past, scan, good>>

Now == Len(past)
Answer == {"yes", "no", "gone"}

NoRow == [has |-> "none", failed |-> FALSE, at |-> 0]
NoScan == [by |-> NoOne]
NothingStored == [plan \in Plans |-> NoRow]

ASSUME BlankAssumption == Blank = NothingStored

-----------------------------------------------------------------------------
PlansChange ==
    /\ Now <= MaxChanges
    /\ \E plan \in Plans : \E a \in Answer \ {past[Now][plan]} :
        past' = Append(past, [past[Now] EXCEPT ![plan] = a])
    /\ UNCHANGED <<dbVars, scan, good>>

(* lister.Plans.                                                           *)
ListPlans(p) ==
    /\ proc[p].pc = "up" /\ scan = NoScan
    /\ scan' = [by |-> p, todo |-> {plan \in Plans : past[Now][plan] # "gone"},
                rows |-> NothingStored]
    /\ UNCHANGED <<dbVars, past, good>>

Good(plan) == [has |-> past[Now][plan], failed |-> FALSE, at |-> Now]
Failed == [has |-> "none", failed |-> TRUE, at |-> Now]

(* GetCategories: a plan's verdict, or an error, as for a plan that went.  *)
FetchPlan(p) ==
    /\ scan.by = p /\ proc[p].pc = "up"
    /\ \E plan \in scan.todo :
       \E row \in {Failed} \cup (IF past[Now][plan] = "gone" THEN {} ELSE {Good(plan)}) :
        scan' = [scan EXCEPT !.todo = @ \ {plan}, !.rows[plan] = row]
    /\ UNCHANGED <<dbVars, past, good>>

(* The write of a scan whose plans were all tried, or of a tick.           *)
StartWrite(p) ==
    /\ proc[p].pc = "up"
    /\ scan.by = p => scan.todo = {}
    /\ Go(p, "write")
    /\ UNCHANGED <<file, lock, conn, draft, step, past, scan, good>>

BeginWrite(p) ==
    /\ proc[p].pc = "write"
    /\ Begin(p)
    /\ UNCHANGED <<past, scan, good>>

Upserted_errorClears(old, new) == new

(* ON CONFLICT: an error keeps the verdict and its time.                   *)
Upserted(old, new) ==
    IF new.failed /\ old # NoRow THEN [old EXCEPT !.failed = TRUE] ELSE new

(* ReplacePlanScans: what is not listed goes, then row after row.          *)
Replaced(rows) ==
    [plan \in Plans |->
        IF scan.rows[plan] = NoRow THEN NoRow ELSE Upserted(rows[plan], scan.rows[plan])]

Write(p) ==
    /\ proc[p].pc = "write"
    /\ LET after == IF scan.by = p THEN [draft EXCEPT !.rows = Replaced(@)] ELSE draft
       IN Fn(p, after) \/ FnFails(p, after)
    /\ UNCHANGED <<past, scan, good>>

(* ctx ends, or the list cannot be had: nothing is stored.                 *)
ScanEnds(p) ==
    /\ scan.by = p /\ proc[p].pc = "up"
    /\ scan' = NoScan
    /\ UNCHANGED <<dbVars, past, good>>

(* The database's own steps; the scan is over when its write is, or its    *)
(* process.                                                                *)
Step(p) ==
    /\ DatabaseStep(p)
    /\ scan' = IF scan.by = p /\ (proc[p].pc = "write" => proc'[p].pc # "write")
               THEN NoScan ELSE scan
    /\ good' = IF scan.by = p /\ step[p] = "commit" /\ proc'[p].pc = "up"
               THEN [plan \in Plans |->
                       IF scan.rows[plan].has # "none" THEN scan.rows[plan].at
                       ELSE IF scan.rows[plan].failed THEN good[plan] ELSE 0]
               ELSE good
    /\ UNCHANGED past

-----------------------------------------------------------------------------
Init ==
    /\ InitDatabase
    /\ past = <<[plan \in Plans |-> "no"]>>
    /\ scan = NoScan
    /\ good = [plan \in Plans |-> 0]

Next ==
    \/ PlansChange
    \/ \E p \in Procs : Step(p) \/ StartWrite(p) \/ BeginWrite(p) \/ Write(p)
    \/ \E p \in Scanners : ListPlans(p) \/ FetchPlan(p) \/ ScanEnds(p)

Spec == Init /\ [][Next]_vars

-----------------------------------------------------------------------------
(* Properties *)

Rows == [Plans -> [has : Answer \cup {"none"}, failed : BOOLEAN, at : Nat]]

Contents == [recorded : SUBSET Migrations, effects : [Migrations -> Nat], rows : Rows]

Phases == {"down", "create", "read", "migrate", "up", "write"}

TypeOK ==
    /\ file \in Contents /\ draft \in Contents
    /\ lock \in Procs \cup {NoOne}
    /\ conn \in [Procs -> {"in", "out"}]
    /\ step \in [Procs -> {"none", "fn", "commit", "rollback"}]
    /\ proc \in [Procs -> [pc : Phases, todo : SUBSET Migrations]]
    /\ past \in Seq([Plans -> Answer]) /\ past # << >>
    /\ scan \in {NoScan} \cup [by : Scanners, todo : SUBSET Plans, rows : Rows]
    /\ good \in [Plans -> Nat]

(* PlanScan.HasDiscretionary "is the verdict of the plan's last successful *)
(* scan, so it survives a later failure", ScannedAt is that scan's time:   *)
(* whatever order scans succeed, fail, lose the plan, find it again, are   *)
(* rolled back or die in, a stored verdict is what YNAB said at its time,  *)
(* and that is the last time it could be stored.                           *)
VerdictIsLastGoodScan ==
    \A plan \in Plans :
        LET row == file.rows[plan] IN
        IF good[plan] = 0 THEN row.has = "none"
        ELSE row.at = good[plan] /\ row.has = past[good[plan]][plan]

(* A verdict so far: none, an error, or what YNAB said at its time.        *)
Fetched(plan, row) ==
    \/ row.has = "none"
    \/ row.at \in 1 .. Now /\ row.has = past[row.at][plan] /\ ~ row.failed

(* Why it holds: a scan belongs to a process that is up, and a transaction *)
(* would change the file's rows by its own scan only.                      *)
ScanInv ==
    /\ VerdictIsLastGoodScan
    /\ \A plan \in Plans : good[plan] \in 0 .. Now
    /\ scan # NoScan =>
          /\ proc[scan.by].pc \in {"up", "write"}
          /\ \A plan \in Plans : Fetched(plan, scan.rows[plan])
    /\ \A p \in Procs : step[p] = "commit" =>
          draft.rows = IF scan.by = p THEN Replaced(file.rows) ELSE file.rows
=============================================================================
