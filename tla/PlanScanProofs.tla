--------------------------- MODULE PlanScanProofs ---------------------------
(***************************************************************************)
(* Proofs about the database file and the scan of the plans, for every     *)
(* number of processes, migrations and plans.                              *)
(***************************************************************************)
EXTENDS PlanScan, TLAPS

-----------------------------------------------------------------------------
(* Lists of migrations *)

LEMMA FirstOfInterval ==
  ASSUME NEW k \in Nat, NEW n \in Nat, (k + 1) .. n # {}
  PROVE  FirstOf((k + 1) .. n) = k + 1
<1>1. k + 1 \in (k + 1) .. n /\ \A i \in (k + 1) .. n : k + 1 <= i
  OBVIOUS
<1>2. ASSUME NEW m \in (k + 1) .. n, \A i \in (k + 1) .. n : m <= i PROVE m = k + 1
  BY <1>1, <1>2
<1> QED BY <1>1, <1>2 DEF FirstOf

(* Intervals that start at 1 are equal only if their ends are.             *)
LEMMA IntervalStep ==
  ASSUME NEW last \in Nat, NEW k \in Nat, 1 .. k \subseteq 1 .. last, k + 1 \notin 1 .. last
  PROVE  last = k
<1>1. last < k + 1
  OBVIOUS
<1>2. k = 0 \/ k \in 1 .. last
  OBVIOUS
<1> QED BY <1>1, <1>2

-----------------------------------------------------------------------------
(* Types *)

LEMMA NoRowType == NoRow \in [has : Answer \cup {"none"}, failed : BOOLEAN, at : Nat]
  BY DEF NoRow, Answer

LEMMA NothingStoredType == NothingStored \in Rows
  BY NoRowType DEF NothingStored, Rows

LEMMA ReleaseType ==
  ASSUME TypeOK, NEW p \in Procs, Release(p)
  PROVE  lock' \in Procs \cup {NoOne} /\ draft' \in Contents
  BY DEF Release, TypeOK

LEMMA GoType ==
  ASSUME TypeOK, NEW p \in Procs, NEW pc \in Phases, Go(p, pc)
  PROVE  /\ proc' \in [Procs -> [pc : Phases, todo : SUBSET Migrations]]
         /\ proc'[p] = [pc |-> pc, todo |-> proc[p].todo]
         /\ \A q \in Procs : q # p => proc'[q] = proc[q]
<1>1. proc \in [Procs -> [pc : Phases, todo : SUBSET Migrations]]
  BY DEF TypeOK
<1>2. [proc[p] EXCEPT !.pc = pc] = [pc |-> pc, todo |-> proc[p].todo]
  BY <1>1
<1>3. proc' = [proc EXCEPT ![p] = [pc |-> pc, todo |-> proc[p].todo]]
  BY <1>1, <1>2 DEF Go
<1>4. [pc |-> pc, todo |-> proc[p].todo] \in [pc : Phases, todo : SUBSET Migrations]
  BY <1>1
<1> QED BY <1>1, <1>3, <1>4

LEMMA DownType == Down \in [pc : Phases, todo : SUBSET Migrations]
  BY DEF Down, Phases

LEMMA DownProc ==
  ASSUME TypeOK, NEW p \in Procs, proc' = [proc EXCEPT ![p] = Down]
  PROVE  /\ proc' \in [Procs -> [pc : Phases, todo : SUBSET Migrations]]
         /\ proc'[p] = Down
         /\ \A q \in Procs : q # p => proc'[q] = proc[q]
<1>1. proc \in [Procs -> [pc : Phases, todo : SUBSET Migrations]]
  BY DEF TypeOK
<1> QED BY <1>1, DownType

(* What follows a writeTx, by what the process was doing.                  *)
LEMMA EndedType ==
  ASSUME TypeOK, NEW p \in Procs, NEW ok \in BOOLEAN, Ended(p, ok)
  PROVE  /\ proc' \in [Procs -> [pc : Phases, todo : SUBSET Migrations]]
         /\ proc[p].pc # "migrate" => proc'[p] = [pc |-> "up", todo |-> proc[p].todo]
         /\ proc[p].pc = "migrate" /\ ok =>
              proc'[p] = [pc |-> "migrate", todo |-> proc[p].todo \ {FirstOf(proc[p].todo)}]
         /\ proc[p].pc = "migrate" /\ ~ ok => proc'[p] = Down
         /\ \A q \in Procs : q # p => proc'[q] = proc[q]
<1>1. proc \in [Procs -> [pc : Phases, todo : SUBSET Migrations]]
  BY DEF TypeOK
<1>2. CASE proc[p].pc # "migrate"
  BY <1>2, GoType DEF Ended, Phases
<1>3. CASE proc[p].pc = "migrate" /\ ok
  <2> DEFINE rest == proc[p].todo \ {FirstOf(proc[p].todo)}
  <2>1. \A todo : [proc[p] EXCEPT !.todo = todo] = [pc |-> "migrate", todo |-> todo]
    BY <1>1, <1>3
  <2>2. proc' = [proc EXCEPT ![p] = [pc |-> "migrate", todo |-> rest]]
    BY <1>1, <1>3, <2>1 DEF Ended
  <2>3. [pc |-> "migrate", todo |-> rest] \in [pc : Phases, todo : SUBSET Migrations]
    BY <1>1 DEF Phases
  <2> HIDE DEF rest
  <2>4. proc' \in [Procs -> [pc : Phases, todo : SUBSET Migrations]]
        /\ proc'[p] = [pc |-> "migrate", todo |-> rest]
        /\ \A q \in Procs : q # p => proc'[q] = proc[q]
    BY <1>1, <2>2, <2>3
  <2> QED BY <1>3, <2>4 DEF rest
<1>4. CASE proc[p].pc = "migrate" /\ ~ ok
  BY <1>4, DownProc DEF Ended
<1> QED BY <1>2, <1>3, <1>4

LEMMA AppliedType ==
  ASSUME NEW d \in Contents, NEW m \in Migrations
  PROVE  /\ Ran(d, m) \in Contents /\ Applied(d, m) \in Contents
         /\ Applied(d, m).recorded = d.recorded \cup {m}
         /\ Applied(d, m).effects = [d.effects EXCEPT ![m] = @ + 1]
         /\ Applied(d, m).rows = d.rows
<1>1. d = [recorded |-> d.recorded, effects |-> d.effects, rows |-> d.rows]
      /\ d.recorded \in SUBSET Migrations /\ d.effects \in [Migrations -> Nat] /\ d.rows \in Rows
  BY DEF Contents
<1>2. [d.effects EXCEPT ![m] = @ + 1] \in [Migrations -> Nat]
  BY <1>1
<1>3. Ran(d, m) = [recorded |-> d.recorded, effects |-> [d.effects EXCEPT ![m] = @ + 1],
                   rows |-> d.rows]
  BY <1>1 DEF Ran
<1>4. \A i, j, k, l : [[recorded |-> i, effects |-> j, rows |-> k] EXCEPT !.recorded = l]
                       = [recorded |-> l, effects |-> j, rows |-> k]
  OBVIOUS
<1>5. Applied(d, m) = [Ran(d, m) EXCEPT !.recorded = Ran(d, m).recorded \cup {m}]
  BY DEF Applied
<1>6. Applied(d, m) = [recorded |-> d.recorded \cup {m},
                       effects |-> [d.effects EXCEPT ![m] = @ + 1], rows |-> d.rows]
  BY <1>3, <1>4, <1>5
<1> QED BY <1>1, <1>2, <1>3, <1>6 DEF Contents

(* A list of migrations that is not done is a suffix: its first is the one *)
(* after those that were recorded before it was read.                      *)
LEMMA FirstOfList ==
  ASSUME MigrationInv, NEW p \in Procs, proc[p].pc = "migrate", proc[p].todo # {}
  PROVE  \E k \in Nat :
           /\ k + 1 \in Migrations
           /\ FirstOf(proc[p].todo) = k + 1
           /\ proc[p].todo = (k + 1) .. NMigrations
           /\ 1 .. k \subseteq file.recorded
<1>1. PICK k \in 0 .. NMigrations :
        proc[p].todo = (k + 1) .. NMigrations /\ 1 .. k \subseteq file.recorded
  BY DEF MigrationInv
<1>2. NMigrations \in Nat /\ k \in Nat
  BY DatabaseAssumption
<1>3. FirstOf(proc[p].todo) = k + 1
  BY <1>1, <1>2, FirstOfInterval
<1>4. k + 1 \in Migrations
  BY <1>1, <1>2 DEF Migrations
<1> QED BY <1>1, <1>2, <1>3, <1>4

(* What each kind of step does to the database's variables.                *)
LEMMA DatabaseStepType ==
  ASSUME TypeOK, MigrationInv, NEW p \in Procs, DatabaseStep(p)
  PROVE  /\ file' \in Contents /\ draft' \in Contents
         /\ lock' \in Procs \cup {NoOne}
         /\ conn' \in [Procs -> {"in", "out"}]
         /\ step' \in [Procs -> {"none", "fn", "commit", "rollback"}]
         /\ proc' \in [Procs -> [pc : Phases, todo : SUBSET Migrations]]
<1>1. CASE BeginFails(p)
  BY <1>1, ReleaseType, EndedType DEF BeginFails, TypeOK
<1>2. CASE Commit(p)
  BY <1>2, EndedType DEF Commit, TypeOK
<1>3. CASE CommitFails(p)
  BY <1>3, ReleaseType DEF CommitFails, TypeOK
<1>4. CASE Rollback(p)
  BY <1>4, ReleaseType, EndedType DEF Rollback, Left, TypeOK
<1>5. CASE Open(p) \/ CreateTable(p) \/ OpenReads(p)
  <2>1. {"create", "read", "up"} \subseteq Phases
    BY DEF Phases
  <2>2. proc' \in [Procs -> [pc : Phases, todo : SUBSET Migrations]]
    BY <1>5, <2>1, GoType DEF Open, CreateTable, OpenReads
  <2> QED BY <1>5, <2>2 DEF Open, CreateTable, OpenReads, TypeOK
<1>6. CASE ReadVersions(p) 
  <2>1. [pc |-> "migrate", todo |-> Migrations \ file.recorded]
          \in [pc : Phases, todo : SUBSET Migrations]
    BY DEF Phases
  <2>2. proc \in [Procs -> [pc : Phases, todo : SUBSET Migrations]]
    BY DEF TypeOK
  <2>3. proc' \in [Procs -> [pc : Phases, todo : SUBSET Migrations]]
    BY <1>6, <2>1, <2>2 DEF ReadVersions
  <2> QED BY <1>6, <2>3 DEF ReadVersions, TypeOK
<1>7. CASE OpenFails(p)
  BY <1>7, DownProc DEF OpenFails, TypeOK
<1>8. CASE BeginMigration(p)
  BY <1>8 DEF BeginMigration, Begin, TypeOK
<1>9. CASE ApplyMigration(p)
  <2>1. draft \in Contents
    BY DEF TypeOK
  <2>2. FirstOf(proc[p].todo) \in Migrations
    BY <1>9, FirstOfList DEF ApplyMigration
  <2>3. draft' \in {draft, Ran(draft, FirstOf(proc[p].todo)), Applied(draft, FirstOf(proc[p].todo))}
    BY <1>9 DEF ApplyMigration, Fn, FnFails
  <2>4. draft' \in Contents
    <3>1. PICK m \in Migrations : m = FirstOf(proc[p].todo)
      BY <2>2
    <3>2. Ran(draft, m) \in Contents /\ Applied(draft, m) \in Contents
      BY <2>1, AppliedType
    <3>3. draft' \in {draft, Ran(draft, m), Applied(draft, m)}
      BY <2>3, <3>1
    <3> QED BY <2>1, <3>2, <3>3
  <2>5. step' \in [Procs -> {"none", "fn", "commit", "rollback"}]
    BY <1>9 DEF ApplyMigration, Fn, FnFails, TypeOK
  <2> QED BY <1>9, <2>4, <2>5 DEF ApplyMigration, Fn, FnFails, TypeOK
<1>10. CASE Stop(p)
  BY <1>10, ReleaseType, DownProc DEF Stop, TypeOK
<1> QED BY <1>1, <1>2, <1>3, <1>4, <1>5, <1>6, <1>7, <1>8, <1>9, <1>10 DEF DatabaseStep

(* What YNAB says, and when, is an answer it gives.                        *)
LEMMA NowType ==
  ASSUME TypeOK PROVE Now \in Nat \ {0} /\ past[Now] \in [Plans -> Answer]
<1>1. past \in Seq([Plans -> Answer]) /\ past # << >>
  BY DEF TypeOK
<1> QED BY <1>1 DEF Now

LEMMA ScanType ==
  ASSUME TypeOK, scan # NoScan
  PROVE  /\ scan \in [by : Scanners, todo : SUBSET Plans, rows : Rows]
         /\ scan.by \in Procs /\ scan.by # NoOne
  BY ScanAssumption, DatabaseAssumption DEF TypeOK

(* A process has a scan only if there is one.                              *)
LEMMA OwnScan ==
  ASSUME TypeOK, NEW p \in Procs, scan.by = p
  PROVE  scan # NoScan
  BY DatabaseAssumption DEF NoScan

LEMMA ReplacedType ==
  ASSUME TypeOK, NEW p \in Procs, scan.by = p, NEW rows \in Rows
  PROVE  Replaced(rows) \in Rows
<1>1. scan.rows \in Rows
  BY OwnScan, ScanType
<1>2. ASSUME NEW plan \in Plans
      PROVE  Upserted(rows[plan], scan.rows[plan])
               \in [has : Answer \cup {"none"}, failed : BOOLEAN, at : Nat]
  BY <1>1 DEF Rows, Upserted
<1> QED BY <1>1, <1>2, NoRowType DEF Replaced, Rows

LEMMA FetchedType ==
  ASSUME TypeOK, NEW plan \in Plans,
         NEW row \in {Failed} \cup (IF past[Now][plan] = "gone" THEN {} ELSE {Good(plan)})
  PROVE  row \in [has : Answer \cup {"none"}, failed : BOOLEAN, at : Nat]
<1>1. Now \in Nat /\ past[Now][plan] \in Answer
  BY NowType
<1>2. row = Failed \/ row = Good(plan)
  OBVIOUS
<1>3. Failed \in [has : Answer \cup {"none"}, failed : BOOLEAN, at : Nat]
  BY <1>1 DEF Failed
<1>4. Good(plan) \in [has : Answer \cup {"none"}, failed : BOOLEAN, at : Nat]
  BY <1>1 DEF Good
<1> QED BY <1>2, <1>3, <1>4

(* What a transaction's write leaves in its draft.                         *)
LEMMA WriteType ==
  ASSUME TypeOK, NEW p \in Procs, Write(p)
  PROVE  /\ draft' \in Contents
         /\ draft'.recorded = draft.recorded /\ draft'.effects = draft.effects
         /\ draft'.rows = IF scan.by = p THEN Replaced(draft.rows) ELSE draft.rows
         /\ step' = [step EXCEPT ![p] = "commit"] \/ step' = [step EXCEPT ![p] = "rollback"]
<1>1. draft = [recorded |-> draft.recorded, effects |-> draft.effects, rows |-> draft.rows]
      /\ draft.recorded \in SUBSET Migrations
      /\ draft.effects \in [Migrations -> Nat] /\ draft.rows \in Rows
  BY DEF TypeOK, Contents
<1>2. draft' = IF scan.by = p THEN [draft EXCEPT !.rows = Replaced(draft.rows)] ELSE draft
  BY DEF Write, Fn, FnFails
<1>3. \A rows : [draft EXCEPT !.rows = rows]
                = [recorded |-> draft.recorded, effects |-> draft.effects, rows |-> rows]
  BY <1>1
<1>4. step' = [step EXCEPT ![p] = "commit"] \/ step' = [step EXCEPT ![p] = "rollback"]
  BY DEF Write, Fn, FnFails
<1>5. CASE scan.by = p
  <2>1. draft' = [recorded |-> draft.recorded, effects |-> draft.effects,
                  rows |-> Replaced(draft.rows)]
    BY <1>2, <1>3, <1>5
  <2>2. Replaced(draft.rows) \in Rows
    BY <1>1, <1>5, ReplacedType
  <2> QED BY <1>1, <1>4, <1>5, <2>1, <2>2 DEF Contents
<1>6. CASE scan.by # p
  BY <1>1, <1>2, <1>4, <1>6 DEF Contents
<1> QED BY <1>5, <1>6

-----------------------------------------------------------------------------
(* Type correctness needs that a list of migrations is one.                *)
LEMMA TypeNext ==
  ASSUME TypeOK, MigrationInv, [Next]_vars
  PROVE  TypeOK'
<1>1. CASE PlansChange
  <2>1. PICK plan \in Plans, a \in Answer : past' = Append(past, [past[Now] EXCEPT ![plan] = a])
    BY <1>1 DEF PlansChange
  <2>2. [past[Now] EXCEPT ![plan] = a] \in [Plans -> Answer]
    BY NowType
  <2>3. past' \in Seq([Plans -> Answer]) /\ past' # << >>
    BY <2>1, <2>2 DEF TypeOK
  <2> QED BY <1>1, <2>3 DEF PlansChange, dbVars, TypeOK
<1>2. ASSUME NEW p \in Scanners, ListPlans(p)
      PROVE  TypeOK'
  <2>1. scan' \in [by : Scanners, todo : SUBSET Plans, rows : Rows]
    BY <1>2, NothingStoredType DEF ListPlans
  <2> QED BY <1>2, <2>1 DEF ListPlans, dbVars, TypeOK
<1>3. ASSUME NEW p \in Scanners, FetchPlan(p)
      PROVE  TypeOK'
  <2>1. p \in Procs /\ scan \in [by : Scanners, todo : SUBSET Plans, rows : Rows]
    BY <1>3, ScanAssumption, OwnScan, ScanType DEF FetchPlan
  <2>2. PICK plan \in Plans :
          \E row \in [has : Answer \cup {"none"}, failed : BOOLEAN, at : Nat] :
            scan' = [scan EXCEPT !.todo = scan.todo \ {plan}, !.rows[plan] = row]
    BY <1>3, <2>1, FetchedType DEF FetchPlan
  <2>3. PICK row \in [has : Answer \cup {"none"}, failed : BOOLEAN, at : Nat] :
          scan' = [scan EXCEPT !.todo = scan.todo \ {plan}, !.rows[plan] = row]
    BY <2>2
  <2>4. [scan.rows EXCEPT ![plan] = row] \in Rows
    BY <2>1 DEF Rows
  <2>5. scan' = [by |-> scan.by, todo |-> scan.todo \ {plan},
                 rows |-> [scan.rows EXCEPT ![plan] = row]]
    BY <2>1, <2>3
  <2>6. scan' \in [by : Scanners, todo : SUBSET Plans, rows : Rows]
    BY <2>1, <2>4, <2>5
  <2> QED BY <1>3, <2>6 DEF FetchPlan, dbVars, TypeOK
<1>4. ASSUME NEW p \in Scanners, ScanEnds(p)
      PROVE  TypeOK'
  BY <1>4 DEF ScanEnds, dbVars, TypeOK
<1>5. ASSUME NEW p \in Procs, StartWrite(p)
      PROVE  TypeOK'
  <2>1. proc' \in [Procs -> [pc : Phases, todo : SUBSET Migrations]]
    BY <1>5, GoType DEF StartWrite, Phases
  <2> QED BY <1>5, <2>1 DEF StartWrite, TypeOK
<1>6. ASSUME NEW p \in Procs, BeginWrite(p)
      PROVE  TypeOK'
  BY <1>6 DEF BeginWrite, Begin, TypeOK
<1>7. ASSUME NEW p \in Procs, Write(p)
      PROVE  TypeOK'
  <2>1. draft' \in Contents /\ step' \in [Procs -> {"none", "fn", "commit", "rollback"}]
    BY <1>7, WriteType DEF TypeOK
  <2>2. UNCHANGED <<file, lock, conn, proc, past, scan, good>>
    BY <1>7 DEF Write, Fn, FnFails
  <2> QED BY <2>1, <2>2 DEF TypeOK
<1>8. ASSUME NEW p \in Procs, Step(p)
      PROVE  TypeOK'
  <2>1. scan' \in {NoScan, scan} /\ UNCHANGED past
    BY <1>8 DEF Step
  <2>2. good' \in [Plans -> Nat]
    <3>1. ASSUME scan.by = p, NEW plan \in Plans
          PROVE  (IF scan.rows[plan].has # "none" THEN scan.rows[plan].at
                  ELSE IF scan.rows[plan].failed THEN good[plan] ELSE 0) \in Nat
      BY <3>1, OwnScan, ScanType DEF Rows, TypeOK
    <3> QED BY <1>8, <3>1 DEF Step, TypeOK
  <2> QED BY <1>8, <2>1, <2>2, DatabaseStepType DEF Step, TypeOK
<1>9. CASE UNCHANGED vars
  BY <1>9 DEF vars, dbVars, TypeOK
<1> QED BY <1>1, <1>2, <1>3, <1>4, <1>5, <1>6, <1>7, <1>8, <1>9 DEF Next

-----------------------------------------------------------------------------
(* The writer *)

(* The steps that touch the database.                                      *)
Writes(p) == DatabaseStep(p) \/ StartWrite(p) \/ BeginWrite(p) \/ Write(p)

(* What p does to its connection is nothing to the others.                 *)
LEMMA OthersKept ==
  ASSUME TypeOK, WriterInv, NEW p \in Procs, Writes(p), NEW q \in Procs, q # p
  PROVE  /\ conn'[q] = conn[q] /\ step'[q] = step[q] /\ proc'[q] = proc[q]
         /\ lock' = q <=> lock = q
<1> USE DatabaseAssumption
<1>1. CASE BeginFails(p)
  BY <1>1, EndedType DEF BeginFails, Release, TypeOK
<1>2. CASE Commit(p)
  <2>1. lock = p
    BY <1>2 DEF Commit, WriterInv
  <2> QED BY <1>2, <2>1, EndedType DEF Commit, TypeOK
<1>3. CASE CommitFails(p)
  BY <1>3 DEF CommitFails, Release, TypeOK
<1>4. CASE Rollback(p)
  <2>1. proc'[q] = proc[q]
    BY <1>4, EndedType DEF Rollback
  <2> QED BY <1>4, <2>1 DEF Rollback, Release, TypeOK
<1>5. CASE Open(p) \/ CreateTable(p) \/ OpenReads(p) \/ StartWrite(p)
  BY <1>5 DEF Open, CreateTable, OpenReads, StartWrite, Go, TypeOK
<1>6. CASE ReadVersions(p) \/ OpenFails(p)
  BY <1>6 DEF ReadVersions, OpenFails, TypeOK
<1>7. CASE BeginMigration(p) \/ BeginWrite(p)
  BY <1>7 DEF BeginMigration, BeginWrite, Begin, TypeOK
<1>8. CASE ApplyMigration(p) \/ Write(p)
  BY <1>8 DEF ApplyMigration, Write, Fn, FnFails, TypeOK
<1>9. CASE Stop(p)
  BY <1>9 DEF Stop, Release, TypeOK
<1> QED BY <1>1, <1>2, <1>3, <1>4, <1>5, <1>6, <1>7, <1>8, <1>9 DEF Writes, DatabaseStep

LEMMA WriterNext ==
  ASSUME TypeOK, WriterInv, [Next]_vars
  PROVE  WriterInv'
<1> USE DatabaseAssumption
<1> DEFINE OfWriter(q) ==
      /\ conn[q] = "in" <=> lock = q
      /\ step[q] = "none" => conn[q] = "out"
      /\ step[q] \in {"fn", "commit"} => conn[q] = "in"
      /\ step[q] # "none" =>
            proc[q].pc = "write" \/ (proc[q].pc = "migrate" /\ proc[q].todo # {})
<1>1. ASSUME NEW p \in Procs, Writes(p)
      PROVE  OfWriter(p)'
  <2>0. OfWriter(p)
    BY DEF WriterInv
  <2>1. CASE BeginFails(p)
    BY <2>0, <2>1 DEF BeginFails, Release, TypeOK
  <2>2. CASE Commit(p)
    BY <2>0, <2>2 DEF Commit, TypeOK
  <2>3. CASE CommitFails(p)
    BY <2>0, <2>3 DEF CommitFails, Release, TypeOK
  <2>4. CASE Rollback(p)
    BY <2>0, <2>4 DEF Rollback, Left, Release, TypeOK
  <2>5. CASE Open(p) \/ CreateTable(p) \/ OpenReads(p) \/ StartWrite(p)
    BY <2>0, <2>5 DEF Open, CreateTable, OpenReads, StartWrite, Go, TypeOK
  <2>6. CASE ReadVersions(p) \/ OpenFails(p)
    BY <2>0, <2>6 DEF ReadVersions, OpenFails, TypeOK
  <2>7. CASE BeginMigration(p) \/ BeginWrite(p)
    BY <2>0, <2>7 DEF BeginMigration, BeginWrite, Begin, TypeOK
  <2>8. CASE ApplyMigration(p) \/ Write(p)
    BY <2>0, <2>8 DEF ApplyMigration, Write, Fn, FnFails, TypeOK
  <2>9. CASE Stop(p)
    BY <2>0, <2>9 DEF Stop, Release, TypeOK
  <2> QED BY <1>1, <2>1, <2>2, <2>3, <2>4, <2>5, <2>6, <2>7, <2>8, <2>9
          DEF Writes, DatabaseStep
<1>2. ASSUME NEW p \in Procs, Writes(p), NEW q \in Procs
      PROVE  OfWriter(q)'
  BY <1>1, <1>2, OthersKept DEF WriterInv
<1>3. CASE UNCHANGED dbVars
  BY <1>3 DEF WriterInv, dbVars
<1>4. UNCHANGED dbVars \/ \E p \in Procs : Writes(p)
  BY DEF Next, vars, PlansChange, ListPlans, FetchPlan, ScanEnds, Step, Writes
<1> QED BY <1>2, <1>3, <1>4 DEF WriterInv

-----------------------------------------------------------------------------
(* The migrations *)

LEMMA WholeSame ==
  ASSUME NEW d, NEW e, e.recorded = d.recorded, e.effects = d.effects, Whole(d)
  PROVE  Whole(e)
  BY DEF Whole

(* The next migration makes a longer prefix of a prefix.                   *)
LEMMA AppliedWhole ==
  ASSUME NEW d \in Contents, Whole(d), NEW k \in Nat, k + 1 \in Migrations,
         1 .. k \subseteq d.recorded, k + 1 \notin d.recorded
  PROVE  Whole(Applied(d, k + 1))
<1>1. PICK last \in 0 .. NMigrations : d.recorded = 1 .. last
  BY DEF Whole
<1>2. last = k
  BY <1>1, DatabaseAssumption, IntervalStep
<1>3. k + 1 \in 0 .. NMigrations /\ (1 .. k) \cup {k + 1} = 1 .. (k + 1)
  BY DatabaseAssumption DEF Migrations
<1>4. Applied(d, k + 1).recorded = 1 .. (k + 1)
  <2>1. Applied(d, k + 1).recorded = d.recorded \cup {k + 1}
    BY AppliedType
  <2>2. d.recorded = 1 .. k
    BY <1>1, <1>2
  <2> QED BY <1>3, <2>1, <2>2
<1>5. /\ d.effects \in [Migrations -> Nat]
      /\ Applied(d, k + 1).effects = [d.effects EXCEPT ![k + 1] = d.effects[k + 1] + 1]
  BY AppliedType DEF Contents
<1>6. ASSUME NEW m \in Migrations
      PROVE  Applied(d, k + 1).effects[m] = IF m \in Applied(d, k + 1).recorded THEN 1 ELSE 0
  <2>1. d.effects[m] = IF m \in d.recorded THEN 1 ELSE 0
    BY DEF Whole
  <2>2. Applied(d, k + 1).effects[m] = IF m = k + 1 THEN d.effects[m] + 1 ELSE d.effects[m]
    BY <1>5
  <2>3. Applied(d, k + 1).recorded = d.recorded \cup {k + 1}
    BY AppliedType
  <2> QED BY <2>1, <2>2, <2>3
<1> QED BY <1>3, <1>4, <1>6 DEF Whole

LEMMA WholeAll ==
  ASSUME NEW d, Whole(d), Migrations \subseteq d.recorded
  PROVE  d.recorded = Migrations
<1>1. PICK last \in 0 .. NMigrations : d.recorded = 1 .. last
  BY DEF Whole
<1>2. 1 .. last \subseteq Migrations
  BY DatabaseAssumption DEF Migrations
<1> QED BY <1>1, <1>2

(* Only a COMMIT changes the file, and it takes nothing back.              *)
LEMMA FileGrows ==
  ASSUME TypeOK, WriterInv, MigrationInv, NEW p \in Procs, Writes(p)
  PROVE  /\ file' = file \/ (Commit(p) /\ file' = draft)
         /\ Whole(file)'
         /\ file.recorded \subseteq file'.recorded
         /\ file.recorded = Migrations => file'.recorded = Migrations
<1>1. file' = file \/ (Commit(p) /\ file' = draft)
  BY DEF Writes, DatabaseStep, BeginFails, Commit, CommitFails, Rollback, Open, CreateTable,
         OpenReads, ReadVersions, OpenFails, BeginMigration, BeginWrite, Begin,
         ApplyMigration, Write, Fn, FnFails, Stop, StartWrite
<1>2. Whole(file)' /\ file.recorded \subseteq file'.recorded
  <2>1. Whole(file)
    BY DEF MigrationInv
  <2>2. CASE Commit(p) /\ file' = draft
    <3>1. Whole(draft) /\ file.recorded \subseteq draft.recorded
      BY <2>2 DEF Commit, MigrationInv
    <3> QED BY <2>2, <3>1 DEF Whole
  <2>3. CASE file' = file
    BY <2>1, <2>3 DEF Whole
  <2> QED BY <1>1, <2>2, <2>3
<1>3. file.recorded = Migrations => file'.recorded = Migrations
  <2>1. ASSUME NEW d, Whole(d), Migrations \subseteq d.recorded PROVE d.recorded = Migrations
    BY <2>1, WholeAll
  <2>2. Whole(file')
    BY <1>2 DEF Whole
  <2> QED BY <1>2, <2>1, <2>2
<1> QED BY <1>1, <1>2, <1>3

(* Nobody else writes while a transaction is open.                         *)
LEMMA DraftKept ==
  ASSUME TypeOK, WriterInv, NEW p \in Procs, Writes(p), NEW q \in Procs, q # p, lock = q
  PROVE  file' = file /\ draft' = draft
<1>1. lock # p /\ lock # NoOne /\ step[p] \notin {"fn", "commit"}
  BY DatabaseAssumption DEF WriterInv
<1> QED
  BY <1>1 DEF Writes, DatabaseStep, BeginFails, Commit, CommitFails, Rollback, Open, CreateTable,
         OpenReads, ReadVersions, OpenFails, BeginMigration, BeginWrite, Begin, Release,
         ApplyMigration, Write, Fn, FnFails, Stop, StartWrite

(* When nobody holds the lock, there is no draft.                          *)
LEMMA DraftIsFile ==
  ASSUME TypeOK, WriterInv, MigrationInv, NEW p \in Procs, Writes(p), lock' = NoOne
  PROVE  draft' = file'
<1> USE DatabaseAssumption
<1>1. lock = NoOne => draft = file
  BY DEF MigrationInv
<1>2. step[p] = "fn" => lock = p
  BY DEF WriterInv
<1>3. CASE Commit(p) \/ BeginMigration(p) \/ BeginWrite(p)
  BY <1>3 DEF Commit, BeginMigration, BeginWrite, Begin
<1>4. CASE BeginFails(p) \/ CommitFails(p) \/ Rollback(p) \/ Stop(p)
  BY <1>1, <1>4 DEF BeginFails, CommitFails, Rollback, Stop, Release
<1>5. CASE ApplyMigration(p) \/ Write(p)
  BY <1>2, <1>5 DEF ApplyMigration, Write, Fn, FnFails
<1>6. CASE Open(p) \/ CreateTable(p) \/ OpenReads(p) \/ ReadVersions(p) \/ OpenFails(p)
           \/ StartWrite(p)
  BY <1>1, <1>6 DEF Open, CreateTable, OpenReads, ReadVersions, OpenFails, StartWrite
<1> QED BY <1>3, <1>4, <1>5, <1>6 DEF Writes, DatabaseStep

(* What MigrationInv says of a process.                                    *)
OfMigration(q) ==
    /\ step[q] = "fn" => draft = file
    /\ step[q] = "commit" =>
          /\ Whole(draft) /\ file.recorded \subseteq draft.recorded
          /\ proc[q].pc = "migrate" => FirstOf(proc[q].todo) \in draft.recorded
    /\ proc[q].pc = "migrate" =>
          \E k \in 0 .. NMigrations :
            proc[q].todo = (k + 1) .. NMigrations /\ 1 .. k \subseteq file.recorded
    /\ proc[q].pc \in {"up", "write"} => file.recorded = Migrations

LEMMA MigrationOthers ==
  ASSUME TypeOK, WriterInv, MigrationInv, NEW p \in Procs, Writes(p), NEW q \in Procs, q # p
  PROVE  OfMigration(q)'
<1>1. OfMigration(q)
  BY DEF MigrationInv, OfMigration
<1>2. step'[q] = step[q] /\ proc'[q] = proc[q]
  BY OthersKept
<1>3. step[q] \in {"fn", "commit"} => file' = file /\ draft' = draft
  BY DraftKept DEF WriterInv
<1>4. file.recorded \subseteq file'.recorded
      /\ (file.recorded = Migrations => file'.recorded = Migrations)
  BY FileGrows
<1> QED BY <1>1, <1>2, <1>3, <1>4 DEF OfMigration, Whole

(* A migration is over: the list is one shorter.                           *)
LEMMA MigrationCommitted ==
  ASSUME TypeOK, WriterInv, MigrationInv, NEW p \in Procs, Commit(p), proc[p].pc = "migrate"
  PROVE  /\ proc'[p].pc = "migrate"
         /\ \E k \in 0 .. NMigrations :
              proc'[p].todo = (k + 1) .. NMigrations /\ 1 .. k \subseteq file'.recorded
<1>1. step[p] = "commit" /\ file' = draft /\ Ended(p, TRUE)
  BY DEF Commit
<1>2. proc[p].todo # {}
  BY <1>1 DEF WriterInv
<1>3. PICK k \in Nat :
        /\ k + 1 \in Migrations /\ FirstOf(proc[p].todo) = k + 1
        /\ proc[p].todo = (k + 1) .. NMigrations /\ 1 .. k \subseteq file.recorded
  BY <1>2, FirstOfList
<1>4. proc'[p] = [pc |-> "migrate", todo |-> proc[p].todo \ {k + 1}]
  BY <1>1, <1>3, EndedType
<1>5. k + 1 \in 0 .. NMigrations /\ ((k + 1) .. NMigrations) \ {k + 1} = (k + 2) .. NMigrations
  BY <1>3, DatabaseAssumption DEF Migrations
<1>6. 1 .. (k + 1) \subseteq file'.recorded
  <2>1. k + 1 \in draft.recorded /\ file.recorded \subseteq draft.recorded
    BY <1>1, <1>3 DEF MigrationInv
  <2>2. 1 .. (k + 1) = (1 .. k) \cup {k + 1}
    BY <1>3
  <2> QED BY <1>1, <1>3, <2>1, <2>2
<1> QED BY <1>3, <1>4, <1>5, <1>6

(* A migration has run in a transaction that started from the file.        *)
LEMMA MigrationApplied ==
  ASSUME TypeOK, WriterInv, MigrationInv, NEW p \in Procs, ApplyMigration(p),
         step'[p] = "commit"
  PROVE  /\ Whole(draft') /\ file.recorded \subseteq draft'.recorded
         /\ FirstOf(proc[p].todo) \in draft'.recorded
<1>1. proc[p].pc = "migrate" /\ proc[p].todo # {} /\ step[p] = "fn"
  BY DEF ApplyMigration, Fn, FnFails
<1>2. draft = file /\ Whole(file) /\ draft \in Contents
  BY <1>1 DEF MigrationInv, TypeOK
<1>3. PICK k \in Nat :
        /\ k + 1 \in Migrations /\ FirstOf(proc[p].todo) = k + 1
        /\ 1 .. k \subseteq file.recorded
  BY <1>1, FirstOfList
<1>4. Accepts(draft, k + 1) /\ draft' = Applied(draft, k + 1)
  BY <1>3 DEF ApplyMigration, Fn, FnFails, TypeOK
<1>5. k + 1 \notin draft.recorded
  BY <1>4 DEF Accepts
<1>6. Whole(Applied(draft, k + 1))
  BY <1>2, <1>3, <1>5, AppliedWhole
<1>7. Applied(draft, k + 1).recorded = draft.recorded \cup {k + 1}
  BY <1>2, <1>3, AppliedType
<1> QED BY <1>2, <1>3, <1>4, <1>6, <1>7

LEMMA MigrationOwn ==
  ASSUME TypeOK, WriterInv, MigrationInv, NEW p \in Procs, Writes(p)
  PROVE  OfMigration(p)'
<1>1. OfMigration(p)
  BY DEF MigrationInv, OfMigration
<1>2. proc[p] \in [pc : Phases, todo : SUBSET Migrations]
  BY DEF TypeOK
<1>3. file.recorded \subseteq file'.recorded
      /\ (file.recorded = Migrations => file'.recorded = Migrations)
  BY FileGrows
<1>4. CASE BeginFails(p) \/ Rollback(p)
  <2>1. step'[p] = "none" /\ file' = file /\ Ended(p, FALSE)
    BY <1>4 DEF BeginFails, Rollback, TypeOK
  <2>2. proc[p].pc \in {"migrate", "write"}
    BY <1>4 DEF BeginFails, Rollback, WriterInv
  <2>3. proc'[p].pc \in {"up", "down"} /\ (proc'[p].pc = "up" => proc[p].pc = "write")
    <3>1. proc[p].pc = "write" => proc'[p] = [pc |-> "up", todo |-> proc[p].todo]
      BY <2>1, EndedType
    <3>2. proc[p].pc = "migrate" => proc'[p] = [pc |-> "down", todo |-> {}]
      BY <2>1, EndedType DEF Down
    <3> QED BY <2>2, <3>1, <3>2
  <2> QED BY <1>1, <2>1, <2>3 DEF OfMigration
<1>5. CASE Commit(p)
  <2>1. step'[p] = "none" /\ Ended(p, TRUE) /\ step[p] = "commit"
    BY <1>5 DEF Commit, TypeOK
  <2>2. CASE proc[p].pc = "migrate"
    BY <1>5, <2>1, <2>2, MigrationCommitted DEF OfMigration
  <2>3. CASE proc[p].pc = "write"
    <3>1. proc'[p] = [pc |-> "up", todo |-> proc[p].todo]
      BY <2>1, <2>3, EndedType
    <3> QED BY <1>1, <1>3, <2>1, <2>3, <3>1 DEF OfMigration
  <2> QED BY <2>1, <2>2, <2>3 DEF WriterInv
<1>6. CASE CommitFails(p)
  BY <1>1, <1>6 DEF CommitFails, OfMigration, TypeOK
<1>7. CASE Open(p) \/ CreateTable(p)
  <2>1. step[p] = "none" /\ UNCHANGED step
    BY <1>7 DEF Open, CreateTable, WriterInv, TypeOK
  <2>2. PICK pc \in {"create", "read"} : Go(p, pc)
    BY <1>7 DEF Open, CreateTable
  <2>3. proc'[p] = [pc |-> pc, todo |-> proc[p].todo]
    BY <2>2, GoType DEF Phases
  <2> QED BY <2>1, <2>2, <2>3 DEF OfMigration
<1>8. CASE OpenReads(p)
  <2>1. PICK k \in 0 .. NMigrations :
          (k + 1) .. NMigrations = {} /\ 1 .. k \subseteq file.recorded
    BY <1>1, <1>8 DEF OpenReads, OfMigration
  <2>2. k = NMigrations
    BY <2>1, DatabaseAssumption
  <2>3. file.recorded = Migrations
    BY <2>1, <2>2, WholeAll DEF Migrations, MigrationInv
  <2>4. step'[p] = "none" /\ file' = file /\ Go(p, "up")
    BY <1>8 DEF OpenReads
  <2>5. proc'[p] = [pc |-> "up", todo |-> proc[p].todo]
    BY <2>4, GoType DEF Phases
  <2> QED BY <2>3, <2>4, <2>5 DEF OfMigration
<1>9. CASE StartWrite(p)
  <2>1. step[p] = "none" /\ UNCHANGED <<file, step>> /\ proc[p].pc = "up"
    BY <1>9 DEF StartWrite, WriterInv, TypeOK
  <2>2. proc'[p] = [pc |-> "write", todo |-> proc[p].todo]
    BY <1>9, GoType DEF StartWrite, Phases
  <2> QED BY <1>1, <2>1, <2>2 DEF OfMigration
<1>10. CASE ReadVersions(p)
  <2>1. step[p] = "none" /\ UNCHANGED <<file, step>>
    BY <1>10 DEF ReadVersions, WriterInv, TypeOK
  <2>2. proc'[p] = [pc |-> "migrate", todo |-> Migrations \ file.recorded]
    BY <1>10 DEF ReadVersions, TypeOK
  <2>3. PICK last \in 0 .. NMigrations : file.recorded = 1 .. last
    BY DEF MigrationInv, Whole
  <2>4. Migrations \ file.recorded = (last + 1) .. NMigrations
    BY <2>3, DatabaseAssumption DEF Migrations
  <2> QED BY <2>1, <2>2, <2>3, <2>4 DEF OfMigration
<1>11. CASE OpenFails(p)
  <2>1. step[p] = "none" /\ UNCHANGED step
    BY <1>11 DEF OpenFails, WriterInv, TypeOK
  <2>2. proc'[p].pc = "down"
    BY <1>11, DownProc DEF OpenFails, Down
  <2> QED BY <2>1, <2>2 DEF OfMigration
<1>12. CASE BeginMigration(p) \/ BeginWrite(p)
  <2>1. draft = file
    BY <1>12 DEF BeginMigration, BeginWrite, Begin, MigrationInv
  <2> QED BY <1>1, <1>12, <2>1 DEF BeginMigration, BeginWrite, Begin, OfMigration, TypeOK
<1>13. CASE ApplyMigration(p)
  <2>1. UNCHANGED <<file, proc>> /\ step'[p] \in {"commit", "rollback"}
    BY <1>13 DEF ApplyMigration, Fn, FnFails, TypeOK
  <2>2. step'[p] = "commit" =>
          /\ Whole(draft)' /\ file.recorded \subseteq draft'.recorded
          /\ FirstOf(proc[p].todo) \in draft'.recorded
    BY <1>13, MigrationApplied DEF Whole
  <2> QED BY <1>1, <2>1, <2>2 DEF OfMigration
<1>14. CASE Write(p)
  <2>1. UNCHANGED <<file, proc>> /\ step'[p] \in {"commit", "rollback"} /\ step[p] = "fn"
        /\ proc[p].pc = "write"
    BY <1>14 DEF Write, Fn, FnFails, TypeOK
  <2>2. draft = file /\ Whole(draft)
    BY <2>1 DEF MigrationInv
  <2>3. draft'.recorded = draft.recorded /\ draft'.effects = draft.effects
    BY <1>14, WriteType
  <2>4. Whole(draft)'
    BY <2>2, <2>3 DEF Whole
  <2> QED BY <1>1, <2>1, <2>2, <2>3, <2>4 DEF OfMigration
<1>15. CASE Stop(p)
  <2>1. step'[p] = "none" /\ proc'[p].pc = "down"
    BY <1>15, DownProc DEF Stop, Down, TypeOK
  <2> QED BY <2>1 DEF OfMigration
<1> QED BY <1>4, <1>5, <1>6, <1>7, <1>8, <1>9, <1>10, <1>11, <1>12, <1>13, <1>14, <1>15
        DEF Writes, DatabaseStep

LEMMA MigrationNext ==
  ASSUME TypeOK, WriterInv, MigrationInv, [Next]_vars
  PROVE  MigrationInv'
<1>1. ASSUME NEW p \in Procs, Writes(p)
      PROVE  MigrationInv'
  <2>1. Whole(file)' /\ (lock' = NoOne => draft' = file')
    BY <1>1, FileGrows, DraftIsFile
  <2>2. ASSUME NEW q \in Procs PROVE OfMigration(q)'
    BY <1>1, MigrationOwn, MigrationOthers
  <2> QED BY <2>1, <2>2 DEF OfMigration, MigrationInv
<1>2. CASE UNCHANGED dbVars
  BY <1>2 DEF MigrationInv, Whole, dbVars
<1>3. UNCHANGED dbVars \/ \E p \in Procs : Writes(p)
  BY DEF Next, vars, PlansChange, ListPlans, FetchPlan, ScanEnds, Step, Writes
<1> QED BY <1>1, <1>2, <1>3

-----------------------------------------------------------------------------
(* The verdicts *)

(* What VerdictIsLastGoodScan says of a plan.                              *)
Stands(plan, row, time) ==
    IF time = 0 THEN row.has = "none" ELSE row.at = time /\ row.has = past[time][plan]

(* The time of the last good scan once this one is stored.                 *)
NewTime(plan) ==
    IF scan.rows[plan].has # "none" THEN scan.rows[plan].at
    ELSE IF scan.rows[plan].failed THEN good[plan] ELSE 0

LEMMA NotAnAnswer == "none" \notin Answer
  BY DEF Answer

(* History does not change.                                                *)
LEMMA PastKept ==
  ASSUME TypeOK, PlansChange
  PROVE  /\ Now' = Now + 1 /\ Now \in Nat
         /\ \A time \in 1 .. Now : past'[time] = past[time]
<1>1. PICK plan \in Plans, a \in Answer : past' = Append(past, [past[Now] EXCEPT ![plan] = a])
  BY DEF PlansChange
<1>2. past \in Seq([Plans -> Answer]) /\ [past[Now] EXCEPT ![plan] = a] \in [Plans -> Answer]
  BY NowType DEF TypeOK
<1> QED BY <1>1, <1>2 DEF Now

(* A row of a scan replaces the plan's old one as the history says.        *)
LEMMA ReplacedStands ==
  ASSUME TypeOK, ScanInv, NEW p \in Procs, scan.by = p, NEW plan \in Plans
  PROVE  /\ Stands(plan, Replaced(file.rows)[plan], NewTime(plan))
         /\ NewTime(plan) \in 0 .. Now
<1> DEFINE new == scan.rows[plan]
           old == file.rows[plan]
<1>1. /\ new \in [has : Answer \cup {"none"}, failed : BOOLEAN, at : Nat]
      /\ Fetched(plan, new)
  BY OwnScan, ScanType DEF ScanInv, Rows
<1>2. old \in [has : Answer \cup {"none"}, failed : BOOLEAN, at : Nat]
  BY DEF TypeOK, Contents, Rows
<1>3. Stands(plan, old, good[plan]) /\ good[plan] \in 0 .. Now
  BY DEF ScanInv, VerdictIsLastGoodScan, Stands
<1>4. Replaced(file.rows)[plan] = IF new = NoRow THEN NoRow ELSE Upserted(old, new)
  BY DEF Replaced
<1>5. Now \in Nat \ {0} /\ \A time \in 1 .. Now : past[time][plan] \in Answer
  BY NowType DEF TypeOK, Now
<1> HIDE DEF new, old
<1>6. CASE new.has # "none"
  <2>1. new.at \in 1 .. Now /\ new.has = past[new.at][plan] /\ ~ new.failed
    BY <1>1, <1>6 DEF Fetched
  <2>2. new # NoRow
    BY <1>6 DEF NoRow
  <2>3. Replaced(file.rows)[plan] = new
    BY <1>4, <2>1, <2>2 DEF Upserted
  <2>4. NewTime(plan) = new.at
    BY <1>6 DEF NewTime, new
  <2> QED BY <1>5, <2>1, <2>3, <2>4 DEF Stands
<1>7. CASE new.has = "none" /\ new.failed
  <2>1. new # NoRow
    BY <1>1, <1>7 DEF NoRow
  <2>2. NewTime(plan) = good[plan]
    BY <1>7 DEF NewTime, new
  <2>3. CASE old = NoRow
    <3>1. good[plan] = 0
      BY <1>3, <1>5, <2>3, NotAnAnswer DEF Stands, NoRow
    <3> QED BY <1>3, <1>4, <1>7, <2>1, <2>2, <2>3, <3>1 DEF Stands, Upserted
  <2>4. CASE old # NoRow
    <3>1. Replaced(file.rows)[plan] = [old EXCEPT !.failed = TRUE]
      BY <1>4, <1>7, <2>1, <2>4 DEF Upserted
    <3>2. Replaced(file.rows)[plan].has = old.has /\ Replaced(file.rows)[plan].at = old.at
      BY <1>2, <3>1
    <3> QED BY <1>3, <2>2, <3>2 DEF Stands
  <2> QED BY <2>3, <2>4
<1>8. CASE new.has = "none" /\ ~ new.failed
  <2>1. NewTime(plan) = 0
    BY <1>8 DEF NewTime, new
  <2>2. Replaced(file.rows)[plan].has = "none"
    BY <1>4, <1>8 DEF Upserted, NoRow
  <2> QED BY <1>5, <2>1, <2>2 DEF Stands
<1> QED BY <1>1, <1>6, <1>7, <1>8

(* The stored verdicts, whatever a process does with the database.         *)
LEMMA StepVerdicts ==
  ASSUME TypeOK, WriterInv, MigrationInv, ScanInv, NEW p \in Procs, Step(p)
  PROVE  \A plan \in Plans :
           Stands(plan, file'.rows[plan], good'[plan]) /\ good'[plan] \in 0 .. Now
<1>1. \A plan \in Plans : Stands(plan, file.rows[plan], good[plan]) /\ good[plan] \in 0 .. Now
  BY DEF ScanInv, VerdictIsLastGoodScan, Stands
<1>2. CASE Commit(p) /\ scan.by = p
  <2>1. step[p] = "commit" /\ file' = draft /\ Ended(p, TRUE)
    BY <1>2 DEF Commit
  <2>2. proc[p].pc = "write"
    BY <1>2, <2>1, OwnScan DEF ScanInv, WriterInv
  <2>3. proc'[p] = [pc |-> "up", todo |-> proc[p].todo]
    BY <2>1, <2>2, EndedType
  <2>4. good' = [plan \in Plans |-> NewTime(plan)]
    BY <1>2, <2>1, <2>3 DEF Step, NewTime
  <2>5. file'.rows = Replaced(file.rows)
    BY <1>2, <2>1 DEF ScanInv
  <2> QED BY <1>2, <2>4, <2>5, ReplacedStands
<1>3. CASE Commit(p) /\ scan.by # p
  <2>1. file'.rows = file.rows
    BY <1>3 DEF Commit, ScanInv
  <2>2. good' = good
    BY <1>3 DEF Step
  <2> QED BY <1>1, <2>1, <2>2
<1>4. CASE ~ Commit(p)
  <2>1. file' = file
    BY <1>4, FileGrows DEF Step, Writes
  <2>2. step[p] = "commit" => CommitFails(p) \/ Stop(p)
    BY <1>4 DEF Step, DatabaseStep, BeginFails, Rollback, BeginMigration, Begin,
                ApplyMigration, Fn, FnFails, OpenReads, Open, CreateTable, ReadVersions,
                OpenFails, WriterInv
  <2>3. step[p] = "commit" => proc'[p].pc # "up"
    <3>1. CASE CommitFails(p)
      BY <3>1 DEF CommitFails, WriterInv
    <3>2. CASE Stop(p)
      BY <3>2, DownProc DEF Stop, Down
    <3> QED BY <2>2, <3>1, <3>2
  <2>4. good' = good
    BY <2>3 DEF Step
  <2> QED BY <1>1, <2>1, <2>4
<1> QED BY <1>2, <1>3, <1>4

(* Between the steps of a scan that touch no row of the file, the verdicts *)
(* stand.                                                                  *)
LEMMA VerdictsStand ==
  ASSUME ScanInv, UNCHANGED <<file, past, good>>
  PROVE  /\ VerdictIsLastGoodScan'
         /\ \A plan \in Plans : good'[plan] \in 0 .. Now'
  BY DEF ScanInv, VerdictIsLastGoodScan, Now

(* A process that is up is in no transaction.                              *)
LEMMA UpIsIdle ==
  ASSUME WriterInv, NEW p \in Procs, proc[p].pc = "up"
  PROVE  step[p] = "none"
  BY DEF WriterInv

LEMMA ScanNext ==
  ASSUME TypeOK, WriterInv, MigrationInv, ScanInv, [Next]_vars
  PROVE  ScanInv'
<1>1. CASE PlansChange
  <2>1. UNCHANGED <<file, draft, proc, step, scan, good>>
    BY <1>1 DEF PlansChange, dbVars
  <2>2. /\ Now' = Now + 1 /\ Now \in Nat
        /\ \A time \in 1 .. Now : past'[time] = past[time]
    BY <1>1, PastKept
  <2>3. \A plan \in Plans : good'[plan] \in 0 .. Now'
    BY <2>1, <2>2 DEF ScanInv
  <2>4. VerdictIsLastGoodScan'
    <3>1. ASSUME NEW plan \in Plans, good[plan] # 0 PROVE past'[good[plan]] = past[good[plan]]
      BY <2>2, <3>1 DEF ScanInv
    <3> QED BY <2>1, <3>1 DEF ScanInv, VerdictIsLastGoodScan
  <2>5. ASSUME scan # NoScan, NEW plan \in Plans PROVE Fetched(plan, scan.rows[plan])'
    <3>1. Fetched(plan, scan.rows[plan])
      BY <2>5 DEF ScanInv
    <3> QED BY <2>1, <2>2, <3>1 DEF Fetched
  <2> QED BY <2>1, <2>3, <2>4, <2>5 DEF ScanInv, Replaced
<1>2. ASSUME NEW p \in Scanners, ListPlans(p)
      PROVE  ScanInv'
  <2>1. p \in Procs /\ UNCHANGED <<dbVars, past, good>>
    BY <1>2, ScanAssumption DEF ListPlans
  <2>2. scan'.by = p /\ scan'.rows = NothingStored /\ proc[p].pc = "up" /\ scan.by = NoOne
    BY <1>2 DEF ListPlans, NoScan
  <2>3. step[p] = "none"
    BY <2>1, <2>2, UpIsIdle
  <2>4. \A plan \in Plans : Fetched(plan, scan.rows[plan])'
    BY <2>2 DEF NothingStored, NoRow, Fetched
  <2>5. \A q \in Procs : step[q] = "commit" => draft.rows = file.rows /\ scan'.by # q
    BY <2>2, <2>3, DatabaseAssumption DEF ScanInv
  <2> QED BY <2>1, <2>2, <2>4, <2>5, VerdictsStand DEF ScanInv, dbVars
<1>3. ASSUME NEW p \in Scanners, FetchPlan(p)
      PROVE  ScanInv'
  <2>1. p \in Procs /\ UNCHANGED <<dbVars, past, good>> /\ proc[p].pc = "up" /\ scan.by = p
    BY <1>3, ScanAssumption DEF FetchPlan
  <2>2. scan # NoScan /\ scan \in [by : Scanners, todo : SUBSET Plans, rows : Rows]
    BY <2>1, OwnScan, ScanType
  <2>3. \E plan \in scan.todo :
        \E row \in {Failed} \cup (IF past[Now][plan] = "gone" THEN {} ELSE {Good(plan)}) :
          scan' = [scan EXCEPT !.todo = scan.todo \ {plan}, !.rows[plan] = row]
    BY <1>3 DEF FetchPlan
  <2>4. PICK plan \in Plans :
        \E row \in {Failed} \cup (IF past[Now][plan] = "gone" THEN {} ELSE {Good(plan)}) :
          scan' = [scan EXCEPT !.todo = scan.todo \ {plan}, !.rows[plan] = row]
    BY <2>2, <2>3
  <2>5. PICK row \in {Failed, Good(plan)} :
          scan' = [scan EXCEPT !.todo = scan.todo \ {plan}, !.rows[plan] = row]
    BY <2>4
  <2>6. scan' = [by |-> scan.by, todo |-> scan.todo \ {plan},
                 rows |-> [scan.rows EXCEPT ![plan] = row]]
    BY <2>2, <2>5
  <2>7. Fetched(plan, row)
    <3>1. row = Failed \/ row = Good(plan)
      OBVIOUS
    <3>2. Now \in 1 .. Now
      BY NowType
    <3> QED BY <3>1, <3>2 DEF Fetched, Failed, Good
  <2>8. ASSUME NEW other \in Plans PROVE Fetched(other, scan.rows[other])'
    <3>1. Fetched(other, scan.rows[other])
      BY <2>2 DEF ScanInv
    <3>2. scan'.rows[other] = IF other = plan THEN row ELSE scan.rows[other]
      BY <2>2, <2>6 DEF Rows
    <3> QED BY <2>1, <2>7, <3>1, <3>2 DEF Fetched, Now
  <2>9. scan'.by = p /\ step[p] = "none"
    BY <2>1, <2>6, UpIsIdle
  <2>10. \A q \in Procs : step[q] = "commit" => draft.rows = file.rows /\ scan'.by # q
    BY <2>1, <2>9 DEF ScanInv
  <2> QED BY <2>1, <2>8, <2>9, <2>10, VerdictsStand DEF ScanInv, dbVars
<1>4. ASSUME NEW p \in Scanners, ScanEnds(p)
      PROVE  ScanInv'
  <2>1. p \in Procs /\ UNCHANGED <<dbVars, past, good>> /\ proc[p].pc = "up" /\ scan.by = p
    BY <1>4, ScanAssumption DEF ScanEnds
  <2>2. scan' = NoScan /\ scan'.by = NoOne /\ step[p] = "none"
    BY <1>4, <2>1, UpIsIdle DEF ScanEnds, NoScan
  <2>3. \A q \in Procs : step[q] = "commit" => draft.rows = file.rows /\ scan'.by # q
    BY <2>1, <2>2, DatabaseAssumption DEF ScanInv
  <2> QED BY <2>1, <2>2, <2>3, VerdictsStand DEF ScanInv, dbVars
<1>5. ASSUME NEW p \in Procs, StartWrite(p)
      PROVE  ScanInv'
  <2>1. UNCHANGED <<file, draft, step, past, scan, good>> /\ Go(p, "write")
    BY <1>5 DEF StartWrite
  <2>2. proc'[p] = [pc |-> "write", todo |-> proc[p].todo]
        /\ \A q \in Procs : q # p => proc'[q] = proc[q]
    BY <2>1, GoType DEF Phases
  <2>3. scan # NoScan => proc'[scan.by].pc \in {"up", "write"}
    BY <2>2, ScanType DEF ScanInv
  <2> QED BY <2>1, <2>3, VerdictsStand DEF ScanInv, Fetched, Now, Replaced
<1>6. ASSUME NEW p \in Procs, BeginWrite(p)
      PROVE  ScanInv'
  <2>1. UNCHANGED <<file, draft, proc, past, scan, good>>
        /\ \A q \in Procs : step'[q] = "commit" => step[q] = "commit"
    BY <1>6 DEF BeginWrite, Begin, TypeOK
  <2> QED BY <2>1, VerdictsStand DEF ScanInv, Fetched, Now, Replaced
<1>7. ASSUME NEW p \in Procs, Write(p)
      PROVE  ScanInv'
  <2>1. UNCHANGED <<file, proc, past, scan, good>> /\ step[p] = "fn"
    BY <1>7 DEF Write, Fn, FnFails
  <2>2. draft = file
    BY <2>1 DEF MigrationInv
  <2>3. draft'.rows = IF scan.by = p THEN Replaced(file.rows) ELSE file.rows
    BY <1>7, <2>2, WriteType
  <2>4. ASSUME NEW q \in Procs, q # p PROVE step'[q] # "commit"
    BY <1>7, <2>1, <2>4, OthersKept DEF WriterInv, Writes
  <2> QED BY <2>1, <2>3, <2>4, VerdictsStand DEF ScanInv, Fetched, Now, Replaced
<1>8. ASSUME NEW p \in Procs, Step(p)
      PROVE  ScanInv'
  <2>1. UNCHANGED past /\ Writes(p) /\ DatabaseStep(p)
    BY <1>8 DEF Step, Writes
  <2>2. scan' = scan \/ (scan' = NoScan /\ scan.by = p)
    BY <1>8 DEF Step
  <2>3. VerdictIsLastGoodScan' /\ \A plan \in Plans : good'[plan] \in 0 .. Now'
    BY <1>8, <2>1, StepVerdicts DEF Stands, VerdictIsLastGoodScan, Now
  <2>4. ASSUME scan' # NoScan PROVE proc'[scan'.by].pc \in {"up", "write"}
    <3>1. scan' = scan /\ proc[scan.by].pc \in {"up", "write"} /\ scan.by \in Procs
      BY <2>2, <2>4, ScanType DEF ScanInv
    <3>2. CASE scan.by = p
      BY <1>8, <2>4, <3>1, <3>2 DEF Step
    <3>3. CASE scan.by # p
      BY <2>1, <3>1, <3>3, OthersKept
    <3> QED BY <3>2, <3>3
  <2>5. ASSUME scan' # NoScan, NEW plan \in Plans PROVE Fetched(plan, scan.rows[plan])'
    <3>1. scan' = scan /\ Fetched(plan, scan.rows[plan])
      BY <2>2, <2>5 DEF ScanInv
    <3> QED BY <2>1, <3>1 DEF Fetched, Now
  <2>6. ASSUME NEW q \in Procs, q # p, step'[q] = "commit"
        PROVE  draft'.rows = (IF scan.by = q THEN Replaced(file.rows) ELSE file.rows)'
    <3>1. step[q] = "commit" /\ lock = q
      BY <2>1, <2>6, OthersKept DEF WriterInv
    <3>2. UNCHANGED <<file, draft>>
      BY <2>1, <2>6, <3>1, DraftKept
    <3>3. scan'.by = q <=> scan.by = q
      BY <2>2, <2>6, DatabaseAssumption DEF NoScan
    <3>4. scan.by = q => scan' = scan
      BY <2>2, <2>6
    <3>5. draft.rows = IF scan.by = q THEN Replaced(file.rows) ELSE file.rows
      BY <3>1 DEF ScanInv
    <3> QED BY <3>2, <3>3, <3>4, <3>5 DEF Replaced
  <2>7. ASSUME step'[p] = "commit"
        PROVE  draft'.rows = (IF scan.by = p THEN Replaced(file.rows) ELSE file.rows)'
    <3>1. ApplyMigration(p) /\ Accepts(draft, FirstOf(proc[p].todo))
          /\ draft' = Applied(draft, FirstOf(proc[p].todo))
      BY <2>1, <2>7 DEF DatabaseStep, BeginFails, Commit, CommitFails, Rollback, Open,
         CreateTable, OpenReads, ReadVersions, OpenFails, BeginMigration, Begin, Stop,
         ApplyMigration, Fn, FnFails, WriterInv, TypeOK
    <3>2. proc[p].pc = "migrate" /\ proc[p].todo # {} /\ step[p] = "fn" /\ file' = file
      BY <3>1 DEF ApplyMigration, Fn, FnFails
    <3>3. draft = file /\ draft \in Contents /\ FirstOf(proc[p].todo) \in Migrations
      BY <3>2, FirstOfList DEF MigrationInv, TypeOK
    <3>4. draft'.rows = file'.rows
      BY <3>1, <3>2, <3>3, AppliedType
    <3>5. scan.by # p
      BY <3>2, OwnScan DEF ScanInv
    <3>6. scan'.by # p
      BY <2>2, <3>5
    <3> QED BY <3>4, <3>6
  <2> QED BY <2>3, <2>4, <2>5, <2>6, <2>7 DEF ScanInv
<1>9. CASE UNCHANGED vars
  BY <1>9, VerdictsStand DEF vars, dbVars, ScanInv, Fetched, Now, Replaced
<1> QED BY <1>1, <1>2, <1>3, <1>4, <1>5, <1>6, <1>7, <1>8, <1>9 DEF Next

-----------------------------------------------------------------------------
LEMMA InitInv == Init => TypeOK /\ WriterInv /\ MigrationInv /\ ScanInv
<1> SUFFICES ASSUME Init PROVE TypeOK /\ WriterInv /\ MigrationInv /\ ScanInv
  OBVIOUS
<1>1. /\ file = [recorded |-> {}, effects |-> [m \in Migrations |-> 0], rows |-> Blank]
      /\ draft = file /\ lock = NoOne /\ conn = [p \in Procs |-> "out"]
      /\ step = [p \in Procs |-> "none"] /\ proc = [p \in Procs |-> Down]
      /\ past = <<[plan \in Plans |-> "no"]>> /\ scan = NoScan
      /\ good = [plan \in Plans |-> 0]
  BY DEF Init, InitDatabase
<1>2. file \in Contents
  BY <1>1, NothingStoredType, BlankAssumption DEF Contents
<1>3. past \in Seq([Plans -> Answer]) /\ past # << >> /\ Now = 1
  <2>1. [plan \in Plans |-> "no"] \in [Plans -> Answer]
    BY DEF Answer
  <2> QED BY <1>1, <2>1 DEF Now
<1>4. TypeOK
  BY <1>1, <1>2, <1>3, DownType DEF TypeOK
<1>5. WriterInv
  BY <1>1, DatabaseAssumption DEF WriterInv
<1>6. Whole(file)
  <2>1. 0 \in 0 .. NMigrations /\ 1 .. 0 = {}
    BY DatabaseAssumption
  <2> QED BY <1>1, <2>1 DEF Whole
<1>7. MigrationInv
  BY <1>1, <1>6 DEF MigrationInv, Down
<1>8. ScanInv
  BY <1>1, <1>3, BlankAssumption DEF ScanInv, VerdictIsLastGoodScan, NothingStored, NoRow
<1> QED BY <1>4, <1>5, <1>7, <1>8

(* The inductive invariant: every writeTx of every process, however it     *)
(* ends, leaves the file between two of its states.                        *)
THEOREM FileInvariant == Spec => [](TypeOK /\ WriterInv /\ MigrationInv /\ ScanInv)
<1>1. TypeOK /\ WriterInv /\ MigrationInv /\ ScanInv /\ [Next]_vars
        => TypeOK' /\ WriterInv' /\ MigrationInv' /\ ScanInv'
  BY TypeNext, WriterNext, MigrationNext, ScanNext
<1> QED BY <1>1, InitInv, PTL DEF Spec

(* Open, writeTx and ReplacePlanScans keep the types.                      *)
THEOREM TypeCorrect == Spec => []TypeOK
  BY FileInvariant, PTL

(* However a writeTx ends, the writer is out of its transaction.           *)
THEOREM WriterIsReleased == Spec => []WriterNeverStuck
<1>1. TypeOK /\ WriterInv => WriterNeverStuck
  BY DEF TypeOK, WriterInv, WriterNeverStuck
<1> QED BY <1>1, FileInvariant, PTL

(* However many processes open the file: one prefix of the migrations took *)
(* effect once, and whoever works with the file has them all.              *)
THEOREM EachMigrationOnce == Spec => []MigratedOnce
<1>1. MigrationInv => MigratedOnce
  BY DEF MigrationInv, Whole, MigratedOnce
<1> QED BY <1>1, FileInvariant, PTL

(* ReplacePlanScans keeps the verdict of the last good scan, and its time. *)
THEOREM VerdictSurvives == Spec => []VerdictIsLastGoodScan
<1>1. ScanInv => VerdictIsLastGoodScan
  BY DEF ScanInv
<1> QED BY <1>1, FileInvariant, PTL
=============================================================================
