---------------------------- MODULE BackupProofs ----------------------------
(***************************************************************************)
(* What holds of the backups for every number of chunks, of backups and of *)
(* backups kept, whatever calls and answers are lost.                      *)
(***************************************************************************)
EXTENDS Backup, FiniteSetTheorems, TLAPS

USE BackupAssumption

-----------------------------------------------------------------------------
(* What a step does to the runs *)

Pcs == {"idle", "check", "begin", "insert", "commit", "close", "prune"}

Jobs == [pc : Pcs, copy : Files, id : (DOMAIN made) \cup {0}, next : Chunks,
         baton : BOOLEAN, lost : BOOLEAN, said : {"nothing", "stored", "ok"}]

LEMMA JobTypes ==
  ASSUME TypeOK
  PROVE  /\ job \in [Runners -> Jobs]
         /\ \A r \in Runners : job[r] \in Jobs
  BY DEF TypeOK, Jobs, Pcs

(* A job with its time stamp, its chunk and what it says kept. *)
Moved(j, pc, baton, lost) ==
    [pc |-> pc, copy |-> j.copy, id |-> j.id, next |-> j.next,
     baton |-> baton, lost |-> lost, said |-> j.said]

LEMMA SetPc ==
  ASSUME TypeOK, NEW r \in Runners, NEW pc, job' = [job EXCEPT ![r].pc = pc]
  PROVE  job' = [job EXCEPT ![r] = Moved(job[r], pc, job[r].baton, job[r].lost)]
<1>1. [job[r] EXCEPT !.pc = pc] = Moved(job[r], pc, job[r].baton, job[r].lost)
  BY JobTypes DEF Jobs, Moved
<1> QED BY <1>1

LEMMA MovedIs ==
  ASSUME TypeOK, NEW j \in Jobs, NEW pc, NEW baton, NEW lost
  PROVE  [[[j EXCEPT !.pc = pc] EXCEPT !.baton = baton] EXCEPT !.lost = lost]
           = Moved(j, pc, baton, lost)
<1>1. [j EXCEPT !.pc = pc] = Moved(j, pc, j.baton, j.lost)
  BY DEF Jobs, Moved
<1>2. [Moved(j, pc, j.baton, j.lost) EXCEPT !.baton = baton] = Moved(j, pc, baton, j.lost)
  BY DEF Moved
<1>3. [Moved(j, pc, baton, j.lost) EXCEPT !.lost = lost] = Moved(j, pc, baton, lost)
  BY DEF Moved
<1> QED BY <1>1, <1>2, <1>3

LEMMA ToldIs ==
  ASSUME TypeOK, NEW r \in Runners, NEW o, NEW good, NEW next
  PROVE  Told(r, o, good, next) =
           [job EXCEPT ![r] =
              Moved(job[r],
                    IF o.ok /\ good THEN next ELSE Failed(Pipeline(job[r].baton, o)),
                    Pipeline(job[r].baton, o),
                    job[r].lost \/ ~ o.answered)]
<1> DEFINE pc == IF o.ok /\ good THEN next ELSE Failed(Pipeline(job[r].baton, o))
           b == Pipeline(job[r].baton, o)
           l == job[r].lost \/ ~ o.answered
<1>1. Told(r, o, good, next) = [job EXCEPT ![r].pc = pc, ![r].baton = b, ![r].lost = l]
  BY JobTypes DEF Told
<1> HIDE DEF pc, b, l
<1>2. [[[job[r] EXCEPT !.pc = pc] EXCEPT !.baton = b] EXCEPT !.lost = l] = Moved(job[r], pc, b, l)
  BY JobTypes, MovedIs
<1>3. [job EXCEPT ![r].pc = pc, ![r].baton = b, ![r].lost = l] = [job EXCEPT ![r] = Moved(job[r], pc, b, l)]
  BY <1>2, JobTypes
<1> QED BY <1>1, <1>3 DEF pc, b, l

LEMMA NewRun ==
  ASSUME NEW copy
  PROVE  [NoJob EXCEPT !.pc = "check", !.copy = copy] =
           [pc |-> "check", copy |-> copy, id |-> 0, next |-> 0,
            baton |-> FALSE, lost |-> FALSE, said |-> "nothing"]
<1>1. ASSUME NEW j \in Jobs
      PROVE  [[j EXCEPT !.pc = "check"] EXCEPT !.copy = copy] =
               [pc |-> "check", copy |-> copy, id |-> j.id, next |-> j.next,
                baton |-> j.baton, lost |-> j.lost, said |-> j.said]
  <2>1. [j EXCEPT !.pc = "check"] = Moved(j, "check", j.baton, j.lost)
    BY DEF Jobs, Moved
  <2>2. [Moved(j, "check", j.baton, j.lost) EXCEPT !.copy = copy] =
               [pc |-> "check", copy |-> copy, id |-> j.id, next |-> j.next,
                baton |-> j.baton, lost |-> j.lost, said |-> j.said]
    BY DEF Moved
  <2> QED BY <2>1, <2>2
<1>2. PICK j : j = NoJob
  OBVIOUS
<1>3. /\ j \in Jobs /\ j.id = 0 /\ j.next = 0 /\ j.baton = FALSE /\ j.lost = FALSE
      /\ j.said = "nothing"
  BY <1>2 DEF NoJob, Jobs, Pcs, Chunks, Files
<1>4. [j EXCEPT !.pc = "check", !.copy = copy] = [[j EXCEPT !.pc = "check"] EXCEPT !.copy = copy]
  OBVIOUS
<1> QED BY <1>1, <1>2, <1>3, <1>4

Dated(j, id) ==
    [pc |-> j.pc, copy |-> j.copy, id |-> id, next |-> j.next,
     baton |-> j.baton, lost |-> j.lost, said |-> j.said]

LEMMA KilledRun ==
  ASSUME NEW id
  PROVE  [NoJob EXCEPT !.id = id, !.lost = TRUE] =
           [pc |-> "idle", copy |-> "good", id |-> id, next |-> 0,
            baton |-> FALSE, lost |-> TRUE, said |-> "nothing"]
<1>1. ASSUME NEW j \in Jobs
      PROVE  [[j EXCEPT !.id = id] EXCEPT !.lost = TRUE] =
               [pc |-> j.pc, copy |-> j.copy, id |-> id, next |-> j.next,
                baton |-> j.baton, lost |-> TRUE, said |-> j.said]
  <2>1. [j EXCEPT !.id = id] = Dated(j, id)
    BY DEF Jobs, Dated
  <2>2. ASSUME NEW lost
        PROVE  [Dated(j, id) EXCEPT !.lost = lost] =
                 [pc |-> j.pc, copy |-> j.copy, id |-> id, next |-> j.next,
                  baton |-> j.baton, lost |-> lost, said |-> j.said]
    BY DEF Dated
  <2> QED BY <2>1, <2>2
<1>2. PICK j : j = NoJob
  OBVIOUS
<1>3. /\ j \in Jobs /\ j.pc = "idle" /\ j.copy = "good" /\ j.next = 0 /\ j.baton = FALSE
      /\ j.said = "nothing"
  BY <1>2 DEF NoJob, Jobs, Pcs, Chunks, Files
<1>4. [j EXCEPT !.id = id, !.lost = TRUE] = [[j EXCEPT !.id = id] EXCEPT !.lost = TRUE]
  OBVIOUS
<1> QED BY <1>1, <1>2, <1>3, <1>4

LEMMA MovedTypes ==
  ASSUME TypeOK, NEW j \in Jobs, NEW pc \in Pcs, NEW baton \in BOOLEAN, NEW lost \in BOOLEAN
  PROVE  Moved(j, pc, baton, lost) \in Jobs
  BY DEF Jobs, Moved

LEMMA Assigned ==
  ASSUME TypeOK, NEW r \in Runners, NEW j \in Jobs, job' = [job EXCEPT ![r] = j]
  PROVE  /\ job'[r] = j
         /\ \A s \in Runners : s # r => job'[s] = job[s]
         /\ job' \in [Runners -> Jobs]
  BY JobTypes

LEMMA OutcomeFacts ==
  ASSUME NEW canRun, NEW o \in Outcomes(canRun)
  PROVE  /\ o.ran => canRun
         /\ o.ok => o.ran /\ o.answered
         /\ o.ran \in BOOLEAN /\ o.answered \in BOOLEAN /\ o.ok \in BOOLEAN /\ o.open \in BOOLEAN
  BY DEF Outcomes

LEMMA PipelineType ==
  ASSUME NEW canRun, NEW o \in Outcomes(canRun), NEW baton \in BOOLEAN
  PROVE  Pipeline(baton, o) \in BOOLEAN /\ Failed(Pipeline(baton, o)) \in {"close", "idle"}
  BY OutcomeFacts DEF Pipeline, Failed

LEMMA Fields ==
  ASSUME TypeOK, NEW r \in Runners
  PROVE  /\ job[r].id \in Nat /\ (job[r].id # 0 => job[r].id \in DOMAIN made)
         /\ job[r].next \in Chunks /\ job[r].next \in Nat
         /\ job[r].baton \in BOOLEAN /\ job[r].lost \in BOOLEAN
         /\ job[r].pc \in Pcs
  BY JobTypes DEF Jobs, TypeOK, Chunks

(* A call that may leave the run further on, or with its stream closed. *)
LEMMA CallDoes ==
  ASSUME TypeOK, NEW r \in Runners, NEW canRun, NEW o \in Outcomes(canRun), NEW good \in BOOLEAN,
         NEW next \in Pcs, job' = Told(r, o, good, next)
  PROVE  /\ job'[r] = Moved(job[r],
                            IF o.ok /\ good THEN next ELSE Failed(Pipeline(job[r].baton, o)),
                            Pipeline(job[r].baton, o), job[r].lost \/ ~ o.answered)
         /\ \A s \in Runners : s # r => job'[s] = job[s]
         /\ job' \in [Runners -> Jobs]
<1> DEFINE pc == IF o.ok /\ good THEN next ELSE Failed(Pipeline(job[r].baton, o))
           b == Pipeline(job[r].baton, o)
           l == job[r].lost \/ ~ o.answered
<1>1. job' = [job EXCEPT ![r] = Moved(job[r], pc, b, l)]
  BY ToldIs
<1>2. pc \in Pcs /\ b \in BOOLEAN /\ l \in BOOLEAN
  BY Fields, PipelineType DEF Pcs
<1> HIDE DEF pc, b, l
<1>3. Moved(job[r], pc, b, l) \in Jobs
  BY <1>2, JobTypes, MovedTypes
<1>4. /\ job'[r] = Moved(job[r], pc, b, l)
      /\ \A s \in Runners : s # r => job'[s] = job[s]
      /\ job' \in [Runners -> Jobs]
  BY <1>1, <1>3, Assigned
<1> QED BY <1>4 DEF pc, b, l

(* Insert's call, which also counts the chunk. *)
LEMMA InsertDoes ==
  ASSUME TypeOK, NEW r \in Runners, NEW canRun, NEW o \in Outcomes(canRun), NEW good \in BOOLEAN,
         NEW last \in BOOLEAN, last <=> Last(job[r].next),
         job' = [Told(r, o, good, IF last THEN "commit" ELSE "insert")
                   EXCEPT ![r].next = IF last THEN @ ELSE @ + 1]
  PROVE  /\ job'[r].pc = IF o.ok /\ good THEN IF last THEN "commit" ELSE "insert"
                         ELSE Failed(Pipeline(job[r].baton, o))
         /\ job'[r].baton = Pipeline(job[r].baton, o)
         /\ job'[r].lost = (job[r].lost \/ ~ o.answered)
         /\ job'[r].next = IF last THEN job[r].next ELSE job[r].next + 1
         /\ job'[r].id = job[r].id /\ job'[r].said = job[r].said
         /\ \A s \in Runners : s # r => job'[s] = job[s]
         /\ job' \in [Runners -> Jobs]
<1> DEFINE pc == IF o.ok /\ good THEN IF last THEN "commit" ELSE "insert"
                 ELSE Failed(Pipeline(job[r].baton, o))
           b == Pipeline(job[r].baton, o)
           l == job[r].lost \/ ~ o.answered
           n == IF last THEN job[r].next ELSE job[r].next + 1
           j == [pc |-> pc, copy |-> job[r].copy, id |-> job[r].id, next |-> n,
                 baton |-> b, lost |-> l, said |-> job[r].said]
<1>1. Told(r, o, good, IF last THEN "commit" ELSE "insert")
        = [job EXCEPT ![r] = Moved(job[r], pc, b, l)]
  BY ToldIs
<1>2. pc \in Pcs /\ b \in BOOLEAN /\ l \in BOOLEAN
  BY Fields, PipelineType DEF Pcs
<1>3. n \in Chunks
  BY Fields DEF Chunks, Last
<1>4. n = IF last THEN Moved(job[r], pc, b, l).next ELSE Moved(job[r], pc, b, l).next + 1
  BY DEF Moved
<1> HIDE DEF pc, b, l, n
<1>5. job' = [[job EXCEPT ![r] = Moved(job[r], pc, b, l)] EXCEPT ![r].next = n]
  BY <1>1, <1>4, JobTypes
<1>6. [Moved(job[r], pc, b, l) EXCEPT !.next = n] = j
  BY DEF Moved
<1>7. job' = [job EXCEPT ![r] = j]
  BY <1>5, <1>6, JobTypes
<1>8. j \in Jobs
  BY <1>2, <1>3, JobTypes DEF Jobs
<1>9. job'[r] = j /\ (\A s \in Runners : s # r => job'[s] = job[s]) /\ job' \in [Runners -> Jobs]
  BY <1>7, <1>8, Assigned
<1> QED BY <1>9 DEF pc, b, l, n

-----------------------------------------------------------------------------
(* Sets of backups *)

LEMMA FiniteBackups ==
  ASSUME NEW m \in Seq(Files), NEW E \in SUBSET (DOMAIN m) PROVE IsFiniteSet(E)
  BY FS_Interval, FS_Subset

(* More backups stored leave no fewer newer than b. *)
LEMMA Newer ==
  ASSUME NEW F, IsFiniteSet(F), NEW E \in SUBSET F, NEW b
  PROVE  /\ Cardinality({c \in E : c > b}) <= Cardinality({c \in F : c > b})
         /\ Cardinality({c \in E : c > b}) \in Nat
         /\ Cardinality({c \in F : c > b}) \in Nat
<1>1. {c \in F : c > b} \in SUBSET F /\ {c \in E : c > b} \in SUBSET {c \in F : c > b}
  OBVIOUS
<1>2. IsFiniteSet({c \in F : c > b})
  BY <1>1, FS_Subset
<1> QED BY <1>1, <1>2, FS_Subset, FS_CardinalityType

(* A listed backup has at most NChunks chunks. *)
LEMMA ListedChunks ==
  ASSUME TypeOK, NEW b
  PROVE  Cardinality({row \in rows : row[1] = b}) \in 0 .. NChunks
<1> DEFINE f == [c \in Chunks |-> <<b, c>>]
           S == {f[c] : c \in Chunks}
           T == {row \in rows : row[1] = b}
<1>1. IsFiniteSet(Chunks) /\ Cardinality(Chunks) = NChunks
  BY FS_Interval DEF Chunks
<1>2. f \in Surjection(Chunks, S)
  BY DEF Surjection
<1>3. IsFiniteSet(S) /\ Cardinality(S) <= NChunks
  BY <1>1, <1>2, FS_Surjection
<1>4. T \in SUBSET S
  BY DEF TypeOK
<1>5. IsFiniteSet(T) /\ Cardinality(T) <= Cardinality(S)
  BY <1>3, <1>4, FS_Subset
<1>6. Cardinality(T) \in Nat /\ Cardinality(S) \in Nat
  BY <1>3, <1>5, FS_CardinalityType
<1> QED BY <1>3, <1>5, <1>6

(* A prune keeps a backup whole or drops it whole, and drops none that has *)
(* fewer than Keep newer ones.                                             *)
LEMMA SparedFacts ==
  ASSUME TypeOK, Stored(rows) \subseteq ever
  PROVE  /\ Spared(rows) \subseteq rows
         /\ Stored(Spared(rows)) \subseteq Stored(rows)
         /\ \A b \in Stored(Spared(rows)) : \A c : <<b, c>> \in rows => <<b, c>> \in Spared(rows)
         /\ \A b \in Stored(rows) \ Stored(Spared(rows)) : Cardinality({c \in ever : c > b}) >= Keep
<1>1. Spared(rows) \subseteq rows
  BY DEF Spared
<1>2. Stored(Spared(rows)) \subseteq Stored(rows)
  BY <1>1 DEF Stored
<1>3. ASSUME NEW b \in Stored(Spared(rows)), NEW c, <<b, c>> \in rows PROVE <<b, c>> \in Spared(rows)
  <2>1. PICK row \in Spared(rows) : row[1] = b
    BY DEF Stored
  <2>2. Cardinality({d \in Stored(rows) : d > row[1]}) < Keep
    BY <2>1 DEF Spared
  <2>3. <<b, c>>[1] = b
    OBVIOUS
  <2>4. Cardinality({d \in Stored(rows) : d > b}) < Keep
    BY <2>1, <2>2
  <2> QED BY <1>3, <2>3, <2>4 DEF Spared
<1>4. ASSUME NEW b \in Stored(rows) \ Stored(Spared(rows))
      PROVE  Cardinality({c \in ever : c > b}) >= Keep
  <2>1. PICK row \in rows : row[1] = b
    BY DEF Stored
  <2>2. row \notin Spared(rows)
    BY <1>4, <2>1 DEF Stored
  <2>3. ~ (Cardinality({d \in Stored(rows) : d > b}) < Keep)
    BY <2>1, <2>2 DEF Spared
  <2>4. IsFiniteSet(ever)
    BY FiniteBackups DEF TypeOK
  <2>5. /\ Cardinality({d \in Stored(rows) : d > b}) <= Cardinality({c \in ever : c > b})
        /\ Cardinality({d \in Stored(rows) : d > b}) \in Nat
        /\ Cardinality({c \in ever : c > b}) \in Nat
    BY <2>4, Newer
  <2> QED BY <2>3, <2>5
<1> QED BY <1>1, <1>2, <1>3, <1>4

-----------------------------------------------------------------------------
(* What keeps the invariant *)

Whole(b, rs) == {b} \X Chunks \subseteq rs
Survives(b, rs, ev) == Whole(b, rs) \/ Cardinality({c \in ev : c > b}) >= Keep

LEMMA RestoreKept ==
  ASSUME TypeOK, RestoreInv, UNCHANGED restore, ever \subseteq ever', IsFiniteSet(ever')
  PROVE  RestoreInv'
<1>1. Keep \in Nat /\ /\ Cardinality({b \in ever : b > restore.id}) \in Nat
                      /\ Cardinality({b \in ever' : b > restore.id}) \in Nat
                      /\ Cardinality({b \in ever : b > restore.id}) <= Cardinality({b \in ever' : b > restore.id})
  BY Newer
<1> QED BY <1>1 DEF RestoreInv, MissingOnlyIfOutlived

(* A runner's step: the others' runs, and whatever it leaves alone.        *)
LEMMA RunnerKeeps ==
  ASSUME TypeOK, BackupInv, NEW r \in Runners,
         UNCHANGED <<made, restore>>,
         \A s \in Runners : s # r => job'[s] = job[s],
         job'[r].id \in {0, job[r].id},
         ever' \subseteq DOMAIN made,
         ever' = ever \/ (job[r].id # 0 /\ ever' = ever \cup {job[r].id}),
         txn' \in {txn, NoTxn} \/ (job[r].id # 0 /\ txn'.id = job[r].id),
         RunInv(job[r])',
         txn'.id # 0 => made[txn'.id] = "good" /\ txn'.id \notin ever',
         txn'.id # 0 /\ txn'.id = job'[r].id =>
            /\ job'[r].pc = "insert" => txn'.rows = {txn'.id} \X (0 .. job'[r].next - 1)
            /\ job'[r].pc = "commit" => txn'.rows = {txn'.id} \X Chunks,
         \/ UNCHANGED <<rows, ever>>
         \/ /\ Stored(rows') \subseteq ever'
            /\ \A b \in Stored(rows') : Whole(b, rows') /\ made[b] = "good"
            /\ \A b \in ever' : Survives(b, rows', ever')
  PROVE  BackupInv'
<1> USE DEF BackupInv
<1>1. \A s, t \in Runners : job[s].id # 0 /\ job[s].id = job[t].id => s = t
  BY DEF OwnStamps
<1>2. \A s \in Runners : job'[s].id \in {0, job[s].id}
  OBVIOUS
<1>3. OwnStamps'
  BY <1>1, <1>2 DEF OwnStamps
<1>4. NoTxn.id = 0
  BY DEF NoTxn
<1>5. ASSUME NEW s \in Runners, s # r
      PROVE  /\ RunInv(job[s])'
             /\ txn'.id # 0 /\ txn'.id = job'[s].id =>
                  /\ job'[s].pc = "insert" => txn'.rows = {txn'.id} \X (0 .. job'[s].next - 1)
                  /\ job'[s].pc = "commit" => txn'.rows = {txn'.id} \X Chunks
  <2>1. job'[s] = job[s] /\ RunInv(job[s])
    BY <1>5
  <2>2. job[s].id # 0 => job[s].id # job[r].id
    BY <1>1, <1>5
  <2>3. job[s].id # 0 /\ txn'.id = job[s].id => txn' = txn
    BY <1>4, <2>2
  <2>4. job[s].id # 0 /\ job[s].id \notin ever => job[s].id \notin ever'
    BY <2>2
  <2>5. ever \subseteq ever'
    OBVIOUS
  <2>6. RunInv(job[s])'
    BY <2>1, <2>3, <2>4, <2>5 DEF RunInv
  <2>7. txn.id # 0 /\ txn.id = job[s].id =>
           /\ job[s].pc = "insert" => txn.rows = {txn.id} \X (0 .. job[s].next - 1)
           /\ job[s].pc = "commit" => txn.rows = {txn.id} \X Chunks
    BY DEF TxnInv
  <2> QED BY <2>1, <2>3, <2>6, <2>7
<1>6. \A s \in Runners : RunInv(job[s])'
  BY <1>5
<1>7. TxnInv'
  BY <1>5 DEF TxnInv
<1>8. IsFiniteSet(ever')
  BY FiniteBackups DEF TypeOK
<1>9. RestoreInv'
  BY <1>8, RestoreKept
<1>10. /\ Stored(rows') \subseteq ever'
       /\ \A b \in Stored(rows') : Whole(b, rows') /\ made[b] = "good"
       /\ \A b \in ever' : Survives(b, rows', ever')
  <2>1. CASE UNCHANGED <<rows, ever>>
    BY <2>1 DEF StoredInv, OnlyWholeGoodBackups, NewestKeepSurvive, Whole, Survives
  <2>2. CASE ~ UNCHANGED <<rows, ever>>
    BY <2>2
  <2> QED BY <2>1, <2>2
<1>11. OnlyWholeGoodBackups' /\ Stored(rows)' \subseteq ever'
  BY <1>10 DEF OnlyWholeGoodBackups, Whole, Stored
<1>12. NewestKeepSurvive'
  <2>1. \A s \in Runners : job'[s].said # "nothing" => job'[s].id \in ever'
    BY <1>6 DEF RunInv
  <2>2. ASSUME NEW b \in ever' \cup {job'[s].id : s \in {t \in Runners : job'[t].said # "nothing"}}
        PROVE  b \in ever'
    BY <2>1, <2>2
  <2>3. ASSUME NEW b \in ever' \cup {job'[s].id : s \in {t \in Runners : job'[t].said # "nothing"}}
        PROVE  {b} \X Chunks \subseteq rows' \/ Cardinality({c \in ever' : c > b}) >= Keep
    BY <1>10, <2>2, <2>3 DEF Whole, Survives
  <2> QED BY <2>3 DEF NewestKeepSurvive
<1> QED BY <1>3, <1>6, <1>7, <1>9, <1>11, <1>12 DEF StoredInv

(* A step of nobody's run. *)
LEMMA QuietKeeps ==
  ASSUME TypeOK, BackupInv, UNCHANGED <<made, rows, job, ever>>, txn' \in {txn, NoTxn}, RestoreInv'
  PROVE  BackupInv'
<1> USE DEF BackupInv
<1>1. NoTxn.id = 0
  BY DEF NoTxn
<1>2. \A r \in Runners : RunInv(job[r])'
  BY <1>1 DEF RunInv
<1>3. TxnInv'
  BY <1>1 DEF TxnInv
<1>4. OwnStamps'
  BY DEF OwnStamps
<1>5. Stored(rows)' \subseteq ever' /\ OnlyWholeGoodBackups'
  BY DEF StoredInv, OnlyWholeGoodBackups, Stored
<1>6. NewestKeepSurvive'
  BY DEF StoredInv, NewestKeepSurvive
<1> QED BY <1>2, <1>3, <1>4, <1>5, <1>6 DEF StoredInv

-----------------------------------------------------------------------------
(* The steps of a run *)

LEMMA TypeKept ==
  ASSUME TypeOK, UNCHANGED <<live, made, restore, out>>, job' \in [Runners -> Jobs],
         rows' \subseteq (DOMAIN made) \X Chunks, ever' \subseteq DOMAIN made,
         txn' \in {txn, NoTxn} \/ txn' \in [id : DOMAIN made, rows : SUBSET ((DOMAIN made) \X Chunks)]
  PROVE  TypeOK'
<1>1. txn' \in [id : (DOMAIN made) \cup {0}, rows : SUBSET ((DOMAIN made) \X Chunks)]
  BY DEF TypeOK, NoTxn
<1> QED BY <1>1 DEF TypeOK, Jobs, Pcs

LEMMA SnapshotStep ==
  ASSUME TypeOK, BackupInv, NEW r \in Runners, Snapshot(r) PROVE TypeOK' /\ BackupInv'
<1>1. PICK copy \in Files :
        job' = [job EXCEPT ![r] = [NoJob EXCEPT !.pc = "check", !.copy = copy]]
  <2>1. (IF live = "missing" THEN {"good", "empty"} ELSE {live}) \subseteq Files
    BY DEF Files, TypeOK
  <2> QED BY <2>1 DEF Snapshot
<1> DEFINE j == [pc |-> "check", copy |-> copy, id |-> 0, next |-> 0,
                 baton |-> FALSE, lost |-> FALSE, said |-> "nothing"]
<1>2. [NoJob EXCEPT !.pc = "check", !.copy = copy] = j
  BY NewRun
<1>3. j \in Jobs
  BY DEF Jobs, Pcs, Chunks
<1>4. UNCHANGED <<live, made, rows, txn, restore, out, ever>>
  BY DEF Snapshot
<1>5. job' = [job EXCEPT ![r] = j]
  BY <1>1, <1>2
<1> HIDE DEF j
<1>6. /\ job'[r] = j /\ job' \in [Runners -> Jobs]
      /\ \A s \in Runners : s # r => job'[s] = job[s]
  BY <1>3, <1>5, Assigned
<1>7. /\ j.pc = "check" /\ j.id = 0 /\ j.next = 0 /\ ~ j.baton /\ j.said = "nothing"
  BY DEF j
<1>8. RunInv(job[r])'
  BY <1>6, <1>7 DEF RunInv
<1>9. TypeOK'
  BY <1>4, <1>6, TypeKept DEF TypeOK
<1>10. BackupInv'
  <2>1. txn.id # 0 => made[txn.id] = "good" /\ txn.id \notin ever
    BY DEF BackupInv, TxnInv
  <2>2. ever \subseteq DOMAIN made
    BY DEF TypeOK
  <2> QED BY <1>4, <1>6, <1>7, <1>8, <2>1, <2>2, RunnerKeeps
<1> QED BY <1>9, <1>10

(* GiveUp, Crash, Close and Prune leave rows alone or prune them, and end  *)
(* the run, or send it to its close.                                       *)
LEMMA GiveUpStep ==
  ASSUME TypeOK, BackupInv, NEW r \in Runners, GiveUp(r) PROVE TypeOK' /\ BackupInv'
<1> DEFINE j == Moved(job[r], Failed(job[r].baton), job[r].baton, job[r].lost)
<1>1. UNCHANGED <<live, made, rows, txn, restore, out, ever>> /\ job[r].pc \in {"check", "begin", "insert"}
  BY DEF GiveUp
<1>2. job' = [job EXCEPT ![r] = j]
  BY SetPc DEF GiveUp
<1>3. j \in Jobs
  BY Fields, JobTypes, MovedTypes DEF Failed, Pcs
<1>4. /\ job'[r] = j /\ job' \in [Runners -> Jobs]
      /\ \A s \in Runners : s # r => job'[s] = job[s]
  BY <1>2, <1>3, Assigned
<1>5. /\ j.pc = (IF job[r].baton THEN "close" ELSE "idle")
      /\ j.id = job[r].id /\ j.said = job[r].said
  BY DEF Moved, Failed
<1> HIDE DEF j
<1>6. RunInv(job[r])
  BY DEF BackupInv
<1>7. RunInv(job[r])'
  BY <1>1, <1>4, <1>5, <1>6 DEF RunInv
<1>8. TypeOK'
  BY <1>1, <1>4, TypeKept DEF TypeOK
<1>9. BackupInv'
  <2>1. txn.id # 0 => made[txn.id] = "good" /\ txn.id \notin ever
    BY DEF BackupInv, TxnInv
  <2>2. ever \subseteq DOMAIN made
    BY DEF TypeOK
  <2>3. job'[r].pc \notin {"insert", "commit"} /\ job'[r].id = job[r].id
    BY <1>4, <1>5
  <2> QED BY <1>1, <1>4, <1>7, <2>1, <2>2, <2>3, RunnerKeeps
<1> QED BY <1>8, <1>9

LEMMA CrashStep ==
  ASSUME TypeOK, BackupInv, NEW r \in Runners, Crash(r) PROVE TypeOK' /\ BackupInv'
<1> DEFINE j == [pc |-> "idle", copy |-> "good", id |-> job[r].id, next |-> 0,
                 baton |-> FALSE, lost |-> TRUE, said |-> "nothing"]
<1>1. UNCHANGED <<live, made, rows, txn, restore, out, ever>>
  BY DEF Crash
<1>2. [NoJob EXCEPT !.id = job[r].id, !.lost = TRUE] = j
  BY KilledRun
<1>3. job' = [job EXCEPT ![r] = j]
  BY <1>2 DEF Crash
<1>4. j \in Jobs
  BY JobTypes DEF Jobs, Pcs, Chunks, Files
<1> HIDE DEF j
<1>5. /\ job'[r] = j /\ job' \in [Runners -> Jobs]
      /\ \A s \in Runners : s # r => job'[s] = job[s]
  BY <1>3, <1>4, Assigned
<1>6. j.pc = "idle" /\ j.id = job[r].id /\ j.lost /\ j.said = "nothing"
  BY DEF j
<1>7. RunInv(job[r])'
  BY <1>5, <1>6 DEF RunInv
<1>8. TypeOK'
  BY <1>1, <1>5, TypeKept DEF TypeOK
<1>9. BackupInv'
  <2>1. txn.id # 0 => made[txn.id] = "good" /\ txn.id \notin ever
    BY DEF BackupInv, TxnInv
  <2>2. ever \subseteq DOMAIN made
    BY DEF TypeOK
  <2>3. job'[r].pc \notin {"insert", "commit"} /\ job'[r].id = job[r].id
    BY <1>5, <1>6
  <2> QED BY <1>1, <1>5, <1>7, <2>1, <2>2, <2>3, RunnerKeeps
<1> QED BY <1>8, <1>9

LEMMA BeginStep ==
  ASSUME TypeOK, BackupInv, NEW r \in Runners, Begin(r) PROVE TypeOK' /\ BackupInv'
<1>1. /\ UNCHANGED <<live, made, rows, restore, out, ever>>
      /\ job[r].pc = "begin" /\ RunInv(job[r])
  BY DEF Begin, BackupInv
<1>2. PICK o \in Outcomes(txn = NoTxn) :
        /\ txn' = IF o.ran /\ o.open THEN [id |-> job[r].id, rows |-> {}] ELSE txn
        /\ job' = Told(r, o, RequireStream(Pipeline(FALSE, o)), "insert")
  BY DEF Begin
<1>3. /\ job[r].id # 0 /\ job[r].next = 0 /\ ~ job[r].baton
      /\ made[job[r].id] = "good" /\ job[r].id \notin ever /\ txn.id # job[r].id
      /\ job[r].said = "nothing" \/ job[r].id \in ever
  BY <1>1 DEF RunInv
<1> DEFINE p == Pipeline(job[r].baton, o)
<1>4. /\ o.ok => o.ran /\ o.answered
      /\ o.answered \in BOOLEAN /\ o.ran \in BOOLEAN /\ o.open \in BOOLEAN
  BY OutcomeFacts
<1>5. p = (o.answered /\ o.open) /\ RequireStream(Pipeline(FALSE, o)) = p /\ p \in BOOLEAN
  BY <1>3, <1>4, Fields DEF Pipeline, RequireStream
<1>6. /\ job'[r] = Moved(job[r], IF o.ok /\ p THEN "insert" ELSE Failed(p), p,
                         job[r].lost \/ ~ o.answered)
      /\ job' \in [Runners -> Jobs]
      /\ \A s \in Runners : s # r => job'[s] = job[s]
  <2>1. "insert" \in Pcs /\ Pipeline(job[r].baton, o) \in BOOLEAN
    BY <1>5 DEF Pcs
  <2>2. job' = Told(r, o, Pipeline(job[r].baton, o), "insert")
    BY <1>2, <1>5
  <2> QED BY <2>1, <2>2, CallDoes
<1>7. /\ job'[r].pc = IF o.ok /\ p THEN "insert" ELSE IF p THEN "close" ELSE "idle"
      /\ job'[r].id = job[r].id /\ job'[r].said = job[r].said /\ job'[r].next = 0
      /\ job'[r].baton = p /\ job'[r].lost = (job[r].lost \/ ~ o.answered)
  BY <1>3, <1>6 DEF Moved, Failed
<1> HIDE DEF p
<1>8. txn' = txn \/ (o.ran /\ o.open /\ txn'.id = job[r].id /\ txn'.rows = {})
  BY <1>2
<1>9. RunInv(job[r])'
  BY <1>1, <1>3, <1>4, <1>5, <1>7, <1>8 DEF RunInv
<1>10. TypeOK'
  <2>1. txn' = txn \/ txn' \in [id : DOMAIN made, rows : SUBSET ((DOMAIN made) \X Chunks)]
    BY <1>2, <1>3, Fields
  <2> QED BY <1>1, <1>6, <2>1, TypeKept DEF TypeOK
<1>11. BackupInv'
  <2>1. txn.id # 0 => made[txn.id] = "good" /\ txn.id \notin ever
    BY DEF BackupInv, TxnInv
  <2>2. ever \subseteq DOMAIN made
    BY DEF TypeOK
  <2>3. txn'.id # 0 => made[txn'.id] = "good" /\ txn'.id \notin ever'
    BY <1>1, <1>3, <1>8, <2>1
  <2>4. txn'.id = job'[r].id => txn'.rows = {}
    BY <1>3, <1>7, <1>8
  <2>5. {txn'.id} \X (0 .. job'[r].next - 1) = {}
    BY <1>7
  <2>6. job'[r].pc # "commit"
    BY <1>7
  <2>7. txn' \in {txn, NoTxn} \/ (job[r].id # 0 /\ txn'.id = job[r].id)
    BY <1>3, <1>8
  <2> QED BY <1>1, <1>6, <1>7, <1>9, <2>2, <2>3, <2>4, <2>5, <2>6, <2>7, RunnerKeeps
<1> QED BY <1>10, <1>11

LEMMA InsertStep ==
  ASSUME TypeOK, BackupInv, NEW r \in Runners, Insert(r) PROVE TypeOK' /\ BackupInv'
<1> DEFINE b == job[r].id
           last == Last(job[r].next)
           p(o) == Pipeline(job[r].baton, o)
           row == <<b, job[r].next>>
<1>1. /\ UNCHANGED <<live, made, restore, out, ever>>
      /\ job[r].pc = "insert" /\ RunInv(job[r])
  BY DEF Insert, BackupInv
<1>2. b # 0 /\ job[r].baton /\ (job[r].said # "nothing" => b \in ever)
  BY <1>1 DEF RunInv
<1>3. PICK o \in Outcomes(txn.id = b) :
        /\ txn' = TxnAfter(b, o, IF o.ran THEN [txn EXCEPT !.rows = @ \cup {row}] ELSE txn)
        /\ rows' = rows
        /\ job' = [Told(r, o, RequireStream(p(o)), IF last THEN "commit" ELSE "insert")
                     EXCEPT ![r].next = IF last THEN @ ELSE @ + 1]
  BY <1>2 DEF Insert
<1>4. /\ o.ok => o.ran /\ o.answered
      /\ o.ran => txn.id = b
      /\ o.answered \in BOOLEAN /\ o.ran \in BOOLEAN /\ o.open \in BOOLEAN
  BY OutcomeFacts
<1>5. p(o) = (IF o.answered THEN o.open ELSE TRUE) /\ RequireStream(p(o)) = p(o) /\ p(o) \in BOOLEAN
  BY <1>2, <1>4, Fields DEF Pipeline, RequireStream
<1>6. last \in BOOLEAN /\ (last <=> job[r].next = NChunks - 1)
  BY DEF Last
<1>7. /\ job'[r].pc = IF o.ok /\ p(o) THEN IF last THEN "commit" ELSE "insert" ELSE Failed(p(o))
      /\ job'[r].baton = p(o)
      /\ job'[r].lost = (job[r].lost \/ ~ o.answered)
      /\ job'[r].next = IF last THEN job[r].next ELSE job[r].next + 1
      /\ job'[r].id = b /\ job'[r].said = job[r].said
      /\ \A s \in Runners : s # r => job'[s] = job[s]
      /\ job' \in [Runners -> Jobs]
  <2>1. Pipeline(job[r].baton, o) \in BOOLEAN
    BY <1>5
  <2>2. job' = [Told(r, o, Pipeline(job[r].baton, o), IF last THEN "commit" ELSE "insert")
                  EXCEPT ![r].next = IF last THEN @ ELSE @ + 1]
    BY <1>3, <1>5
  <2>3. last \in BOOLEAN /\ (last <=> Last(job[r].next))
    BY DEF Last
  <2>4. PICK end : end = last
    OBVIOUS
  <2>5. PICK good : good = Pipeline(job[r].baton, o)
    OBVIOUS
  <2> HIDE DEF last
  <2>6. good \in BOOLEAN /\ end \in BOOLEAN /\ (end <=> Last(job[r].next))
    BY <2>1, <2>3, <2>4, <2>5
  <2>7. job' = [Told(r, o, good, IF end THEN "commit" ELSE "insert")
                  EXCEPT ![r].next = IF end THEN @ ELSE @ + 1]
    BY <2>2, <2>4, <2>5
  <2>8. /\ job'[r].pc = IF o.ok /\ good THEN IF end THEN "commit" ELSE "insert"
                         ELSE Failed(Pipeline(job[r].baton, o))
        /\ job'[r].baton = Pipeline(job[r].baton, o)
        /\ job'[r].lost = (job[r].lost \/ ~ o.answered)
        /\ job'[r].next = IF end THEN job[r].next ELSE job[r].next + 1
        /\ job'[r].id = job[r].id /\ job'[r].said = job[r].said
        /\ \A s \in Runners : s # r => job'[s] = job[s]
        /\ job' \in [Runners -> Jobs]
    BY <2>6, <2>7, InsertDoes
  <2> QED BY <2>4, <2>5, <2>8
<1>8. Failed(p(o)) = (IF p(o) THEN "close" ELSE "idle")
  BY DEF Failed
<1>9. /\ txn \in [id : (DOMAIN made) \cup {0}, rows : SUBSET ((DOMAIN made) \X Chunks)]
      /\ job[r].next \in Chunks /\ job[r].next \in Nat /\ b \in DOMAIN made
  BY <1>2, Fields DEF TypeOK
<1>10. txn.id = b => txn.rows = {b} \X (0 .. job[r].next - 1)
  BY <1>1, <1>2 DEF BackupInv, TxnInv
<1> HIDE DEF b, last, p
<1>11. \/ txn' \in {txn, NoTxn} /\ (o.ran => txn' = NoTxn)
       \/ o.ran /\ o.open /\ txn'.id = b /\ txn'.rows = txn.rows \cup {row} /\ txn' \in [id : DOMAIN made, rows : SUBSET ((DOMAIN made) \X Chunks)]
  <2>1. PICK new : new = [txn EXCEPT !.rows = @ \cup {row}]
    OBVIOUS
  <2>2. new.id = txn.id /\ new.rows = txn.rows \cup {row} /\ new = [id |-> txn.id, rows |-> txn.rows \cup {row}]
    BY <1>9, <2>1
  <2>3. row \in (DOMAIN made) \X Chunks
    BY <1>9 DEF b
  <2>4. o.ran => new \in [id : DOMAIN made, rows : SUBSET ((DOMAIN made) \X Chunks)]
    BY <1>4, <1>9, <2>2, <2>3
  <2>5. txn' = TxnAfter(b, o, IF o.ran THEN new ELSE txn)
    BY <1>3, <2>1
  <2> QED BY <1>4, <2>2, <2>4, <2>5 DEF TxnAfter, Reached
<1>12. o.answered /\ ~ o.open => txn'.id # b
  <2>1. NoTxn.id = 0
    BY DEF NoTxn
  <2> QED BY <1>2, <1>3, <2>1 DEF TxnAfter, Reached, b
<1>13. RunInv(job[r])'
  BY <1>1, <1>2, <1>4, <1>5, <1>7, <1>8, <1>12 DEF RunInv, b
<1>14. TypeOK'
  <2>1. rows \subseteq (DOMAIN made) \X Chunks /\ ever \subseteq DOMAIN made
    BY DEF TypeOK
  <2> QED BY <1>1, <1>3, <1>7, <1>11, <2>1, TypeKept
<1>15. BackupInv'
  <2>1. txn.id # 0 => made[txn.id] = "good" /\ txn.id \notin ever
    BY DEF BackupInv, TxnInv
  <2>2. ever \subseteq DOMAIN made
    BY DEF TypeOK
  <2>3. txn'.id # 0 => made[txn'.id] = "good" /\ txn'.id \notin ever'
    BY <1>1, <1>4, <1>11, <2>1 DEF NoTxn
  <2>4. ASSUME txn'.id = b, job'[r].pc \in {"insert", "commit"}
        PROVE  txn'.rows = {b} \X (0 .. job[r].next)
    <3>1. o.ran /\ o.open
      BY <1>4, <1>5, <1>7, <1>8, <2>4
    <3>2. txn' # NoTxn
      BY <1>2, <2>4 DEF NoTxn, b
    <3>3. txn'.rows = ({b} \X (0 .. job[r].next - 1)) \cup {<<b, job[r].next>>}
      BY <1>4, <1>10, <1>11, <3>1, <3>2
    <3>4. 0 .. job[r].next = (0 .. job[r].next - 1) \cup {job[r].next}
      BY <1>9
    <3> QED BY <3>3, <3>4
  <2>5. /\ job'[r].pc = "insert" => job'[r].next - 1 = job[r].next
        /\ job'[r].pc = "commit" => Chunks = 0 .. job[r].next
    BY <1>6, <1>7, <1>8, <1>9 DEF Chunks
  <2>6. txn'.id = job'[r].id =>
            /\ job'[r].pc = "insert" => txn'.rows = {txn'.id} \X (0 .. job'[r].next - 1)
            /\ job'[r].pc = "commit" => txn'.rows = {txn'.id} \X Chunks
    BY <1>7, <2>4, <2>5
  <2>7. txn' \in {txn, NoTxn} \/ (job[r].id # 0 /\ txn'.id = job[r].id)
    BY <1>2, <1>11 DEF b
  <2>8. job'[r].id = job[r].id
    BY <1>7 DEF b
  <2> QED BY <1>1, <1>3, <1>7, <1>13, <2>2, <2>3, <2>6, <2>7, <2>8, RunnerKeeps
<1> QED BY <1>14, <1>15

LEMMA CommitStep ==
  ASSUME TypeOK, BackupInv, NEW r \in Runners, Commit(r) PROVE TypeOK' /\ BackupInv'
<1>1. PICK b : b = job[r].id
  OBVIOUS
<1>2. /\ UNCHANGED <<live, made, restore, out>>
      /\ job[r].pc = "commit" /\ RunInv(job[r])
  BY DEF Commit, BackupInv
<1>3. b # 0 /\ b \in DOMAIN made /\ job[r].baton /\ (job[r].said # "nothing" => b \in ever)
  BY <1>1, <1>2, Fields DEF RunInv
<1>4. PICK o \in Outcomes(job[r].baton /\ txn.id = b) :
        /\ ~ o.open
        /\ rows' = IF o.ran THEN rows \cup txn.rows ELSE rows
        /\ ever' = IF o.ran THEN ever \cup {b} ELSE ever
        /\ txn' = TxnAfter(b, o, txn)
        /\ job' = Told(r, o, TRUE, "prune")
  BY <1>1 DEF Commit
<1>5. /\ o.ok => o.ran /\ o.answered
      /\ o.ran => txn.id = b
      /\ o.answered \in BOOLEAN /\ o.ran \in BOOLEAN /\ o.open \in BOOLEAN /\ o.ok \in BOOLEAN
  BY OutcomeFacts
<1> DEFINE p == Pipeline(job[r].baton, o)
<1>6. p = ~ o.answered
  BY <1>3, <1>4, <1>5, Fields DEF Pipeline
<1>7. /\ job'[r] = Moved(job[r], IF o.ok /\ TRUE THEN "prune" ELSE Failed(p), p,
                         job[r].lost \/ ~ o.answered)
      /\ job' \in [Runners -> Jobs]
      /\ \A s \in Runners : s # r => job'[s] = job[s]
  <2> HIDE DEF p
  <2>1. "prune" \in Pcs
    BY DEF Pcs
  <2>2. job' = Told(r, o, TRUE, "prune")
    BY <1>4
  <2>3. p = Pipeline(job[r].baton, o)
    BY DEF p
  <2> QED BY <1>2, <2>1, <2>2, <2>3, CallDoes
<1>8. /\ job'[r].pc = IF o.ok THEN "prune" ELSE IF o.answered THEN "idle" ELSE "close"
      /\ job'[r].id = b /\ job'[r].said = job[r].said
      /\ job'[r].lost = (job[r].lost \/ ~ o.answered)
  <2>1. Failed(p) = IF o.answered THEN "idle" ELSE "close"
    BY <1>5, <1>6 DEF Failed
  <2>2. /\ job'[r].pc = IF o.ok /\ TRUE THEN "prune" ELSE Failed(p)
        /\ job'[r].id = job[r].id /\ job'[r].said = job[r].said
        /\ job'[r].lost = (job[r].lost \/ ~ o.answered)
    BY <1>7 DEF Moved
  <2> QED BY <1>1, <2>1, <2>2
<1> HIDE DEF p
<1>9. txn.id = b => txn.rows = {b} \X Chunks /\ made[b] = "good"
  BY <1>1, <1>2, <1>3 DEF BackupInv, TxnInv
<1>10. /\ txn' \in {txn, NoTxn} /\ (o.ran => txn' = NoTxn) /\ NoTxn.id = 0
       /\ o.answered \/ o.ran => txn'.id # b
  BY <1>3, <1>4, <1>5 DEF TxnAfter, Reached, NoTxn
<1>11. RunInv(job[r])'
  BY <1>1, <1>3, <1>4, <1>5, <1>8, <1>10 DEF RunInv
<1>12. txn \in [id : (DOMAIN made) \cup {0}, rows : SUBSET ((DOMAIN made) \X Chunks)]
  BY DEF TypeOK
<1>13. rows' \subseteq (DOMAIN made) \X Chunks /\ ever' \subseteq DOMAIN made /\ ever \subseteq ever'
  BY <1>3, <1>4, <1>12 DEF TypeOK
<1>14. TypeOK'
  BY <1>2, <1>7, <1>10, <1>13, TypeKept
<1>15. /\ Stored(rows') \subseteq ever'
       /\ \A c \in Stored(rows') : Whole(c, rows') /\ made[c] = "good"
       /\ \A c \in ever' : Survives(c, rows', ever')
  <2>1. /\ Stored(rows) \subseteq ever
        /\ \A c \in Stored(rows) : Whole(c, rows) /\ made[c] = "good"
        /\ \A c \in ever : Survives(c, rows, ever)
    BY DEF BackupInv, StoredInv, OnlyWholeGoodBackups, NewestKeepSurvive, Whole, Survives
  <2>2. CASE ~ o.ran
    BY <1>4, <2>1, <2>2
  <2>3. CASE o.ran
    <3>1. rows' = rows \cup ({b} \X Chunks) /\ ever' = ever \cup {b} /\ made[b] = "good"
      BY <1>4, <1>5, <1>9, <2>3
    <3>2. Stored(rows') \subseteq Stored(rows) \cup {b}
      BY <3>1 DEF Stored
    <3>3. Whole(b, rows') /\ \A c : Whole(c, rows) => Whole(c, rows')
      BY <3>1 DEF Whole
    <3>4. IsFiniteSet(ever')
      BY <1>13, FiniteBackups DEF TypeOK
    <3>5. \A c : /\ Cardinality({d \in ever : d > c}) <= Cardinality({d \in ever' : d > c})
                 /\ Cardinality({d \in ever : d > c}) \in Nat
                 /\ Cardinality({d \in ever' : d > c}) \in Nat
      BY <1>13, <3>4, Newer
    <3>6. \A c \in ever' : Survives(c, rows', ever')
      <4>1. Survives(b, rows', ever')
        BY <3>3 DEF Survives
      <4>2. ASSUME NEW c \in ever PROVE Survives(c, rows', ever')
        <5>1. Survives(c, rows, ever)
          BY <2>1
        <5>2. Keep \in Nat
          OBVIOUS
        <5> QED BY <3>3, <3>5, <5>1, <5>2 DEF Survives
      <4> QED BY <3>1, <4>1, <4>2
    <3> QED BY <2>1, <3>1, <3>2, <3>3, <3>6
  <2> QED BY <2>2, <2>3
<1>16. BackupInv'
  <2>1. txn.id # 0 => made[txn.id] = "good" /\ txn.id \notin ever
    BY DEF BackupInv, TxnInv
  <2>2. txn'.id # 0 => made[txn'.id] = "good" /\ txn'.id \notin ever'
    BY <1>4, <1>10, <2>1
  <2>3. job'[r].pc \notin {"insert", "commit"}
    BY <1>8
  <2>4. ever' = ever \/ (job[r].id # 0 /\ ever' = ever \cup {job[r].id})
    BY <1>1, <1>3, <1>4
  <2>5. job'[r].id = job[r].id
    BY <1>1, <1>8
  <2> QED BY <1>2, <1>7, <1>10, <1>11, <1>13, <1>15, <2>2, <2>3, <2>4, <2>5, RunnerKeeps
<1> QED BY <1>14, <1>16

LEMMA CloseStep ==
  ASSUME TypeOK, BackupInv, NEW r \in Runners, Close(r) PROVE TypeOK' /\ BackupInv'
<1>1. /\ UNCHANGED <<live, made, rows, restore, out, ever>>
      /\ job[r].pc = "close" /\ RunInv(job[r])
  BY DEF Close, BackupInv
<1>2. PICK arrives \in BOOLEAN :
        /\ txn' = IF arrives /\ txn.id = job[r].id THEN NoTxn ELSE txn
        /\ job' = [job EXCEPT ![r].pc = "idle", ![r].lost = @ \/ ~ arrives]
  BY DEF Close
<1> DEFINE l == job[r].lost \/ ~ arrives
           j == Moved(job[r], "idle", job[r].baton, l)
<1>3. job' = [job EXCEPT ![r].pc = "idle", ![r].lost = l]
  BY <1>2, JobTypes
<1>4. l \in BOOLEAN
  BY Fields
<1> HIDE DEF l
<1>5. [[job[r] EXCEPT !.pc = "idle"] EXCEPT !.lost = l] = j
  <2>1. [job[r] EXCEPT !.pc = "idle"] = Moved(job[r], "idle", job[r].baton, job[r].lost)
    BY JobTypes DEF Jobs, Moved
  <2>2. [Moved(job[r], "idle", job[r].baton, job[r].lost) EXCEPT !.lost = l] = j
    BY DEF Moved
  <2> QED BY <2>1, <2>2
<1>6. j \in Jobs
  BY <1>4, Fields, JobTypes, MovedTypes DEF Pcs
<1> HIDE DEF j
<1>7. job' = [job EXCEPT ![r] = j]
  BY <1>3, <1>5, JobTypes
<1>8. /\ job'[r] = j /\ job' \in [Runners -> Jobs]
      /\ \A s \in Runners : s # r => job'[s] = job[s]
  BY <1>6, <1>7, Assigned
<1>9. j.pc = "idle" /\ j.id = job[r].id /\ j.said = job[r].said /\ (~ j.lost => arrives)
  BY DEF j, l, Moved
<1>10. txn' \in {txn, NoTxn} /\ NoTxn.id = 0 /\ (arrives /\ job[r].id # 0 => txn'.id # job[r].id)
  BY <1>2 DEF NoTxn
<1>11. RunInv(job[r])'
  BY <1>1, <1>8, <1>9, <1>10 DEF RunInv
<1>12. TypeOK'
  <2>1. rows \subseteq (DOMAIN made) \X Chunks /\ ever \subseteq DOMAIN made
    BY DEF TypeOK
  <2> QED BY <1>1, <1>8, <1>10, <2>1, TypeKept
<1>13. BackupInv'
  <2>1. txn'.id # 0 => made[txn'.id] = "good" /\ txn'.id \notin ever'
    BY <1>1, <1>10 DEF BackupInv, TxnInv
  <2>2. ever \subseteq DOMAIN made
    BY DEF TypeOK
  <2>3. job'[r].pc \notin {"insert", "commit"} /\ job'[r].id = job[r].id
    BY <1>8, <1>9
  <2> QED BY <1>1, <1>8, <1>10, <1>11, <2>1, <2>2, <2>3, RunnerKeeps
<1> QED BY <1>12, <1>13

LEMMA PruneStep ==
  ASSUME TypeOK, BackupInv, NEW r \in Runners, Prune(r) PROVE TypeOK' /\ BackupInv'
<1>1. /\ UNCHANGED <<live, made, txn, restore, out, ever>>
      /\ job[r].pc = "prune" /\ RunInv(job[r])
  BY DEF Prune, BackupInv
<1>2. PICK o \in Outcomes(txn = NoTxn) :
        /\ rows' = IF o.ran THEN Spared(rows) ELSE rows
        /\ job' = [job EXCEPT ![r].pc = "idle",
                              ![r].said = IF o.ok THEN "ok" ELSE "stored"]
  BY DEF Prune
<1>3. PICK said \in {"ok", "stored"} : job' = [job EXCEPT ![r].pc = "idle", ![r].said = said]
  BY <1>2
<1> DEFINE j == [pc |-> "idle", copy |-> job[r].copy, id |-> job[r].id, next |-> job[r].next,
                 baton |-> job[r].baton, lost |-> job[r].lost, said |-> said]
<1>4. [[job[r] EXCEPT !.pc = "idle"] EXCEPT !.said = said] = j
  <2>1. [job[r] EXCEPT !.pc = "idle"] = Moved(job[r], "idle", job[r].baton, job[r].lost)
    BY JobTypes DEF Jobs, Moved
  <2>2. [Moved(job[r], "idle", job[r].baton, job[r].lost) EXCEPT !.said = said] = j
    BY DEF Moved
  <2> QED BY <2>1, <2>2
<1>5. j \in Jobs
  BY JobTypes DEF Jobs, Pcs
<1> HIDE DEF j
<1>6. job' = [job EXCEPT ![r] = j]
  BY <1>3, <1>4, JobTypes
<1>7. /\ job'[r] = j /\ job' \in [Runners -> Jobs]
      /\ \A s \in Runners : s # r => job'[s] = job[s]
  BY <1>5, <1>6, Assigned
<1>8. j.pc = "idle" /\ j.id = job[r].id /\ job[r].id \in ever /\ (job[r].id # 0 => txn.id # job[r].id)
  BY <1>1 DEF j, RunInv
<1>9. RunInv(job[r])'
  BY <1>1, <1>7, <1>8 DEF RunInv
<1>10. /\ Stored(rows) \subseteq ever
       /\ \A b \in Stored(rows) : Whole(b, rows) /\ made[b] = "good"
       /\ \A b \in ever : Survives(b, rows, ever)
  BY DEF BackupInv, StoredInv, OnlyWholeGoodBackups, NewestKeepSurvive, Whole, Survives
<1>11. /\ rows' \subseteq rows
       /\ Stored(rows') \subseteq ever'
       /\ \A b \in Stored(rows') : Whole(b, rows') /\ made[b] = "good"
       /\ \A b \in ever' : Survives(b, rows', ever')
  <2>1. CASE ~ o.ran
    BY <1>1, <1>2, <1>10, <2>1
  <2>2. CASE o.ran
    <3>1. rows' = Spared(rows)
      BY <1>2, <2>2
    <3>2. /\ rows' \subseteq rows
          /\ Stored(rows') \subseteq Stored(rows)
          /\ \A b \in Stored(rows') : \A c : <<b, c>> \in rows => <<b, c>> \in rows'
          /\ \A b \in Stored(rows) \ Stored(rows') : Cardinality({c \in ever : c > b}) >= Keep
      BY <1>10, <3>1, SparedFacts
    <3>3. \A b \in Stored(rows') : Whole(b, rows) => Whole(b, rows')
      BY <3>2 DEF Whole
    <3>4. ASSUME NEW b \in ever PROVE Survives(b, rows', ever)
      <4>1. 0 \in Chunks
        BY DEF Chunks
      <4>2. Whole(b, rows) => b \in Stored(rows)
        <5>1. Whole(b, rows) => <<b, 0>> \in rows
          BY <4>1 DEF Whole
        <5>2. <<b, 0>>[1] = b
          OBVIOUS
        <5> QED BY <5>1, <5>2 DEF Stored
      <4>3. Survives(b, rows, ever)
        BY <1>10
      <4> QED BY <3>2, <3>3, <4>2, <4>3 DEF Survives
    <3> QED BY <1>1, <1>10, <3>2, <3>3, <3>4
  <2> QED BY <2>1, <2>2
<1>12. TypeOK'
  <2>1. rows' \subseteq (DOMAIN made) \X Chunks /\ ever \subseteq DOMAIN made
    BY <1>11 DEF TypeOK
  <2> QED BY <1>1, <1>7, <2>1, TypeKept
<1>13. BackupInv'
  <2>1. txn'.id # 0 => made[txn'.id] = "good" /\ txn'.id \notin ever'
    BY <1>1 DEF BackupInv, TxnInv
  <2>2. ever \subseteq DOMAIN made
    BY DEF TypeOK
  <2>3. job'[r].pc \notin {"insert", "commit"} /\ job'[r].id = job[r].id
    BY <1>7, <1>8
  <2> QED BY <1>1, <1>7, <1>9, <1>11, <2>1, <2>2, <2>3, RunnerKeeps
<1> QED BY <1>12, <1>13

(* The time stamp: a new id, newer than every other. *)
LEMMA StampStep ==
  ASSUME TypeOK, BackupInv, NEW r \in Runners, Stamp(r) PROVE TypeOK' /\ BackupInv'
<1>1. /\ UNCHANGED <<live, rows, txn, restore, out, ever>>
      /\ job[r].pc = "check" /\ RunInv(job[r]) /\ job[r].copy = "good"
      /\ Len(made) < MaxBackups /\ made' = Append(made, job[r].copy)
  BY DEF Stamp, BackupInv, Acceptable
<1>2. made \in Seq(Files) /\ Len(made) \in Nat /\ DOMAIN made = 1 .. Len(made)
  BY DEF TypeOK
<1>3. PICK n \in Nat : n = Len(made) + 1
  BY <1>2
<1>4. /\ made' \in Seq(Files) /\ Len(made') = n /\ n <= MaxBackups
      /\ DOMAIN made' = (DOMAIN made) \cup {n} /\ n \notin DOMAIN made /\ n # 0
      /\ made'[n] = "good"
      /\ \A b \in DOMAIN made : made'[b] = made[b]
  BY <1>1, <1>2, <1>3 DEF Files
<1>5. job' = [job EXCEPT ![r].pc = "begin", ![r].id = n]
  BY <1>3 DEF Stamp
<1>6. job[r].next = 0 /\ ~ job[r].baton /\ job[r].said = "nothing"
  BY <1>1 DEF RunInv
<1> DEFINE j == [pc |-> "begin", copy |-> job[r].copy, id |-> n, next |-> job[r].next,
                 baton |-> job[r].baton, lost |-> job[r].lost, said |-> job[r].said]
<1>7. [[job[r] EXCEPT !.pc = "begin"] EXCEPT !.id = n] = j
  <2>1. [job[r] EXCEPT !.pc = "begin"] = Moved(job[r], "begin", job[r].baton, job[r].lost)
    BY JobTypes DEF Jobs, Moved
  <2>2. [Moved(job[r], "begin", job[r].baton, job[r].lost) EXCEPT !.id = n] = j
    BY DEF Moved
  <2> QED BY <2>1, <2>2
<1>8. j \in Jobs'
  BY <1>4, JobTypes DEF Jobs, Pcs
<1> HIDE DEF j
<1>9. job' = [job EXCEPT ![r] = j]
  BY <1>5, <1>7, JobTypes
<1>10. /\ job'[r] = j
       /\ \A s \in Runners : s # r => job'[s] = job[s]
  BY <1>9, JobTypes
<1>11. \A k \in Jobs : k \in Jobs'
  BY <1>4 DEF Jobs
<1>12. job' \in [Runners -> Jobs']
  BY <1>8, <1>9, <1>11, JobTypes
<1>13. TypeOK'
  <2>1. rows' \subseteq (DOMAIN made') \X Chunks /\ ever' \subseteq DOMAIN made'
    BY <1>1, <1>4 DEF TypeOK
  <2>2. txn' \in [id : (DOMAIN made') \cup {0}, rows : SUBSET ((DOMAIN made') \X Chunks)]
    BY <1>1, <1>4 DEF TypeOK
  <2>3. restore' \in [pc : {"idle", "fetch", "link", "missing"},
                      id : (DOMAIN made') \cup {0}, chunks : 0 .. NChunks, got : 0 .. NChunks]
    BY <1>1, <1>4 DEF TypeOK
  <2>4. live' \in Files /\ out' \in (DOMAIN made') \cup {-1, 0}
    BY <1>1, <1>4 DEF TypeOK
  <2> QED BY <1>4, <1>12, <2>1, <2>2, <2>3, <2>4 DEF TypeOK, Jobs, Pcs
<1>14. /\ j.pc = "begin" /\ j.id = n /\ j.next = 0 /\ ~ j.baton /\ j.said = "nothing"
  BY <1>6 DEF j
<1>15. txn.id # n /\ n \notin ever /\ ever \subseteq DOMAIN made
  BY <1>4 DEF TypeOK
<1>16. RunInv(job[r])'
  BY <1>1, <1>4, <1>10, <1>14, <1>15 DEF RunInv
<1>17. \A s \in Runners : s # r => job'[s].id # n
  BY <1>4, <1>10, Fields
<1>18. ASSUME NEW s \in Runners, s # r PROVE RunInv(job[s])'
  <2>1. job'[s] = job[s] /\ RunInv(job[s]) /\ (job[s].id # 0 => made'[job[s].id] = made[job[s].id])
    BY <1>4, <1>10, <1>18, Fields DEF BackupInv
  <2> QED BY <1>1, <2>1 DEF RunInv
<1>19. OwnStamps'
  <2>1. OwnStamps
    BY DEF BackupInv
  <2>2. job'[r].id = n
    BY <1>10, <1>14
  <2> QED BY <1>10, <1>17, <2>1, <2>2 DEF OwnStamps
<1>20. TxnInv'
  <2>1. txn.id # 0 => made'[txn.id] = "good" /\ txn.id \notin ever
    BY <1>4 DEF BackupInv, TxnInv, TypeOK
  <2>2. \A s \in Runners : s # r =>
            (txn.id # 0 /\ txn.id = job[s].id =>
               /\ job[s].pc = "insert" => txn.rows = {txn.id} \X (0 .. job[s].next - 1)
               /\ job[s].pc = "commit" => txn.rows = {txn.id} \X Chunks)
    BY DEF BackupInv, TxnInv
  <2>3. txn'.id # job'[r].id
    BY <1>1, <1>10, <1>14, <1>15
  <2> QED BY <1>1, <1>10, <2>1, <2>2, <2>3 DEF TxnInv
<1>21. Stored(rows)' \subseteq ever' /\ OnlyWholeGoodBackups'
  <2>1. Stored(rows') = Stored(rows)
    BY <1>1
  <2>2. \A b \in Stored(rows) : {b} \X Chunks \subseteq rows /\ made'[b] = "good"
    BY <1>4, <1>15 DEF BackupInv, StoredInv, OnlyWholeGoodBackups
  <2> QED BY <1>1, <2>1, <2>2 DEF BackupInv, StoredInv, OnlyWholeGoodBackups
<1>22. NewestKeepSurvive'
  <2>1. \A s \in Runners : job'[s].said # "nothing" => job'[s].id \in ever'
    BY <1>16, <1>18 DEF RunInv
  <2>2. \A b \in ever : {b} \X Chunks \subseteq rows \/ Cardinality({c \in ever : c > b}) >= Keep
    BY DEF BackupInv, StoredInv, NewestKeepSurvive
  <2>3. ASSUME NEW b \in ever' \cup {job'[s].id : s \in {t \in Runners : job'[t].said # "nothing"}}
        PROVE  b \in ever'
    BY <2>1, <2>3
  <2>4. ASSUME NEW b \in ever' \cup {job'[s].id : s \in {t \in Runners : job'[t].said # "nothing"}}
        PROVE  {b} \X Chunks \subseteq rows' \/ Cardinality({c \in ever' : c > b}) >= Keep
    BY <1>1, <2>2, <2>3, <2>4
  <2> QED BY <2>4 DEF NewestKeepSurvive
<1>23. RestoreInv'
  BY <1>1 DEF BackupInv, RestoreInv, MissingOnlyIfOutlived
<1>24. BackupInv'
  BY <1>16, <1>18, <1>19, <1>20, <1>21, <1>22, <1>23 DEF BackupInv, StoredInv
<1> QED BY <1>13, <1>24

LEMMA RunnerStep ==
  ASSUME TypeOK, BackupInv, NEW r \in Runners, Step(r) PROVE TypeOK' /\ BackupInv'
  BY SnapshotStep, StampStep, GiveUpStep, BeginStep, InsertStep, CommitStep, CloseStep, PruneStep,
     CrashStep DEF Step

-----------------------------------------------------------------------------
(* The other steps *)

LEMMA RollbackStep ==
  ASSUME TypeOK, BackupInv, IdleRollback PROVE TypeOK' /\ BackupInv'
<1>1. UNCHANGED <<live, made, rows, job, restore, out, ever>> /\ txn' = NoTxn
  BY DEF IdleRollback
<1>2. TypeOK'
  BY <1>1 DEF TypeOK, NoTxn
<1>3. RestoreInv'
  BY <1>1 DEF BackupInv, RestoreInv, MissingOnlyIfOutlived
<1> QED BY <1>1, <1>2, <1>3, QuietKeeps

(* A restore's record, where a field changes. *)
Restores == [pc : {"idle", "fetch", "link", "missing"}, id : (DOMAIN made) \cup {0},
             chunks : 0 .. NChunks, got : 0 .. NChunks]

LEMMA RestoreMoves ==
  ASSUME TypeOK, BackupInv, UNCHANGED <<live, made, rows, txn, job, ever>>,
         restore' \in Restores, out' \in (DOMAIN made) \cup {-1, 0},
         restore'.pc # "idle" => restore'.id \in ever,
         restore'.pc = "missing" =>
            UNCHANGED restore \/ Cardinality({b \in ever : b > restore'.id}) >= Keep
  PROVE  TypeOK' /\ BackupInv'
<1>1. TypeOK'
  BY DEF TypeOK, Restores
<1>2. RestoreInv'
  BY DEF BackupInv, RestoreInv, MissingOnlyIfOutlived
<1> QED BY <1>1, <1>2, QuietKeeps

LEMMA ListStep ==
  ASSUME TypeOK, BackupInv, List PROVE TypeOK' /\ BackupInv'
<1>1. PICK b \in Stored(rows) :
        restore' = [pc |-> "fetch", id |-> b, got |-> 0,
                    chunks |-> Cardinality({row \in rows : row[1] = b})]
  BY DEF List
<1>2. b \in ever /\ ever \subseteq DOMAIN made
  BY DEF BackupInv, StoredInv, TypeOK
<1>3. PICK n \in 0 .. NChunks : n = Cardinality({row \in rows : row[1] = b})
  BY ListedChunks
<1>4. restore' = [pc |-> "fetch", id |-> b, got |-> 0, chunks |-> n]
  BY <1>1, <1>3
<1>5. restore' \in Restores /\ restore'.pc = "fetch" /\ restore'.id \in ever
  BY <1>2, <1>4 DEF Restores
<1>6. UNCHANGED <<live, made, rows, txn, job, out, ever>> /\ out \in (DOMAIN made) \cup {-1, 0}
  BY DEF List, TypeOK
<1> QED BY <1>5, <1>6, RestoreMoves

LEMMA FetchStep ==
  ASSUME TypeOK, BackupInv, Fetch PROVE TypeOK' /\ BackupInv'
<1>1. UNCHANGED <<live, made, rows, txn, job, out, ever>> /\ out \in (DOMAIN made) \cup {-1, 0}
  BY DEF Fetch, TypeOK
<1>2. /\ restore \in Restores /\ restore.pc = "fetch" /\ restore.got < restore.chunks
      /\ restore.id \in ever
  BY DEF Fetch, TypeOK, Restores, BackupInv, RestoreInv
<1>3. restore.got + 1 \in 0 .. NChunks /\ restore.got \in Chunks
  BY <1>2 DEF Restores, Chunks
<1>4. CASE <<restore.id, restore.got>> \in rows
  <2>1. restore' = [restore EXCEPT !.got = @ + 1]
    BY <1>4 DEF Fetch
  <2>2. restore' \in Restores /\ restore'.pc = "fetch" /\ restore'.id = restore.id
    BY <1>2, <1>3, <2>1 DEF Restores
  <2> QED BY <1>1, <1>2, <2>2, RestoreMoves
<1>5. CASE <<restore.id, restore.got>> \notin rows
  <2>1. restore' = [restore EXCEPT !.pc = "missing"]
    BY <1>5 DEF Fetch
  <2>2. restore' \in Restores /\ restore'.pc = "missing" /\ restore'.id = restore.id
    BY <1>2, <2>1 DEF Restores
  <2>3. ~ ({restore.id} \X Chunks \subseteq rows)
    BY <1>3, <1>5
  <2>4. Cardinality({b \in ever : b > restore.id}) >= Keep
    BY <1>2, <2>3 DEF BackupInv, StoredInv, NewestKeepSurvive
  <2> QED BY <1>1, <1>2, <2>2, <2>4, RestoreMoves
<1> QED BY <1>4, <1>5

LEMMA VerifyStep ==
  ASSUME TypeOK, BackupInv, Verify PROVE TypeOK' /\ BackupInv'
<1>1. UNCHANGED <<live, made, rows, txn, job, out, ever>> /\ out \in (DOMAIN made) \cup {-1, 0}
  BY DEF Verify, TypeOK
<1>2. restore \in Restores /\ restore.id \in ever
  BY DEF Verify, TypeOK, Restores, BackupInv, RestoreInv
<1>3. restore' = [restore EXCEPT !.pc = "link"] \/ restore' = NoRestore
  BY DEF Verify
<1>4. /\ restore' \in Restores
      /\ restore'.pc = "idle" \/ (restore'.pc = "link" /\ restore'.id = restore.id)
  BY <1>2, <1>3 DEF NoRestore, Restores
<1> QED BY <1>1, <1>2, <1>4, RestoreMoves

LEMMA LinkStep ==
  ASSUME TypeOK, BackupInv, Link PROVE TypeOK' /\ BackupInv'
<1>1. UNCHANGED <<live, made, rows, txn, job, ever>> /\ restore' = NoRestore
  BY DEF Link
<1>2. restore' \in Restores /\ restore'.pc = "idle"
  BY <1>1 DEF NoRestore, Restores
<1>3. out' \in (DOMAIN made) \cup {-1, 0}
  BY DEF Link, LinkTo, TypeOK
<1> QED BY <1>1, <1>2, <1>3, RestoreMoves

LEMMA AbandonStep ==
  ASSUME TypeOK, BackupInv, Abandon PROVE TypeOK' /\ BackupInv'
<1>1. UNCHANGED <<live, made, rows, txn, job, out, ever>> /\ restore' = NoRestore
  BY DEF Abandon
<1>2. restore' \in Restores /\ restore'.pc = "idle"
  BY <1>1 DEF NoRestore, Restores
<1>3. out' \in (DOMAIN made) \cup {-1, 0}
  BY <1>1 DEF TypeOK
<1> QED BY <1>1, <1>2, <1>3, RestoreMoves

LEMMA FilesStep ==
  ASSUME TypeOK, BackupInv, LiveChanges \/ OutAppears \/ OutRemoved \/ UNCHANGED vars
  PROVE  TypeOK' /\ BackupInv'
<1>1. UNCHANGED <<made, rows, txn, job, restore, ever>>
  BY DEF LiveChanges, OutAppears, OutRemoved, vars
<1>2. live' \in Files /\ out' \in (DOMAIN made) \cup {-1, 0}
  BY DEF LiveChanges, OutAppears, OutRemoved, vars, TypeOK
<1>3. TypeOK'
  BY <1>1, <1>2 DEF TypeOK
<1>4. RestoreInv'
  BY <1>1 DEF BackupInv, RestoreInv, MissingOnlyIfOutlived
<1> QED BY <1>1, <1>3, <1>4, QuietKeeps

-----------------------------------------------------------------------------
(* What holds *)

LEMMA BackupInit == Init => TypeOK /\ BackupInv
<1> SUFFICES ASSUME Init PROVE TypeOK /\ BackupInv
  OBVIOUS
<1>1. 0 \in Chunks /\ DOMAIN made = {} /\ Len(made) = 0 /\ made \in Seq(Files)
  BY DEF Init, Chunks
<1>2. \A r \in Runners : job[r] = NoJob
  BY DEF Init
<1>3. TypeOK
  <2>1. NoJob \in Jobs
    BY <1>1 DEF NoJob, Jobs, Pcs, Files
  <2>2. job \in [Runners -> Jobs]
    BY <2>1 DEF Init
  <2>3. restore \in Restores
    BY DEF Init, NoRestore, Restores
  <2>4. /\ live \in Files /\ Len(made) <= MaxBackups /\ rows = {} /\ ever = {} /\ out = 0
        /\ txn \in [id : (DOMAIN made) \cup {0}, rows : SUBSET ((DOMAIN made) \X Chunks)]
    BY <1>1 DEF Init, NoTxn
  <2> QED BY <1>1, <2>2, <2>3, <2>4 DEF TypeOK, Jobs, Pcs, Restores
<1>4. \A r \in Runners : RunInv(job[r])
  BY <1>2 DEF RunInv, NoJob
<1>5. TxnInv /\ OwnStamps
  BY <1>2 DEF Init, NoTxn, NoJob, TxnInv, OwnStamps
<1>6. RestoreInv
  BY DEF Init, NoRestore, RestoreInv, MissingOnlyIfOutlived
<1>7. Stored(rows) = {} /\ ever = {}
  BY DEF Init, Stored
<1>8. Stored(rows) \subseteq ever /\ OnlyWholeGoodBackups
  BY <1>7 DEF OnlyWholeGoodBackups
<1>9. NewestKeepSurvive
  <2>1. \A r \in Runners : job[r].said = "nothing"
    BY <1>2 DEF NoJob
  <2> QED BY <1>7, <2>1 DEF NewestKeepSurvive
<1> QED BY <1>3, <1>4, <1>5, <1>6, <1>8, <1>9 DEF BackupInv, StoredInv

LEMMA BackupStep == TypeOK /\ BackupInv /\ [Next]_vars => TypeOK' /\ BackupInv'
  BY RunnerStep, RollbackStep, ListStep, FetchStep, VerifyStep, LinkStep, AbandonStep, FilesStep
     DEF Next

(* What Turso holds, what a transaction would add and what each run may    *)
(* still do agree at every step, whatever is lost, closed or killed.       *)
THEOREM BackupInvariant == Spec => [](TypeOK /\ BackupInv)
  BY BackupInit, BackupStep, PTL DEF Spec

(* Turso never holds part of a backup, nor one of a damaged or empty       *)
(* database: a prune never makes room for less (Put, checkSnapshot).       *)
THEOREM StoredAreWhole == Spec => []OnlyWholeGoodBackups
<1>1. BackupInv => OnlyWholeGoodBackups
  BY DEF BackupInv, StoredInv
<1> QED BY <1>1, BackupInvariant, PTL

(* A backup that was stored, or that a run says it stored, is whole until  *)
(* Keep newer ones were (Prune, Runner.Run).                               *)
THEOREM NewestAreKept == Spec => []NewestKeepSurvive
<1>1. BackupInv => NewestKeepSurvive
  BY DEF BackupInv, StoredInv
<1> QED BY <1>1, BackupInvariant, PTL

(* A run that is over has left no transaction open, unless an answer was   *)
(* lost or it was killed (pipeline's baton, Put's deferred close).         *)
THEOREM RunsCloseTheirs == Spec => []NoTransactionLeftOpen
<1>1. BackupInv => NoTransactionLeftOpen
  BY DEF BackupInv, RunInv, NoTransactionLeftOpen
<1> QED BY <1>1, BackupInvariant, PTL

(* A restore finds a chunk of what it listed missing only if Keep newer    *)
(* backups were stored meanwhile (Fetch, Prune).                           *)
THEOREM RestoreMissesOnlyTheOld == Spec => []MissingOnlyIfOutlived
<1>1. BackupInv => MissingOnlyIfOutlived
  BY DEF BackupInv, RestoreInv
<1> QED BY <1>1, BackupInvariant, PTL

-----------------------------------------------------------------------------
(* The store they promise *)

LEMMA PromiseQuiet ==
  ASSUME UNCHANGED <<rows, ever, out>> PROVE [Promise!Next]_(Promise!vars)
  BY DEF Promise!vars

LEMMA PromiseCommit ==
  ASSUME TypeOK, BackupInv, NEW r \in Runners, Commit(r) PROVE [Promise!Next]_(Promise!vars)
<1>1. PICK b : b = job[r].id
  OBVIOUS
<1>2. PICK o \in Outcomes(job[r].baton /\ txn.id = b) :
        /\ rows' = IF o.ran THEN rows \cup txn.rows ELSE rows
        /\ ever' = IF o.ran THEN ever \cup {b} ELSE ever
  BY <1>1 DEF Commit
<1>3. out' = out
  BY DEF Commit
<1>4. CASE ~ o.ran
  BY <1>2, <1>3, <1>4, PromiseQuiet
<1>5. CASE o.ran
  <2>1. txn.id = b /\ b # 0 /\ b \in DOMAIN made
    BY <1>1, <1>2, <1>5, OutcomeFacts, Fields DEF Commit, BackupInv, RunInv
  <2>2. txn.rows = {b} \X Chunks /\ b \notin ever
    BY <1>1, <2>1 DEF Commit, BackupInv, TxnInv
  <2>3. b \in Ids
    BY <2>1 DEF TypeOK, Ids
  <2>4. Promise!Store(b)
    BY <1>2, <1>3, <1>5, <2>2 DEF Promise!Store
  <2> QED BY <2>3, <2>4 DEF Promise!Next
<1> QED BY <1>4, <1>5

LEMMA PromisePrune ==
  ASSUME NEW r \in Runners, Prune(r) PROVE [Promise!Next]_(Promise!vars)
<1>1. UNCHANGED <<ever, out>> /\ (rows' = Spared(rows) \/ rows' = rows)
  BY DEF Prune
<1>2. Promise!Spared(rows) = Spared(rows)
  <2>1. Promise!Stored(rows) = Stored(rows)
    BY DEF Promise!Stored, Stored
  <2>2. \A S : Promise!Cardinality(S) = Cardinality(S)
    BY DEF Promise!Cardinality, Cardinality
  <2> QED BY <2>1, <2>2 DEF Promise!Spared, Spared
<1>3. CASE rows' = rows
  BY <1>1, <1>3, PromiseQuiet
<1>4. CASE rows' = Spared(rows)
  BY <1>1, <1>2, <1>4 DEF Promise!Next, Promise!Prune
<1> QED BY <1>1, <1>3, <1>4

LEMMA PromiseStep ==
  ASSUME TypeOK, BackupInv, [Next]_vars PROVE [Promise!Next]_(Promise!vars)
<1>1. ASSUME NEW r \in Runners, Step(r) PROVE [Promise!Next]_(Promise!vars)
  <2>1. CASE Snapshot(r) \/ Stamp(r) \/ GiveUp(r) \/ Begin(r) \/ Close(r) \/ Crash(r)
    BY <2>1, PromiseQuiet DEF Snapshot, Stamp, GiveUp, Begin, Close, Crash
  <2>2. CASE Insert(r)
    <3>1. job[r].baton
      BY <2>2 DEF Insert, BackupInv, RunInv
    <3>2. UNCHANGED <<rows, ever, out>>
      BY <2>2, <3>1 DEF Insert
    <3> QED BY <3>2, PromiseQuiet
  <2>3. CASE Commit(r)
    BY <2>3, PromiseCommit
  <2>4. CASE Prune(r)
    BY <2>4, PromisePrune
  <2> QED BY <1>1, <2>1, <2>2, <2>3, <2>4 DEF Step
<1>2. CASE Link
  <2>1. restore.id \in ever /\ UNCHANGED <<rows, ever>> /\ out' = IF out = 0 THEN restore.id ELSE out
    BY <1>2 DEF Link, LinkTo, BackupInv, RestoreInv
  <2>2. CASE out = 0
    BY <2>1, <2>2 DEF Promise!Next, Promise!Write
  <2>3. CASE out # 0
    BY <2>1, <2>3, PromiseQuiet
  <2> QED BY <2>2, <2>3
<1>3. CASE OutAppears
  BY <1>3 DEF OutAppears, Promise!Next, Promise!Write
<1>4. CASE OutRemoved
  BY <1>4 DEF OutRemoved, Promise!Next, Promise!Remove
<1>5. CASE IdleRollback \/ List \/ Fetch \/ Verify \/ Abandon \/ LiveChanges \/ UNCHANGED vars
  BY <1>5, PromiseQuiet DEF IdleRollback, List, Fetch, Verify, Abandon, LiveChanges, vars
<1> QED BY <1>1, <1>2, <1>3, <1>4, <1>5 DEF Next

(* Runs, restores, lost answers and crashes amount to an atomic store: a   *)
(* backup appears whole or not at all, only a prune removes any and spares *)
(* the newest Keep, and a restore writes only where no file was (Put,      *)
(* Prune, Restore).                                                        *)
THEOREM AtomicStore == Spec => KeepsItsPromise
<1>1. Init => Promise!Init
  BY DEF Init, Promise!Init
<1>2. TypeOK /\ BackupInv /\ [Next]_vars => [Promise!Next]_(Promise!vars)
  BY PromiseStep
<1> QED BY <1>1, <1>2, BackupInvariant, PTL DEF Spec, KeepsItsPromise, Promise!Spec
=============================================================================
