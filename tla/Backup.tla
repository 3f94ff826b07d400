------------------------------ MODULE Backup ------------------------------
(***************************************************************************)
(* The nightly backup and one run by hand, against one Turso database      *)
(* (backup/backup.go, backup/turso.go, cmd/backup.go), and a restore that  *)
(* reads while they store and prune.                                       *)
(*                                                                         *)
(* Turso runs one write transaction at a time, each on a stream that the   *)
(* client names by its baton.  A call may not arrive, may run with its     *)
(* answer lost, may fail, and Turso may close the stream after any call or *)
(* while it is idle: a stream that closes rolls its transaction back.      *)
(***************************************************************************)
EXTENDS Integers, FiniteSets, Sequences

CONSTANTS
    Runners,     \* who takes backups: "serve" at night, "hand" at any time
    Keep,        \* BACKUP_KEEP
    NChunks,     \* the chunks of a backup
    MaxBackups   \* bound: backups that get an id

ASSUME BackupAssumption ==
    /\ Runners \subseteq {"serve", "hand"}
    /\ Keep \in Nat \ {0}
    /\ NChunks \in Nat \ {0}
    /\ MaxBackups \in Nat

VARIABLES
    live,     \* the database file
    made,     \* what each id is a copy of: ids are in time stamp order
    rows,     \* the table in Turso: <<id, chunk>>
    txn,      \* Turso's write transaction: the id it stores, its rows
    job,      \* each runner's run
    restore,  \* the restore
    out,      \* its output file: 0 if none, -1 if not a restore's, or an id
    ever      \* history: the backups whose COMMIT was executed

vars == <<live, made, rows, txn, job, restore, out, ever>>

Chunks == 0 .. NChunks - 1
Files  == {"good", "empty", "damaged", "missing"}

NoTxn == [id |-> 0, rows |-> {}]

NoJob == [pc |-> "idle", copy |-> "good", id |-> 0, next |-> 0,
          baton |-> FALSE, lost |-> FALSE, said |-> "nothing"]

NoRestore == [pc |-> "idle", id |-> 0, chunks |-> 0, got |-> 0]

-----------------------------------------------------------------------------
(* Turso *)

(* What becomes of a call: it ran, it was answered (with 200 and JSON), the*)
(* answer is no error, and the stream is open after it.                    *)
Outcomes(canRun) ==
    {o \in [ran : BOOLEAN, answered : BOOLEAN, ok : BOOLEAN, open : BOOLEAN] :
        /\ o.ran => canRun
        /\ o.ok => o.ran /\ o.answered}

Pipeline_errorDropsBaton(baton, o) == IF o.ok THEN o.open ELSE FALSE

(* The baton a call returns: the answer's, else the one it was given.      *)
Pipeline(baton, o) == IF o.answered THEN o.open ELSE baton

Reached(o) == o.ran \/ o.answered

(* b's transaction once the stream has seen o.                             *)
TxnAfter(b, o, then) ==
    CASE ~ Reached(o) -> txn
      [] Reached(o) /\ o.open -> then
      [] OTHER -> IF txn.id = b THEN NoTxn ELSE txn

(* Turso rolls a stream left alone back: after a crash, a lost baton, or   *)
(* under a run that is slow.                                               *)
IdleRollback ==
    /\ txn # NoTxn
    /\ txn' = NoTxn
    /\ UNCHANGED <<live, made, rows, job, restore, out, ever>>

-----------------------------------------------------------------------------
(* A run *)

(* The command needs a file; serve has had its own open since it started,  *)
(* if only as an unlinked one.                                             *)
Opens(r) == r = "hand" => live # "missing"

Snapshot(r) ==
    /\ job[r].pc = "idle"
    /\ Len(made) < MaxBackups
    /\ Opens(r)
    /\ \E copy \in IF live = "missing" THEN {"good", "empty"} ELSE {live} :
        job' = [job EXCEPT ![r] = [NoJob EXCEPT !.pc = "check", !.copy = copy]]
    /\ UNCHANGED <<live, made, rows, txn, restore, out, ever>>

(* Verify: integrity_check and a count of every table.                     *)
Sound(copy) == copy # "damaged"

(* checkSnapshot: a sound database with mirror rows in it.                 *)
Acceptable(copy) == Sound(copy) /\ copy = "good"

(* The checked copy is encrypted and gets its time stamp.                  *)
Stamp(r) ==
    /\ job[r].pc = "check"
    /\ Acceptable(job[r].copy)
    /\ Len(made) < MaxBackups
    /\ made' = Append(made, job[r].copy)
    /\ job' = [job EXCEPT ![r].pc = "begin", ![r].id = Len(made) + 1]
    /\ UNCHANGED <<live, rows, txn, restore, out, ever>>

(* Put's deferred function closes the stream if there is one.              *)
Failed(baton) == IF baton THEN "close" ELSE "idle"

(* Refused, or an error on this side: a file, the table, an early stop.    *)
GiveUp(r) ==
    /\ job[r].pc \in {"check", "begin", "insert"}
    /\ job' = [job EXCEPT ![r].pc = Failed(job[r].baton)]
    /\ UNCHANGED <<live, made, rows, txn, restore, out, ever>>

RequireStream_never(baton) == TRUE

RequireStream(baton) == baton

(* What a run makes of a call's outcome.                                   *)
Told(r, o, good, next) ==
    LET baton == Pipeline(job[r].baton, o)
    IN [job EXCEPT ![r].pc = IF o.ok /\ good THEN next ELSE Failed(baton),
                   ![r].baton = baton,
                   ![r].lost = @ \/ ~ o.answered]

(* BEGIN IMMEDIATE on a new stream.                                        *)
Begin(r) ==
    /\ job[r].pc = "begin"
    /\ \E o \in Outcomes(txn = NoTxn) :
        /\ txn' = IF o.ran /\ o.open THEN [id |-> job[r].id, rows |-> {}] ELSE txn
        /\ job' = Told(r, o, RequireStream(Pipeline(FALSE, o)), "insert")
    /\ UNCHANGED <<live, made, rows, restore, out, ever>>

Last(next) == next = NChunks - 1

(* One chunk.  Without a baton it would go to a new stream and commit.     *)
Insert(r) ==
    LET b   == job[r].id
        row == <<b, job[r].next>>
        mine == IF job[r].baton THEN txn.id = b ELSE txn = NoTxn
    IN /\ job[r].pc = "insert"
       /\ \E o \in Outcomes(mine) :
           LET then == IF o.ran /\ job[r].baton
                       THEN [txn EXCEPT !.rows = @ \cup {row}] ELSE txn
               good == RequireStream(Pipeline(job[r].baton, o))
               last == Last(job[r].next)
           IN /\ txn' = TxnAfter(b, o, then)
              /\ rows' = IF o.ran /\ ~ job[r].baton THEN rows \cup {row} ELSE rows
              /\ job' = [Told(r, o, good, IF last THEN "commit" ELSE "insert")
                           EXCEPT ![r].next = IF last THEN @ ELSE @ + 1]
       /\ UNCHANGED <<live, made, restore, out, ever>>

(* COMMIT and close, in one call.                                          *)
Commit(r) ==
    LET b == job[r].id
    IN /\ job[r].pc = "commit"
       /\ \E o \in Outcomes(job[r].baton /\ txn.id = b) :
           /\ ~ o.open
           /\ rows' = IF o.ran THEN rows \cup txn.rows ELSE rows
           /\ ever' = IF o.ran THEN ever \cup {b} ELSE ever
           /\ txn' = TxnAfter(b, o, txn)
           /\ job' = Told(r, o, TRUE, "prune")
       /\ UNCHANGED <<live, made, restore, out>>

(* The deferred close has a context of its own, but the call can fail.     *)
Close(r) ==
    /\ job[r].pc = "close"
    /\ \E arrives \in BOOLEAN :
        /\ txn' = IF arrives /\ txn.id = job[r].id THEN NoTxn ELSE txn
        /\ job' = [job EXCEPT ![r].pc = "idle", ![r].lost = @ \/ ~ arrives]
    /\ UNCHANGED <<live, made, rows, restore, out, ever>>

Stored(rs) == {row[1] : row \in rs}

Spared_byStorage(rs) ==
    {row \in rs : Cardinality({b \in Stored(rs) : b < row[1]}) < Keep}
Spared_oneShort(rs) ==
    {row \in rs : Cardinality({b \in Stored(rs) : b > row[1]}) < Keep - 1}

Spared(rs) ==
    {row \in rs : Cardinality({b \in Stored(rs) : b > row[1]}) < Keep}

(* The DELETE; if it fails the run still names the backup it stored.       *)
Prune(r) ==
    /\ job[r].pc = "prune"
    /\ \E o \in Outcomes(txn = NoTxn) :
        /\ rows' = IF o.ran THEN Spared(rows) ELSE rows
        /\ job' = [job EXCEPT ![r].pc = "idle",
                              ![r].said = IF o.ok THEN "ok" ELSE "stored"]
    /\ UNCHANGED <<live, made, txn, restore, out, ever>>

(* serve is killed, or the command.                                        *)
Crash(r) ==
    /\ job[r].pc # "idle"
    /\ job' = [job EXCEPT ![r] = [NoJob EXCEPT !.id = job[r].id, !.lost = TRUE]]
    /\ UNCHANGED <<live, made, rows, txn, restore, out, ever>>

-----------------------------------------------------------------------------
(* A restore *)

(* No file at Out; then the list, and one of it: the newest or by its id.  *)
List ==
    /\ restore.pc \in {"idle", "missing"}
    /\ out = 0
    /\ \E b \in Stored(rows) :
        restore' = [pc |-> "fetch", id |-> b, got |-> 0,
                    chunks |-> Cardinality({row \in rows : row[1] = b})]
    /\ UNCHANGED <<live, made, rows, txn, job, out, ever>>

Fetch ==
    /\ restore.pc = "fetch"
    /\ restore.got < restore.chunks
    /\ restore' = IF <<restore.id, restore.got>> \in rows
                  THEN [restore EXCEPT !.got = @ + 1]
                  ELSE [restore EXCEPT !.pc = "missing"]
    /\ UNCHANGED <<live, made, rows, txn, job, out, ever>>

(* The size it was stored with, then integrity_check of the temp file.     *)
Verify ==
    /\ restore.pc = "fetch"
    /\ restore.got = restore.chunks
    /\ restore' = IF restore.got = NChunks /\ Sound(made[restore.id])
                  THEN [restore EXCEPT !.pc = "link"] ELSE NoRestore
    /\ UNCHANGED <<live, made, rows, txn, job, out, ever>>

LinkTo_rename(old, b) == b

(* os.Link fails where os.Rename would replace.                            *)
LinkTo(old, b) == IF old = 0 THEN b ELSE old

Link ==
    /\ restore.pc = "link"
    /\ out' = LinkTo(out, restore.id)
    /\ restore' = NoRestore
    /\ UNCHANGED <<live, made, rows, txn, job, ever>>

(* A failed call, altered data, the wrong key, or a kill.                  *)
Abandon ==
    /\ restore.pc \in {"fetch", "link"}
    /\ restore' = NoRestore
    /\ UNCHANGED <<live, made, rows, txn, job, out, ever>>

-----------------------------------------------------------------------------
(* What others do to the two files *)

LiveChanges ==
    /\ live' \in Files \ {live}
    /\ UNCHANGED <<made, rows, txn, job, restore, out, ever>>

OutAppears ==
    /\ out = 0
    /\ out' = -1
    /\ UNCHANGED <<live, made, rows, txn, job, restore, ever>>

OutRemoved ==
    /\ out # 0
    /\ out' = 0
    /\ UNCHANGED <<live, made, rows, txn, job, restore, ever>>

-----------------------------------------------------------------------------

Init ==
    /\ live \in Files
    /\ made = <<>>
    /\ rows = {} /\ ever = {}
    /\ txn = NoTxn
    /\ job = [r \in Runners |-> NoJob]
    /\ restore = NoRestore
    /\ out = 0

Step(r) ==
    \/ Snapshot(r) \/ Stamp(r) \/ GiveUp(r) \/ Begin(r) \/ Insert(r)
    \/ Commit(r) \/ Close(r) \/ Prune(r) \/ Crash(r)

Next ==
    \/ \E r \in Runners : Step(r)
    \/ IdleRollback
    \/ List \/ Fetch \/ Verify \/ Link \/ Abandon
    \/ LiveChanges \/ OutAppears \/ OutRemoved

Spec == Init /\ [][Next]_vars

-----------------------------------------------------------------------------
(* Properties *)

Ids == 1 .. MaxBackups

TypeOK ==
    /\ live \in Files
    /\ made \in Seq(Files) /\ Len(made) <= MaxBackups
    /\ rows \subseteq (DOMAIN made) \X Chunks
    /\ ever \subseteq DOMAIN made
    /\ txn \in [id : (DOMAIN made) \cup {0}, rows : SUBSET ((DOMAIN made) \X Chunks)]
    /\ job \in [Runners ->
                   [pc : {"idle", "check", "begin", "insert", "commit", "close",
                          "prune"},
                    copy : Files, id : (DOMAIN made) \cup {0}, next : Chunks,
                    baton : BOOLEAN, lost : BOOLEAN,
                    said : {"nothing", "stored", "ok"}]]
    /\ restore \in [pc : {"idle", "fetch", "link", "missing"},
                    id : (DOMAIN made) \cup {0}, chunks : 0 .. NChunks,
                    got : 0 .. NChunks]
    /\ out \in (DOMAIN made) \cup {-1, 0}

(* Whatever is lost, closed or killed, and whoever else writes: what Turso *)
(* holds is whole backups of sound databases with data in them, so that no *)
(* prune makes room for less (Runner.Run, checkSnapshot, Put).             *)
OnlyWholeGoodBackups ==
    \A b \in Stored(rows) : {b} \X Chunks \subseteq rows /\ made[b] = "good"

(* A backup that was committed, or that a run names as stored, is there    *)
(* until Keep newer ones were: a run with an old time stamp may prune its  *)
(* own, never a newer one (Prune, Runner.Run's Result).                    *)
NewestKeepSurvive ==
    \A b \in ever \cup {job[r].id : r \in {s \in Runners : job[s].said # "nothing"}} :
        \/ {b} \X Chunks \subseteq rows
        \/ Cardinality({c \in ever : c > b}) >= Keep

(* A run that is over has left no transaction for the others to wait for,  *)
(* whatever failed, unless an answer was lost or the process was killed    *)
(* (the baton pipeline returns, Put's deferred close).                     *)
NoTransactionLeftOpen ==
    \A r \in Runners :
        job[r].pc = "idle" /\ ~ job[r].lost /\ job[r].id # 0
            => txn.id # job[r].id

(* A restore misses a chunk of a listed backup only when Keep newer ones   *)
(* were stored meanwhile (Fetch against Put and Prune).                    *)
MissingOnlyIfOutlived ==
    restore.pc = "missing" => Cardinality({b \in ever : b > restore.id}) >= Keep

Promise == INSTANCE BackupStore WITH Backups <- Ids

(* Runs and restores are the atomic store of BackupStore: a backup appears *)
(* whole, only a prune removes one, and a restore writes only a file that  *)
(* was not there, with a backup that was stored (Put, Prune, Restore).     *)
KeepsItsPromise == Promise!Spec

-----------------------------------------------------------------------------
(* Why they hold, whatever the chunks, the number kept and the number of   *)
(* backups: an inductive invariant (BackupProofs).                         *)

StoredInv ==
    /\ Stored(rows) \subseteq ever
    /\ OnlyWholeGoodBackups
    /\ NewestKeepSurvive

(* The transaction holds what its one runner sent, in order and from the   *)
(* first chunk on, and was not committed.                                  *)
TxnInv ==
    /\ txn.id # 0 => made[txn.id] = "good" /\ txn.id \notin ever
    /\ \A r \in Runners : txn.id # 0 /\ txn.id = job[r].id =>
          /\ job[r].pc = "insert" => txn.rows = {txn.id} \X (0 .. job[r].next - 1)
          /\ job[r].pc = "commit" => txn.rows = {txn.id} \X Chunks

(* A run has a time stamp of its own; from BEGIN to COMMIT it has a baton; *)
(* before and after, Turso has nothing of it open.                         *)
RunInv(j) ==
    /\ j.pc = "check" => j.id = 0 /\ j.next = 0 /\ ~ j.baton /\ j.said = "nothing"
    /\ j.pc = "begin" =>
          /\ j.id # 0 /\ j.next = 0 /\ ~ j.baton
          /\ made[j.id] = "good" /\ j.id \notin ever
    /\ j.pc \in {"insert", "commit"} => j.id # 0 /\ j.baton
    /\ j.pc = "prune" \/ j.said # "nothing" => j.id \in ever
    /\ j.id # 0 /\ (j.pc \in {"begin", "prune"} \/ (j.pc = "idle" /\ ~ j.lost))
          => txn.id # j.id

OwnStamps ==
    \A r, s \in Runners : job[r].id # 0 /\ job[r].id = job[s].id => r = s

RestoreInv ==
    /\ restore.pc # "idle" => restore.id \in ever
    /\ MissingOnlyIfOutlived

BackupInv ==
    /\ StoredInv /\ TxnInv /\ OwnStamps /\ RestoreInv
    /\ \A r \in Runners : RunInv(job[r])
=============================================================================
