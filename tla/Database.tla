------------------------------ MODULE Database ------------------------------
(***************************************************************************)
(* One SQLite file shared by the processes of finbot (store/store.go,      *)
(* store/migrate.go): how each opens and migrates it, and writeTx, the one *)
(* way to write to it, with every way a statement of it can fail.          *)
(*                                                                         *)
(* A connection in a transaction holds SQLite's write lock from BEGIN      *)
(* IMMEDIATE on, and what it has written so far is its draft.  Between two *)
(* statements the process may die, and another process may try its own.    *)
(***************************************************************************)
EXTENDS Integers, FiniteSets

CONSTANTS
    Procs,      \* processes that open the file
    NMigrations,\* embedded migrations, numbered from 1
    Repeatable, \* those whose statements would succeed a second time
    Blank,      \* the other tables of a new file
    NoOne       \* nobody holds the write lock

Migrations == 1 .. NMigrations

ASSUME DatabaseAssumption ==
    /\ NMigrations \in Nat
    /\ Repeatable \subseteq Migrations
    /\ NoOne \notin Procs

VARIABLES
    file,  \* what is committed: recorded versions, how often the statements
           \* of each migration took effect, and the other tables
    lock,  \* the process whose connection holds the write lock
    conn,  \* each process's writer connection: in a transaction or not
    draft, \* what the open transaction would commit; the file if none is
    step,  \* where each process is in writeTx
    proc   \* what each process is doing, and the migrations it has to apply

dbVars == <<file, lock, conn, draft, step, proc>>

Down == [pc |-> "down", todo |-> {}]

Go(p, pc) == proc' = [proc EXCEPT ![p].pc = pc]

-----------------------------------------------------------------------------
(* writeTx *)

(* BEGIN IMMEDIATE on the pinned connection.                               *)
Begin(p) ==
    /\ step[p] = "none"
    /\ conn[p] = "out" /\ lock = NoOne
    /\ lock' = p
    /\ conn' = [conn EXCEPT ![p] = "in"]
    /\ step' = [step EXCEPT ![p] = "fn"]
    /\ UNCHANGED <<file, draft, proc>>

FirstOf(todo) == CHOOSE m \in todo : \A n \in todo : m <= n

(* What follows a writeTx: Open fails with its migration, everything else  *)
(* reports its error and goes on.                                          *)
Ended(p, ok) ==
    IF proc[p].pc # "migrate" THEN Go(p, "up")
    ELSE IF ok THEN proc' = [proc EXCEPT ![p].todo = @ \ {FirstOf(proc[p].todo)}]
    ELSE proc' = [proc EXCEPT ![p] = Down]

(* The connection of p is as conn' says; a transaction that ended without  *)
(* a COMMIT leaves nothing.                                                *)
Release(p) ==
    IF lock = p /\ conn'[p] = "out" THEN lock' = NoOne /\ draft' = file
    ELSE UNCHANGED <<lock, draft>>

(* Busy for five seconds, a cancelled context, a connection that is still  *)
(* in a transaction.                                                       *)
BeginFails(p) ==
    /\ step[p] = "none"
    /\ proc[p].pc \in {"migrate", "write"} /\ (proc[p].pc = "migrate" => proc[p].todo # {})
    /\ Ended(p, FALSE)
    /\ conn' = [conn EXCEPT ![p] = IF proc[p].pc = "migrate" THEN "out" ELSE @]
    /\ Release(p)
    /\ UNCHANGED <<file, step>>

(* fn's statements, or some of them and then an error.                     *)
Fn(p, after) ==
    /\ step[p] = "fn"
    /\ draft' = after
    /\ step' = [step EXCEPT ![p] = "commit"]
    /\ UNCHANGED <<file, lock, conn, proc>>

FnFails(p, after) ==
    /\ step[p] = "fn"
    /\ draft' = after
    /\ step' = [step EXCEPT ![p] = "rollback"]
    /\ UNCHANGED <<file, lock, conn, proc>>

Commit(p) ==
    /\ step[p] = "commit"
    /\ file' = draft
    /\ lock' = NoOne
    /\ conn' = [conn EXCEPT ![p] = "out"]
    /\ step' = [step EXCEPT ![p] = "none"]
    /\ Ended(p, TRUE)
    /\ UNCHANGED draft

(* SQLite may keep the transaction open, or have rolled it back already.   *)
CommitFails(p) ==
    /\ step[p] = "commit"
    /\ \E left \in {"in", "out"} : conn' = [conn EXCEPT ![p] = left]
    /\ Release(p)
    /\ step' = [step EXCEPT ![p] = "rollback"]
    /\ UNCHANGED <<file, proc>>

Left_asItWas(p, works) == IF works THEN "out" ELSE conn[p]

(* The connection after the deferred ROLLBACK: if that fails too, it is    *)
(* dropped from the pool, and its transaction ends with it.                *)
Left(p, works) == "out"

Rollback(p) ==
    /\ step[p] = "rollback"
    /\ \E works \in BOOLEAN :
        /\ works => conn[p] = "in"
        /\ conn' = [conn EXCEPT ![p] = Left(p, works)]
    /\ Release(p)
    /\ step' = [step EXCEPT ![p] = "none"]
    /\ Ended(p, FALSE)
    /\ UNCHANGED file

-----------------------------------------------------------------------------
(* Open *)

(* makePrivate, the pool and its pragmas: the file is there, and WAL on.   *)
Open(p) ==
    /\ proc[p].pc = "down"
    /\ Go(p, "create")
    /\ UNCHANGED <<file, lock, conn, draft, step>>

(* CREATE TABLE IF NOT EXISTS schema_migrations: a write of its own only   *)
(* while nobody can have got to a transaction.                             *)
CreateTable(p) ==
    /\ proc[p].pc = "create"
    /\ Go(p, "read")
    /\ UNCHANGED <<file, lock, conn, draft, step>>

(* SELECT version FROM schema_migrations.                                  *)
ReadVersions(p) ==
    /\ proc[p].pc = "read"
    /\ proc' = [proc EXCEPT ![p] = [pc |-> "migrate", todo |-> Migrations \ file.recorded]]
    /\ UNCHANGED <<file, lock, conn, draft, step>>

OpenFails(p) ==
    /\ proc[p].pc \in {"create", "read"}
    /\ proc' = [proc EXCEPT ![p] = Down]
    /\ UNCHANGED <<file, lock, conn, draft, step>>

BeginMigration(p) ==
    /\ proc[p].pc = "migrate" /\ proc[p].todo # {}
    /\ Begin(p)

(* applyMigration: the statements, and the version's row in the same       *)
(* transaction.  A second time they meet their own tables, or the row.     *)
Ran(d, m) == [d EXCEPT !.effects[m] = @ + 1]

Applied(d, m) == [Ran(d, m) EXCEPT !.recorded = @ \cup {m}]

Accepts_ignoringTheRow(d, m) == d.effects[m] = 0 \/ m \in Repeatable

Accepts(d, m) == (d.effects[m] = 0 \/ m \in Repeatable) /\ m \notin d.recorded

ApplyMigration(p) ==
    /\ proc[p].pc = "migrate" /\ proc[p].todo # {}
    /\ LET m == FirstOf(proc[p].todo) IN
       \/ Accepts(draft, m) /\ Fn(p, Applied(draft, m))
       \/ \E d \in {draft, Ran(draft, m)} : FnFails(p, d)

(* The read pool opens, and Open returns.                                  *)
OpenReads(p) ==
    /\ proc[p].pc = "migrate" /\ proc[p].todo = {} /\ step[p] = "none"
    /\ Go(p, "up")
    /\ UNCHANGED <<file, lock, conn, draft, step>>

(* Close, or death at any step: the connections go.                        *)
Stop(p) ==
    /\ proc[p].pc # "down"
    /\ proc' = [proc EXCEPT ![p] = Down]
    /\ step' = [step EXCEPT ![p] = "none"]
    /\ conn' = [conn EXCEPT ![p] = "out"]
    /\ Release(p)
    /\ UNCHANGED file

InitDatabase ==
    /\ file = [recorded |-> {}, effects |-> [m \in Migrations |-> 0], rows |-> Blank]
    /\ lock = NoOne
    /\ conn = [p \in Procs |-> "out"]
    /\ draft = file
    /\ step = [p \in Procs |-> "none"]
    /\ proc = [p \in Procs |-> Down]

DatabaseStep(p) ==
    \/ BeginFails(p) \/ Commit(p) \/ CommitFails(p) \/ Rollback(p)
    \/ Open(p) \/ CreateTable(p) \/ ReadVersions(p) \/ OpenFails(p)
    \/ BeginMigration(p) \/ ApplyMigration(p) \/ OpenReads(p)
    \/ Stop(p)

-----------------------------------------------------------------------------
(* Properties *)

(* writeTx: "any exit other than a successful COMMIT ... rolls back", so   *)
(* no failure of any of its statements leaves the writer connection in a   *)
(* transaction, or the file locked for everybody, once it has returned.    *)
WriterNeverStuck ==
    \A p \in Procs : step[p] = "none" => conn[p] = "out" /\ lock # p

(* Whichever processes open a new file together, and whatever fails or     *)
(* dies: each migration takes effect once, in order, exactly if it is      *)
(* recorded, and nobody works with the file before the last one did.       *)
MigratedOnce ==
    /\ \E last \in 0 .. NMigrations : file.recorded = 1 .. last
    /\ \A m \in Migrations : file.effects[m] = IF m \in file.recorded THEN 1 ELSE 0
    /\ \A p \in Procs : proc[p].pc \in {"up", "write"} => file.recorded = Migrations

(* Why the first holds: who is in a transaction, and where in writeTx.     *)
WriterInv ==
    \A p \in Procs :
        /\ conn[p] = "in" <=> lock = p
        /\ step[p] = "none" => conn[p] = "out"
        /\ step[p] \in {"fn", "commit"} => conn[p] = "in"
        /\ step[p] # "none" =>
              proc[p].pc = "write" \/ (proc[p].pc = "migrate" /\ proc[p].todo # {})

(* A prefix of the migrations took effect and is recorded.                 *)
Whole(d) ==
    /\ \E last \in 0 .. NMigrations : d.recorded = 1 .. last
    /\ \A m \in Migrations : d.effects[m] = IF m \in d.recorded THEN 1 ELSE 0

(* Why the second holds: a transaction starts from the file, and what it   *)
(* would commit is the file and its own migration; a list of migrations    *)
(* may be stale, and never leaves a gap.                                   *)
MigrationInv ==
    /\ Whole(file)
    /\ lock = NoOne => draft = file
    /\ \A p \in Procs :
        /\ step[p] = "fn" => draft = file
        /\ step[p] = "commit" =>
              /\ Whole(draft) /\ file.recorded \subseteq draft.recorded
              /\ proc[p].pc = "migrate" => FirstOf(proc[p].todo) \in draft.recorded
        /\ proc[p].pc = "migrate" =>
              \E k \in 0 .. NMigrations :
                proc[p].todo = (k + 1) .. NMigrations /\ 1 .. k \subseteq file.recorded
        /\ proc[p].pc \in {"up", "write"} => file.recorded = Migrations
=============================================================================
