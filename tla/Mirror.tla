------------------------------- MODULE Mirror -------------------------------
(***************************************************************************)
(* The sync tick (sync/sync.go, sync/mirror.go) over the SQLite mirror     *)
(* (store/mirror.go) of one YNAB plan.                                     *)
(*                                                                         *)
(* YNAB is external: a plan whose entities change under one growing number,*)
(* the server knowledge, and which answers a full export or the changes    *)
(* since a knowledge.  A process (serve's scheduler, or a `finbot sync`    *)
(* beside it) runs SyncPlan: read the cursor, fetch, stitch, compare the   *)
(* links, commit rows and cursor in one transaction, report.  Every read   *)
(* before the commit is its own snapshot of the database, so each is its   *)
(* own step.                                                               *)
(*                                                                         *)
(* A row keeps what the properties tell apart: the knowledge of its last   *)
(* change, the tombstone, the knowledge at which its import id appeared    *)
(* (transactions) and direct_import_in_error (accounts).                   *)
(*                                                                         *)
(* A definition with an underscore is a mistaken form of the one below it, *)
(* a bug the properties have to notice.                                    *)
(***************************************************************************)
EXTENDS Integers, FiniteSets

CONSTANTS
    Processes,         \* processes that may run a tick for the plan
    Accounts,          \* rows that carry direct_import_in_error
    Categories,        \* rows whose tombstones a full export includes
    Txns, Subs,        \* transactions and their split lines
    Scheds, SchedSubs, \* scheduled transactions and their split lines
    Parent,            \* the transaction (or schedule) each line belongs to
    MaxKnowledge       \* bound: YNAB changes the plan at most this often

Children == Subs \cup SchedSubs
Entities == Accounts \cup Categories \cup Txns \cup Scheds \cup Children

ASSUME BoundAssumption == MaxKnowledge \in Nat
ASSUME ParentAssumption ==
    /\ Parent \in [Children -> Txns \cup Scheds]
    /\ \A s \in Subs : Parent[s] \in Txns
    /\ Children \cap (Accounts \cup Categories \cup Txns \cup Scheds) = {}

VARIABLES
    knowledge, \* YNAB: the server knowledge of the plan
    srv,       \* YNAB: each entity's current row
    mirror,    \* SQLite: the mirrored rows
    cursor,    \* SQLite: sync_state.server_knowledge, NoCursor when no row
    firstSeen, \* SQLite: transactions.first_seen_at, as the tick's knowledge
    pc,        \* where each process is in SyncPlan
    base,      \* the cursor the tick read
    batch,     \* the rows it will upsert (Absent: not in the batch)
    sk,        \* the knowledge its payload came with
    events,    \* the accounts it will report a LinkEvent for
    told,      \* the link states the log's reader must reckon with
    applied    \* history: the cursors committed so far

external == <<knowledge, srv>>
stored   == <<mirror, cursor, firstSeen>>
memory   == <<base, batch, sk, events>>
vars     == <<external, stored, pc, memory, told, applied>>

NoCursor  == -1
Knowledge == 0 .. MaxKnowledge
Cursors   == Knowledge \cup {NoCursor}

Absent == [ver |-> 0, del |-> FALSE, imp |-> 0, err |-> FALSE]
Row    == [ver : Knowledge \ {0}, del : BOOLEAN, imp : Knowledge, err : BOOLEAN]
Rows   == [Entities -> Row \cup {Absent}]

Nothing == [e \in Entities |-> Absent]
Tombstone(row) == [row EXCEPT !.del = TRUE]

-----------------------------------------------------------------------------
(* YNAB *)

(* A row may change to any of these at knowledge k: an import id, once set, *)
(* stays, and only accounts have a bank link.                              *)
Revisions(e, k) ==
    { row \in [ver : {k}, del : BOOLEAN, imp : {srv[e].imp, k}, err : BOOLEAN] :
        /\ row.del => srv[e] # Absent
        /\ row.imp # srv[e].imp => e \in Txns /\ srv[e].imp = 0
        /\ row.err => e \in Accounts }

(* The plan changes: by a person, by an import, by the bank.  A tombstone  *)
(* is final, and a split line changes only under a live transaction.       *)
ServerChanges ==
    /\ knowledge < MaxKnowledge
    /\ knowledge' = knowledge + 1
    /\ \E e \in Entities :
         /\ ~ srv[e].del
         /\ e \in Children => srv[Parent[e]] # Absent /\ ~ srv[Parent[e]].del
         /\ \E row \in Revisions(e, knowledge + 1) :
              srv' = [srv EXCEPT ![e] = row]
    /\ UNCHANGED <<stored, pc, memory, told, applied>>

(* GET /plans/{id}: everything live, and the tombstones of categories.     *)
Export ==
    [e \in Entities |->
        IF srv[e].del /\ e \notin Categories THEN Absent ELSE srv[e]]

(* GET /plans/{id}?last_knowledge_of_server=k: what changed since k,       *)
(* tombstones included.                                                    *)
Delta_noTombstones(k) ==
    [e \in Entities |->
        IF srv[e].ver > k /\ ~ srv[e].del THEN srv[e] ELSE Absent]

Delta(k) == [e \in Entities |-> IF srv[e].ver > k THEN srv[e] ELSE Absent]

-----------------------------------------------------------------------------
(* The mirror *)

(* An upsert of every row of a batch. *)
Overlay_liveOnly(rows, b) ==
    [e \in Entities |-> IF b[e] # Absent /\ ~ b[e].del THEN b[e] ELSE rows[e]]

Overlay(rows, b) == [e \in Entities |-> IF b[e] # Absent THEN b[e] ELSE rows[e]]

(* stitch: lines whose parent is in neither the batch nor the mirror are   *)
(* dropped, and a transaction's tombstone takes its mirrored live lines    *)
(* that the batch does not mention with it.  Scheduled lines are dropped   *)
(* like the others but no tombstone is carried to them.                    *)
HasParent(b, s) == b[Parent[s]] # Absent \/ mirror[Parent[s]] # Absent

Orphans_none(b) == {}

Orphans(b) == { s \in Children : b[s] # Absent /\ ~ HasParent(b, s) }

TakenAlong_none(b) == {}

TakenAlong(b) ==
    { s \in Subs : /\ b[s] = Absent
                   /\ b[Parent[s]].del
                   /\ mirror[s] # Absent /\ ~ mirror[s].del }

Stitched(b) ==
    [e \in Entities |->
        IF e \in Orphans(b) THEN Absent
        ELSE IF e \in TakenAlong(b) THEN Tombstone(mirror[e])
        ELSE b[e]]

(* linkEvents: the live incoming accounts whose link state differs from    *)
(* the mirrored one; an account new to the mirror counts as healthy, and   *)
(* an initial load is not compared.                                        *)
LinkEvents_noBaseline(b, k) ==
    { a \in Accounts : b[a] # Absent /\ ~ b[a].del /\ b[a].err # mirror[a].err }

LinkEvents(b, k) ==
    { a \in Accounts : /\ k # NoCursor
                       /\ b[a] # Absent /\ ~ b[a].del
                       /\ b[a].err # mirror[a].err }

ForeignKeysHold(rows) ==
    \A s \in Children : rows[s] # Absent => rows[Parent[s]] # Absent

(* UpsertTransactions' rule for first_seen_at.                             *)
SeenBy_everyTime(b, k) ==
    [t \in Txns |-> IF b[t] # Absent THEN k ELSE firstSeen[t]]

SeenBy(b, k) ==
    [t \in Txns |->
        IF /\ b[t] # Absent
           /\ mirror[t] = Absent \/ (mirror[t].imp = 0 /\ b[t].imp # 0)
        THEN k ELSE firstSeen[t]]

(* SetSyncState: the cursor a committed tick leaves.                       *)
SavedCursor_stale(p) == base[p]
SavedCursor_zeroWhenIdle(p) == IF batch[p] = Nothing THEN 0 ELSE sk[p]

SavedCursor(p) == sk[p]

-----------------------------------------------------------------------------
(* One tick *)

ReadCursor(p) ==
    /\ pc[p] = "idle"
    /\ pc' = [pc EXCEPT ![p] = "read"]
    /\ base' = [base EXCEPT ![p] = cursor]
    /\ UNCHANGED <<external, stored, batch, sk, events, told, applied>>

Fetch(p) ==
    /\ pc[p] = "read"
    /\ pc' = [pc EXCEPT ![p] = "fetched"]
    /\ batch' = [batch EXCEPT ![p] =
                    IF base[p] = NoCursor THEN Export ELSE Delta(base[p])]
    /\ sk' = [sk EXCEPT ![p] = knowledge]
    /\ UNCHANGED <<external, stored, base, events, told, applied>>

Stitch(p) ==
    /\ pc[p] = "fetched"
    /\ pc' = [pc EXCEPT ![p] = "stitched"]
    /\ batch' = [batch EXCEPT ![p] = Stitched(@)]
    /\ UNCHANGED <<external, stored, base, sk, events, told, applied>>

CompareLinks(p) ==
    /\ pc[p] = "stitched"
    /\ pc' = [pc EXCEPT ![p] = "compared"]
    /\ events' = [events EXCEPT ![p] = LinkEvents(batch[p], base[p])]
    /\ UNCHANGED <<external, stored, base, batch, sk, told, applied>>

(* db.Update: the ten upserts and SetSyncState, or nothing.  An initial    *)
(* load records the link baseline instead of reporting it.                 *)
Commit(p) ==
    /\ pc[p] = "compared"
    /\ ForeignKeysHold(Overlay(mirror, batch[p]))
    /\ pc' = [pc EXCEPT ![p] = "committed"]
    /\ mirror' = Overlay(mirror, batch[p])
    /\ cursor' = SavedCursor(p)
    /\ firstSeen' = SeenBy(batch[p], sk[p])
    /\ applied' = applied \cup {sk[p]}
    /\ told' = IF base[p] = NoCursor
               THEN [a \in Accounts |-> {mirror'[a].err}] ELSE told
    /\ UNCHANGED <<external, memory>>

(* SyncPlan returns; syncPlan logs the tick with its link events.          *)
Report(p) ==
    /\ pc[p] = "committed"
    /\ pc' = [pc EXCEPT ![p] = "idle"]
    /\ told' = [a \in Accounts |->
                  IF a \in events[p] THEN {batch[p][a].err} ELSE told[a]]
    /\ UNCHANGED <<external, stored, memory, applied>>

(* The tick ends before its commit and stores nothing: the budget is       *)
(* spent, the fetch or a read fails, the transaction is rolled back, or    *)
(* the process dies.                                                       *)
Fail(p) ==
    /\ pc[p] \in {"read", "fetched", "stitched", "compared"}
    /\ pc' = [pc EXCEPT ![p] = "idle"]
    /\ UNCHANGED <<external, stored, memory, told, applied>>

(* The process dies after COMMIT and before the log line: the result and   *)
(* its events are lost, and their reader knows nothing of those accounts.  *)
Crash(p) ==
    /\ pc[p] = "committed"
    /\ pc' = [pc EXCEPT ![p] = "idle"]
    /\ told' = [a \in Accounts |-> IF a \in events[p] THEN BOOLEAN ELSE told[a]]
    /\ UNCHANGED <<external, stored, memory, applied>>

-----------------------------------------------------------------------------
Init ==
    /\ knowledge = 0
    /\ srv = Nothing
    /\ mirror = Nothing
    /\ cursor = NoCursor
    /\ firstSeen = [t \in Txns |-> 0]
    /\ pc = [p \in Processes |-> "idle"]
    /\ base = [p \in Processes |-> NoCursor]
    /\ batch = [p \in Processes |-> Nothing]
    /\ sk = [p \in Processes |-> 0]
    /\ events = [p \in Processes |-> {}]
    /\ told = [a \in Accounts |-> {FALSE}]
    /\ applied = {}

Tick(p) ==
    \/ ReadCursor(p) \/ Fetch(p) \/ Stitch(p) \/ CompareLinks(p)
    \/ Commit(p) \/ Report(p)

Next ==
    \/ ServerChanges
    \/ \E p \in Processes : Tick(p) \/ Fail(p) \/ Crash(p)

Spec == Init /\ [][Next]_vars

(* The ticker keeps firing, and no step of the tick fails every time it is *)
(* tried: YNAB answers, the budget refills, the disk is writable again.    *)
Fairness ==
    \A p \in Processes :
        /\ SF_vars(ReadCursor(p)) /\ SF_vars(Fetch(p)) /\ SF_vars(Stitch(p))
        /\ SF_vars(CompareLinks(p)) /\ SF_vars(Commit(p)) /\ SF_vars(Report(p))

FairSpec == Spec /\ Fairness

-----------------------------------------------------------------------------
(* Properties *)

TypeOK ==
    /\ knowledge \in Knowledge
    /\ srv \in Rows
    /\ mirror \in Rows
    /\ cursor \in Cursors
    /\ firstSeen \in [Txns -> Knowledge]
    /\ pc \in [Processes -> {"idle", "read", "fetched", "stitched",
                             "compared", "committed"}]
    /\ base \in [Processes -> Cursors]
    /\ batch \in [Processes -> Rows]
    /\ sk \in [Processes -> Knowledge]
    /\ events \in [Processes -> SUBSET Accounts]
    /\ told \in [Accounts -> SUBSET BOOLEAN]
    /\ applied \in SUBSET Knowledge

(* What a reader of the mirror can see of a set of rows: live rows, and    *)
(* split lines only under a live parent (transactions_read.go, linesCTE).  *)
Live(rows, e) == rows[e] # Absent /\ ~ rows[e].del
Shown(rows, e) == Live(rows, e) /\ (e \in Children => Live(rows, Parent[e]))
View(rows) == [e \in Entities |-> IF Shown(rows, e) THEN rows[e] ELSE Absent]

(* "so the cursor never runs ahead of the data" (store/mirror.go, Update): *)
(* whatever YNAB last changed at or before the cursor is shown by the      *)
(* mirror as YNAB has it, through every failed, skipped or crashed tick.   *)
SettledAt(k, e) ==
    srv[e].ver <= k /\ (e \in Children => srv[Parent[e]].ver <= k)

CursorNeverAheadOfData ==
    \A e \in Entities : SettledAt(cursor, e) => View(mirror)[e] = View(srv)[e]

(* The converse: no mirrored row is newer than the cursor, so no delta is  *)
(* applied without the cursor that came with it (a delta applied twice     *)
(* would compare the links with themselves and lose the event).            *)
DataNeverAheadOfCursor ==
    \A e \in Entities : mirror[e] # Absent => mirror[e].ver <= cursor

(* A stitched batch never fails the deferred foreign keys at COMMIT and    *)
(* sinks its tick (sync/mirror.go, stitch), whichever process committed    *)
(* between the stitch and the commit.                                      *)
NeverSunkByForeignKeys ==
    /\ ForeignKeysHold(mirror)
    /\ \A p \in Processes : pc[p] \in {"stitched", "compared"} =>
          ForeignKeysHold(Overlay(mirror, batch[p]))

(* A split line that was mirrored before its transaction's deletion        *)
(* arrived is tombstoned with it (stitch): a live line stays under a       *)
(* tombstone only when one delta brought both.                             *)
NoLineOutlivesItsTransaction ==
    \A s \in Subs :
        LET t == mirror[Parent[s]] IN
        Live(mirror, s) /\ t.del =>
            ~ \E c \in applied : mirror[s].ver <= c /\ c < t.ver

(* first_seen_at is the time of the first committed tick that could show   *)
(* the transaction's import id (UpsertTransactions, Freshness): replays,   *)
(* later edits and tombstones never move it.                               *)
FirstSeenIsFirstSight ==
    \A t \in Txns : mirror[t].imp # 0 =>
        /\ firstSeen[t] \in applied
        /\ firstSeen[t] >= mirror[t].imp
        /\ \A c \in applied : c >= mirror[t].imp => c >= firstSeen[t]

(* LinkEvent "fires once per transition across ticks and restarts; an      *)
(* initial load records the baseline and emits nothing" (sync/sync.go):    *)
(* between ticks the reader of the events knows every live account's link  *)
(* state, or lost its event to a death after COMMIT (the one thing the     *)
(* comment leaves out), and no event repeats what was already told.        *)
LinkEventsOncePerTransition ==
    /\ (\A p \in Processes : pc[p] # "committed") =>
          \A a \in Accounts : Live(mirror, a) => mirror[a].err \in told[a]
    /\ \A p \in Processes : pc[p] = "committed" =>
          \A a \in events[p] : told[a] # {batch[p][a].err}

(* A tick never moves the cursor back (it would fetch again what it has).  *)
CursorNeverMovesBack == [][cursor' >= cursor]_vars

(* A change YNAB makes is behind the cursor sooner or later.               *)
CatchesUp ==
    \A k \in Knowledge : (knowledge >= k) ~> (cursor >= k)

-----------------------------------------------------------------------------
(* Why CursorNeverAheadOfData holds when one process ticks at a time: an   *)
(* inductive invariant (MirrorProofs).                                     *)

(* rows hold what YNAB has for e, or leave out what no reader would see.   *)
Mirrors(rows, e) ==
    \/ rows[e] = srv[e]
    \/ rows[e] = Absent /\ srv[e].del
    \/ /\ e \in Children
       /\ srv[Parent[e]].del
       /\ rows[e] \in {Absent, Tombstone(srv[e])}

(* What a payload not yet stitched says of YNAB: its tombstones are final, *)
(* and a line can lack a parent only if YNAB deleted that.                 *)
PayloadIsTrue(p) ==
    /\ \A e \in Entities : batch[p][e].del => srv[e].del
    /\ \A s \in Children :
         batch[p][s] # Absent /\ ~ HasParent(batch[p], s) => srv[Parent[s]].del

ServerInv ==
    /\ \A e \in Entities : srv[e].ver <= knowledge
    /\ \A s \in Children : srv[s] # Absent => srv[Parent[s]] # Absent

StoreInv ==
    /\ cursor <= knowledge
    /\ cursor = NoCursor => mirror = Nothing
    /\ ForeignKeysHold(mirror)
    /\ DataNeverAheadOfCursor
    /\ \A e \in Entities : srv[e].ver <= cursor => Mirrors(mirror, e)

TickInv(p) ==
    /\ pc[p] \in {"read", "fetched", "stitched", "compared"} => base[p] = cursor
    /\ pc[p] \in {"fetched", "stitched", "compared"} =>
          /\ cursor <= sk[p] /\ sk[p] <= knowledge
          /\ \A e \in Entities : batch[p][e] # Absent => batch[p][e].ver <= sk[p]
          /\ \A e \in Entities : srv[e].ver <= sk[p] =>
                Mirrors(Overlay(mirror, batch[p]), e)
    /\ pc[p] = "fetched" => PayloadIsTrue(p)

SyncInv == ServerInv /\ StoreInv /\ \A p \in Processes : TickInv(p)

(* Why the three properties about the past hold, on top of it: what the    *)
(* mirror and a batch in flight owe to the ticks before.                   *)
InFlight == { p \in Processes : pc[p] \in {"fetched", "stitched", "compared"} }

(* What is in a batch is newer than every tick before, but for the lines   *)
(* stitch takes along; and none it should take along is left live.         *)
LinesInv ==
    /\ \A c \in applied : c <= cursor
    /\ NoLineOutlivesItsTransaction
    /\ \A p \in InFlight, e \in Entities :
          batch[p][e] # Absent /\ ~ (e \in Subs /\ batch[p][e].del) => batch[p][e].ver > cursor
    /\ \A p \in InFlight : pc[p] # "fetched" =>
          \A s \in Subs : Live(mirror, s) /\ batch[p][Parent[s]].del => batch[p][s] # Absent

(* rows have the import id of t, unless they never had a row of it.        *)
HasImport(rows, k, t) ==
    \/ rows[t].imp = srv[t].imp
    \/ rows[t] = Absent /\ srv[t].del /\ srv[t].ver <= k

ImportsInv ==
    /\ FirstSeenIsFirstSight
    /\ \A t \in Txns :
          /\ srv[t].imp <= srv[t].ver
          /\ mirror[t].imp # 0 => mirror[t].imp = srv[t].imp
          /\ srv[t].imp \in 1 .. cursor => HasImport(mirror, cursor, t)
    /\ \A p \in InFlight, t \in Txns :
          /\ batch[p][t].imp <= batch[p][t].ver /\ batch[p][t].ver <= srv[t].ver
          /\ batch[p][t].imp # 0 => batch[p][t].imp = srv[t].imp
          /\ srv[t].imp \in 1 .. sk[p] => HasImport(Overlay(mirror, batch[p]), sk[p], t)

(* A closed account stays closed; of every other one the reader knows the  *)
(* mirrored state, or is about to be told of it.                           *)
LinksInv ==
    /\ \A a \in Accounts :
          /\ mirror[a].del => srv[a].del
          /\ \/ mirror[a].del
             \/ mirror[a].err \in told[a]
             \/ \E p \in Processes : pc[p] = "committed" /\ a \in events[p]
    /\ \A p \in InFlight, a \in Accounts :
          /\ batch[p][a].del => srv[a].del
          /\ mirror[a].del /\ batch[p][a] # Absent => batch[p][a].del
    /\ \A p \in Processes :
          /\ pc[p] = "compared" => events[p] = LinkEvents(batch[p], base[p])
          /\ pc[p] = "committed" => \A a \in events[p] :
                told[a] # {batch[p][a].err} /\ mirror[a] = batch[p][a]

HistoryInv == LinesInv /\ ImportsInv /\ LinksInv

-----------------------------------------------------------------------------
(* The mirror implements an atomic replica of the plan (PlanReplica): the  *)
(* tick in flight stands for the snapshot its payload and the mirror make  *)
(* together.                                                               *)
replicaPending ==
    IF InFlight = {} THEN <<>>
    ELSE <<View(Overlay(mirror, batch[CHOOSE p \in InFlight : TRUE]))>>

Replica == INSTANCE PlanReplica
    WITH plan <- View(srv), replica <- View(mirror), pending <- replicaPending,
         Empty <- Nothing, Views <- Rows

MirrorIsAPlanReplica == Replica!Spec
=============================================================================
