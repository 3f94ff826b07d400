---------------------------- MODULE MirrorProofs ----------------------------
(***************************************************************************)
(* What holds of the mirror for every plan, every number of changes and    *)
(* (where the theorem does not say otherwise) every number of processes.   *)
(***************************************************************************)
EXTENDS Mirror, TLAPS

USE BoundAssumption, ParentAssumption

-----------------------------------------------------------------------------
(* Types *)

LEMMA AbsentIsARow == Nothing \in Rows /\ \A r \in Rows, e \in Entities : r[e] \in Row \cup {Absent}
  BY DEF Nothing, Rows

LEMMA RowFields ==
  ASSUME NEW row \in Row \cup {Absent}
  PROVE  /\ row.ver \in Knowledge
         /\ row.imp \in Knowledge
         /\ row.del \in BOOLEAN
         /\ row.err \in BOOLEAN
         /\ row.ver = 0 <=> row = Absent
         /\ row.del => row # Absent
<1>1. CASE row = Absent
  BY <1>1 DEF Absent, Knowledge
<1>2. CASE row \in Row
  BY <1>2 DEF Row, Absent
<1> QED BY <1>1, <1>2

LEMMA OverlayType ==
  ASSUME NEW rows \in Rows, NEW b \in Rows
  PROVE  Overlay(rows, b) \in Rows
  BY DEF Overlay, Rows

LEMMA ExportType == ASSUME TypeOK PROVE Export \in Rows
  BY DEF Export, Rows, TypeOK

LEMMA DeltaType == ASSUME TypeOK, NEW k \in Cursors PROVE Delta(k) \in Rows
  BY DEF Delta, Rows, TypeOK

LEMMA TombstoneType == ASSUME NEW row \in Row PROVE Tombstone(row) \in Row
  BY DEF Tombstone, Row

LEMMA TombstoneDeleted ==
  ASSUME NEW row \in Row \cup {Absent} PROVE Tombstone(row).del
<1>1. CASE row = Absent
  BY <1>1 DEF Absent, Tombstone
<1>2. CASE row \in Row
  BY <1>2 DEF Row, Tombstone
<1> QED BY <1>1, <1>2

LEMMA StitchedType ==
  ASSUME TypeOK, NEW b \in Rows
  PROVE  Stitched(b) \in Rows
<1> SUFFICES ASSUME NEW e \in Entities
             PROVE  Stitched(b)[e] \in Row \cup {Absent}
  BY DEF Stitched, Rows
<1>1. CASE e \in TakenAlong(b) /\ e \notin Orphans(b)
  <2>1. mirror[e] \in Row
    BY <1>1 DEF TakenAlong, TypeOK, Rows
  <2> QED BY <1>1, <2>1, TombstoneType DEF Stitched
<1>2. CASE ~ (e \in TakenAlong(b) /\ e \notin Orphans(b))
  BY <1>2 DEF Stitched, Rows
<1> QED BY <1>1, <1>2

LEMMA RevisionType ==
  ASSUME TypeOK, knowledge < MaxKnowledge, NEW e \in Entities,
         NEW row \in Revisions(e, knowledge + 1)
  PROVE  row \in Row
<1>1. knowledge + 1 \in Knowledge \ {0}
  BY DEF TypeOK, Knowledge
<1>2. srv[e].imp \in Knowledge
  BY <1>1 DEF TypeOK, Rows, Row, Absent, Knowledge
<1> QED BY <1>1, <1>2 DEF Revisions, Row

LEMMA SeenByType ==
  ASSUME TypeOK, NEW b \in Rows, NEW k \in Knowledge
  PROVE  SeenBy(b, k) \in [Txns -> Knowledge]
  BY DEF SeenBy, TypeOK

(* Every variable keeps its type, in every step of every process. *)
LEMMA TypeStep == TypeOK /\ [Next]_vars => TypeOK'
<1> SUFFICES ASSUME TypeOK, [Next]_vars PROVE TypeOK'
  OBVIOUS
<1> USE DEF TypeOK
<1>1. CASE ServerChanges
  <2>1. knowledge' \in Knowledge
    BY <1>1 DEF ServerChanges, Knowledge
  <2>2. srv' \in Rows
    <3>0. PICK e \in Entities : \E row \in Revisions(e, knowledge + 1) :
            srv' = [srv EXCEPT ![e] = row]
      BY <1>1 DEF ServerChanges
    <3>1. PICK row \in Revisions(e, knowledge + 1) :
            srv' = [srv EXCEPT ![e] = row]
      BY <3>0
    <3>2. row \in Row
      BY <1>1, RevisionType DEF ServerChanges
    <3> QED BY <3>1, <3>2 DEF Rows
  <2> QED BY <1>1, <2>1, <2>2 DEF ServerChanges, stored, memory
<1>2. ASSUME NEW p \in Processes, ReadCursor(p) PROVE TypeOK'
  BY <1>2 DEF ReadCursor, external, stored
<1>3. ASSUME NEW p \in Processes, Fetch(p) PROVE TypeOK'
  <2>1. Export \in Rows /\ Delta(base[p]) \in Rows
    BY ExportType, DeltaType
  <2> QED BY <1>3, <2>1 DEF Fetch, external, stored
<1>4. ASSUME NEW p \in Processes, Stitch(p) PROVE TypeOK'
  <2>1. Stitched(batch[p]) \in Rows
    BY StitchedType
  <2> QED BY <1>4, <2>1 DEF Stitch, external, stored
<1>5. ASSUME NEW p \in Processes, CompareLinks(p) PROVE TypeOK'
  <2>1. LinkEvents(batch[p], base[p]) \in SUBSET Accounts
    BY DEF LinkEvents
  <2> QED BY <1>5, <2>1 DEF CompareLinks, external, stored
<1>6. ASSUME NEW p \in Processes, Commit(p) PROVE TypeOK'
  <2>1. mirror' \in Rows
    BY <1>6, OverlayType DEF Commit
  <2>2. cursor' \in Cursors
    BY <1>6 DEF Commit, Cursors, SavedCursor
  <2>3. firstSeen' \in [Txns -> Knowledge]
    BY <1>6, SeenByType DEF Commit
  <2>4. told' \in [Accounts -> SUBSET BOOLEAN]
    <3>1. \A a \in Accounts : mirror'[a].err \in BOOLEAN
      <4>1. \A a \in Accounts : mirror'[a] \in Row \cup {Absent}
        BY <2>1 DEF Rows, Entities
      <4> QED BY <4>1, RowFields
    <3> QED BY <1>6, <3>1 DEF Commit
  <2>5. applied' \in SUBSET Knowledge
    BY <1>6 DEF Commit
  <2> QED BY <1>6, <2>1, <2>2, <2>3, <2>4, <2>5 DEF Commit, external, memory
<1>7. ASSUME NEW p \in Processes, Report(p) PROVE TypeOK'
  <2>1. \A a \in Accounts : batch[p][a].err \in BOOLEAN
    <3>1. \A a \in Accounts : batch[p][a] \in Row \cup {Absent}
      BY DEF Rows, Entities
    <3> QED BY <3>1, RowFields
  <2> QED BY <1>7, <2>1 DEF Report, external, stored, memory
<1>8. ASSUME NEW p \in Processes, Fail(p) \/ Crash(p) PROVE TypeOK'
  <2>1. told' \in [Accounts -> SUBSET BOOLEAN]
    BY <1>8 DEF Fail, Crash
  <2> QED BY <1>8, <2>1 DEF Fail, Crash, external, stored, memory
<1>9. CASE UNCHANGED vars
  BY <1>9 DEF vars, external, stored, memory
<1> QED BY <1>1, <1>2, <1>3, <1>4, <1>5, <1>6, <1>7, <1>8, <1>9 DEF Next, Tick

LEMMA TypeInit == Init => TypeOK
  BY AbsentIsARow DEF Init, TypeOK, Knowledge, Cursors, NoCursor

(* TypeOK is an invariant, whatever the constants. *)
THEOREM TypeCorrect == Spec => []TypeOK
  BY TypeInit, TypeStep, PTL DEF Spec

-----------------------------------------------------------------------------
(* Foreign keys *)

LEMMA OverlayAt ==
  ASSUME NEW rows, NEW b, NEW e \in Entities
  PROVE  Overlay(rows, b)[e] = IF b[e] # Absent THEN b[e] ELSE rows[e]
  BY DEF Overlay

LEMMA ParentIsAnEntity ==
  /\ Children \subseteq Entities
  /\ \A s \in Children : Parent[s] \in Entities \ Children
  BY DEF Entities

(* A stitched batch has every line's parent beside it or in the mirror. *)
LEMMA StitchedHasParents ==
  ASSUME TypeOK, ForeignKeysHold(mirror), NEW b \in Rows
  PROVE  ForeignKeysHold(Overlay(mirror, Stitched(b)))
<1> SUFFICES ASSUME NEW s \in Children,
                    Overlay(mirror, Stitched(b))[s] # Absent
             PROVE  Overlay(mirror, Stitched(b))[Parent[s]] # Absent
  BY DEF ForeignKeysHold
<1>1. Stitched(b)[Parent[s]] = b[Parent[s]]
  BY ParentIsAnEntity DEF Stitched, Orphans, TakenAlong, Children
<1>2. b[Parent[s]] # Absent \/ mirror[Parent[s]] # Absent
  <2>1. CASE Stitched(b)[s] = Absent
    BY <2>1, OverlayAt, ParentIsAnEntity DEF ForeignKeysHold
  <2>2. CASE Stitched(b)[s] # Absent /\ s \in TakenAlong(b)
    BY <2>2 DEF TakenAlong, Absent
  <2>3. CASE Stitched(b)[s] # Absent /\ s \notin TakenAlong(b)
    BY <2>3, ParentIsAnEntity DEF Stitched, Orphans, HasParent
  <2> QED BY <2>1, <2>2, <2>3
<1> QED BY <1>1, <1>2, OverlayAt, ParentIsAnEntity

(* Committing one batch leaves every other batch's parents in place. *)
LEMMA OverlayKeepsParents ==
  ASSUME NEW rows, NEW b, NEW c,
         ForeignKeysHold(Overlay(rows, b)), ForeignKeysHold(Overlay(rows, c))
  PROVE  ForeignKeysHold(Overlay(Overlay(rows, b), c))
  BY OverlayAt, ParentIsAnEntity DEF ForeignKeysHold

LEMMA ForeignKeysStep ==
  TypeOK /\ NeverSunkByForeignKeys /\ [Next]_vars => NeverSunkByForeignKeys'
<1> SUFFICES ASSUME TypeOK, NeverSunkByForeignKeys, [Next]_vars
             PROVE  NeverSunkByForeignKeys'
  OBVIOUS
<1> USE DEF NeverSunkByForeignKeys
<1>1. CASE UNCHANGED <<mirror, batch, pc>>
  BY <1>1 DEF ForeignKeysHold, Overlay
<1>2. ASSUME NEW p \in Processes, Stitch(p) PROVE NeverSunkByForeignKeys'
  <2>1. mirror' = mirror /\ batch'[p] = Stitched(batch[p])
    BY <1>2 DEF Stitch, stored, TypeOK
  <2>2. ForeignKeysHold(Overlay(mirror, batch'[p]))
    BY <2>1, StitchedHasParents DEF TypeOK
  <2>3. ASSUME NEW q \in Processes, q # p
        PROVE  batch'[q] = batch[q] /\ pc'[q] = pc[q]
    BY <1>2, <2>3 DEF Stitch, TypeOK
  <2> QED BY <2>1, <2>2, <2>3 DEF ForeignKeysHold, Overlay
<1>3. ASSUME NEW p \in Processes, Commit(p) PROVE NeverSunkByForeignKeys'
  <2>1. mirror' = Overlay(mirror, batch[p]) /\ batch' = batch
    BY <1>3 DEF Commit, memory
  <2>2. ForeignKeysHold(mirror')
    BY <1>3, <2>1 DEF Commit
  <2>3. ASSUME NEW q \in Processes, pc'[q] \in {"stitched", "compared"}
        PROVE  ForeignKeysHold(Overlay(mirror', batch'[q]))
    <3>1. pc[q] \in {"stitched", "compared"}
      BY <1>3, <2>3 DEF Commit, TypeOK
    <3> QED BY <2>1, <2>2, <3>1, OverlayKeepsParents
  <2> QED BY <2>2, <2>3
<1>4. ASSUME NEW p \in Processes,
             ReadCursor(p) \/ Fetch(p) \/ CompareLinks(p) \/ Report(p)
               \/ Fail(p) \/ Crash(p)
      PROVE  NeverSunkByForeignKeys'
  <2>1. mirror' = mirror
    BY <1>4 DEF ReadCursor, Fetch, CompareLinks, Report, Fail, Crash, stored
  <2>2. ASSUME NEW q \in Processes, pc'[q] \in {"stitched", "compared"}
        PROVE  pc[q] \in {"stitched", "compared"} /\ batch'[q] = batch[q]
    BY <1>4, <2>2 DEF ReadCursor, Fetch, CompareLinks, Report, Fail, Crash,
                      memory, TypeOK
  <2> QED BY <2>1, <2>2 DEF ForeignKeysHold, Overlay
<1> QED BY <1>1, <1>2, <1>3, <1>4
        DEF Next, Tick, ServerChanges, vars, stored, memory

(* No stitched tick is sunk by the deferred foreign keys, however many     *)
(* processes tick at once.                                                 *)
THEOREM ForeignKeysSafe == Spec => []NeverSunkByForeignKeys
<1>1. Init => NeverSunkByForeignKeys
  BY DEF Init, NeverSunkByForeignKeys, ForeignKeysHold, Nothing, Entities
<1> QED BY <1>1, TypeCorrect, ForeignKeysStep, PTL DEF Spec

-----------------------------------------------------------------------------
(* The cursor and the data, when one process ticks at a time *)

OneProcess == \A p, q \in Processes : p = q

(* What a change at YNAB leaves alone: the other rows, and tombstones. *)
LEMMA ChangeFacts ==
  ASSUME TypeOK, ServerInv, ServerChanges
  PROVE  /\ knowledge' = knowledge + 1
         /\ \A e \in Entities : srv'[e] # srv[e] => srv'[e].ver = knowledge + 1
         /\ \A e \in Entities : srv[e].del => srv'[e] = srv[e]
         /\ \A e \in Entities : srv[e] # Absent => srv'[e] # Absent
         /\ ServerInv'
<1>1. knowledge' = knowledge + 1 /\ knowledge \in Nat
  BY DEF ServerChanges, TypeOK, Knowledge
<1>2. PICK e \in Entities :
        /\ ~ srv[e].del
        /\ e \in Children => srv[Parent[e]] # Absent /\ ~ srv[Parent[e]].del
        /\ \E row \in Revisions(e, knowledge + 1) : srv' = [srv EXCEPT ![e] = row]
  BY DEF ServerChanges
<1>3. PICK row \in Revisions(e, knowledge + 1) : srv' = [srv EXCEPT ![e] = row]
  BY <1>2
<1>4. row.ver = knowledge + 1 /\ row # Absent
  BY <1>1 DEF Revisions, Absent
<1>5. srv'[e] = row /\ \A f \in Entities : f # e => srv'[f] = srv[f]
  BY <1>3 DEF TypeOK, Rows
<1>6. \A f \in Entities : srv[f].ver \in Nat
  BY RowFields DEF TypeOK, Rows, Knowledge
<1>7. \A f \in Entities : srv'[f].ver <= knowledge'
  BY <1>1, <1>4, <1>5, <1>6 DEF ServerInv
<1>8. ASSUME NEW s \in Children, srv'[s] # Absent
      PROVE  srv'[Parent[s]] # Absent
  BY <1>2, <1>4, <1>5, <1>8, ParentIsAnEntity DEF ServerInv
<1> QED BY <1>1, <1>2, <1>4, <1>5, <1>7, <1>8 DEF ServerInv

(* A row YNAB has not changed is still mirrored as it was. *)
LEMMA MirrorsStable ==
  ASSUME TypeOK, ServerInv, ServerChanges, NEW rows, NEW e \in Entities,
         srv'[e] = srv[e], Mirrors(rows, e)
  PROVE  Mirrors(rows, e)'
  BY ChangeFacts, ParentIsAnEntity DEF Mirrors

LEMMA Arithmetic ==
  ASSUME TypeOK
  PROVE  /\ knowledge \in Nat
         /\ cursor \in Nat \/ cursor = NoCursor
         /\ cursor \in Int
         /\ \A p \in Processes : sk[p] \in Nat /\ base[p] \in Int
         /\ \A e \in Entities : srv[e].ver \in Nat /\ mirror[e].ver \in Nat
         /\ \A p \in Processes, e \in Entities : batch[p][e].ver \in Nat
         /\ NoCursor = -1
<1>1. \A e \in Entities : srv[e].ver \in Knowledge /\ mirror[e].ver \in Knowledge
  BY RowFields DEF TypeOK, Rows
<1>2. \A p \in Processes, e \in Entities : batch[p][e].ver \in Knowledge
  BY RowFields DEF TypeOK, Rows
<1> QED BY <1>1, <1>2 DEF TypeOK, Knowledge, Cursors, NoCursor

LEMMA ServerStep ==
  ASSUME TypeOK, SyncInv, ServerChanges PROVE SyncInv'
<1> USE ChangeFacts, Arithmetic DEF SyncInv
<1>1. UNCHANGED <<mirror, cursor, pc, base, batch, sk>>
  BY DEF ServerChanges, stored, memory
<1>2. ASSUME NEW e \in Entities, NEW k \in Int, k <= knowledge, srv'[e].ver <= k
      PROVE  srv'[e] = srv[e] /\ srv[e].ver <= k
  BY <1>2
<1>3. StoreInv'
  <2>1. \A e \in Entities : srv'[e].ver <= cursor => Mirrors(mirror, e)'
    BY <1>1, <1>2, MirrorsStable DEF StoreInv, Mirrors
  <2> QED BY <1>1, <2>1 DEF StoreInv, ForeignKeysHold, DataNeverAheadOfCursor
<1>4. ASSUME NEW p \in Processes PROVE TickInv(p)'
  <2>1. TickInv(p)
    OBVIOUS
  <2>2. PayloadIsTrue(p) => PayloadIsTrue(p)'
    BY <1>1, ParentIsAnEntity DEF PayloadIsTrue, HasParent
  <2>3. ASSUME pc[p] \in {"fetched", "stitched", "compared"},
               NEW e \in Entities, srv'[e].ver <= sk[p]
        PROVE  Mirrors(Overlay(mirror, batch[p]), e)'
    <3>1. srv'[e] = srv[e] /\ srv[e].ver <= sk[p]
      BY <1>2, <2>1, <2>3 DEF TickInv
    <3>2. Mirrors(Overlay(mirror, batch[p]), e)
      BY <2>1, <2>3, <3>1 DEF TickInv
    <3> QED BY <1>1, <3>1, <3>2, ParentIsAnEntity DEF Mirrors, Overlay
  <2> QED BY <1>1, <2>1, <2>2, <2>3 DEF TickInv
<1> QED BY <1>3, <1>4

(* A fetch at the present knowledge completes the mirror it will be laid   *)
(* over: what changed is in the payload, the rest the mirror already has.  *)
LEMMA FetchMirrors ==
  ASSUME TypeOK, SyncInv, NEW p \in Processes, Fetch(p), NEW e \in Entities
  PROVE  Mirrors(Overlay(mirror, batch'[p]), e)
<1> USE Arithmetic, RowFields DEF SyncInv
<1>1. pc[p] = "read" /\ base[p] = cursor
  BY DEF Fetch, TickInv
<1>2. srv[e] \in Row \cup {Absent} /\ mirror[e] \in Row \cup {Absent}
  BY DEF TypeOK, Rows
<1>3. CASE cursor = NoCursor
  <2>1. batch'[p] = Export
    BY <1>1, <1>3 DEF Fetch, TypeOK
  <2>2. mirror[e] = Absent
    BY <1>3 DEF StoreInv, Nothing
  <2> QED BY <1>2, <2>1, <2>2 DEF Export, Overlay, Mirrors
<1>4. CASE cursor # NoCursor
  <2>1. batch'[p] = Delta(cursor)
    BY <1>1, <1>4 DEF Fetch, TypeOK
  <2>2. CASE srv[e].ver > cursor
    <3>1. srv[e] # Absent
      BY <2>2, <1>4, <1>2
    <3> QED BY <2>1, <2>2, <3>1 DEF Delta, Overlay, Mirrors
  <2>3. CASE srv[e].ver <= cursor
    <3>1. batch'[p][e] = Absent
      BY <2>1, <2>3 DEF Delta
    <3>2. Mirrors(mirror, e)
      BY <2>3 DEF StoreInv
    <3> QED BY <3>1, <3>2 DEF Overlay, Mirrors
  <2> QED BY <2>2, <2>3
<1> QED BY <1>3, <1>4

LEMMA FetchPayload ==
  ASSUME TypeOK, SyncInv, NEW p \in Processes, Fetch(p)
  PROVE  PayloadIsTrue(p)'
<1> USE Arithmetic, RowFields, ParentIsAnEntity DEF SyncInv
<1>1. base[p] = cursor /\ mirror' = mirror /\ srv' = srv
  BY DEF Fetch, TickInv, stored, external
<1>2. batch'[p] = IF cursor = NoCursor THEN Export ELSE Delta(cursor)
  BY <1>1 DEF Fetch, TypeOK
<1>3. \A e \in Entities : batch'[p][e] \in {srv[e], Absent}
  BY <1>2 DEF Export, Delta
<1>4. \A e \in Entities : batch'[p][e].del => srv[e].del
  BY <1>3 DEF Absent
<1>5. ASSUME NEW s \in Children, batch'[p][s] # Absent,
             batch'[p][Parent[s]] = Absent, mirror[Parent[s]] = Absent
      PROVE  srv[Parent[s]].del
  <2>1. srv[s] # Absent /\ srv[Parent[s]] # Absent
    BY <1>3, <1>5 DEF ServerInv
  <2>2. Mirrors(Overlay(mirror, batch'[p]), Parent[s])
    BY FetchMirrors
  <2> QED BY <1>5, <2>1, <2>2 DEF Mirrors, Overlay
<1> QED BY <1>1, <1>4, <1>5 DEF PayloadIsTrue, HasParent

LEMMA FetchStep ==
  ASSUME TypeOK, SyncInv, OneProcess, NEW p \in Processes, Fetch(p) PROVE SyncInv'
<1> USE Arithmetic DEF SyncInv
<1>1. UNCHANGED <<knowledge, srv, mirror, cursor, base>>
  BY DEF Fetch, external, stored
<1>2. ServerInv' /\ StoreInv'
  BY <1>1 DEF ServerInv, StoreInv, ForeignKeysHold, DataNeverAheadOfCursor, Mirrors
<1>3. pc[p] = "read" /\ pc'[p] = "fetched" /\ sk'[p] = knowledge
  BY DEF Fetch, TypeOK
<1>4. base[p] = cursor
  BY <1>3 DEF TickInv
<1>5. \A e \in Entities : batch'[p][e] # Absent => batch'[p][e].ver <= knowledge
  <2>1. batch'[p] = Export \/ batch'[p] = Delta(cursor)
    BY <1>4 DEF Fetch, TypeOK
  <2> QED BY <2>1 DEF Export, Delta, ServerInv
<1>6. \A e \in Entities : Mirrors(Overlay(mirror, batch[p]), e)'
  BY <1>1, FetchMirrors DEF Mirrors, Overlay
<1>7. TickInv(p)'
  BY <1>1, <1>3, <1>4, <1>5, <1>6, FetchPayload DEF TickInv, StoreInv
<1> QED BY <1>2, <1>7 DEF OneProcess

(* Stitching drops and adds only lines that no reader of YNAB would see.   *)
LEMMA StitchMirrors ==
  ASSUME TypeOK, SyncInv, NEW p \in Processes, pc[p] = "fetched",
         NEW e \in Entities, srv[e].ver <= sk[p]
  PROVE  Mirrors(Overlay(mirror, Stitched(batch[p])), e)
<1> USE RowFields, ParentIsAnEntity DEF SyncInv
<1>1. Mirrors(Overlay(mirror, batch[p]), e) /\ PayloadIsTrue(p)
  BY DEF TickInv
<1>2. CASE e \in Orphans(batch[p])
  <2>1. Overlay(mirror, Stitched(batch[p]))[e] = mirror[e]
    BY <1>2 DEF Overlay, Stitched
  <2>2. mirror[e] = Absent
    BY <1>2 DEF Orphans, HasParent, StoreInv, ForeignKeysHold
  <2>3. e \in Children /\ srv[Parent[e]].del
    BY <1>1, <1>2 DEF Orphans, PayloadIsTrue
  <2> QED BY <2>1, <2>2, <2>3 DEF Mirrors
<1>3. CASE e \in TakenAlong(batch[p]) /\ e \notin Orphans(batch[p])
  <2>1. e \in Children /\ srv[Parent[e]].del
    BY <1>1, <1>3 DEF TakenAlong, PayloadIsTrue, Children
  <2>2. mirror[e] \in Row /\ ~ mirror[e].del
    BY <1>3 DEF TakenAlong, TypeOK, Rows
  <2>3. srv[e] \in Row \cup {Absent}
    BY DEF TypeOK, Rows
  <2>4. Mirrors(mirror, e)
    BY <1>1, <1>3, OverlayAt DEF Mirrors, TakenAlong
  <2>5. mirror[e] = srv[e]
    <3>1. mirror[e] # Tombstone(srv[e])
      BY <2>2, <2>3, TombstoneDeleted
    <3>2. mirror[e] # Absent
      BY <1>3 DEF TakenAlong
    <3> QED BY <2>4, <3>1, <3>2 DEF Mirrors
  <2>6. Tombstone(mirror[e]) # Absent
    BY DEF Tombstone, Absent, Row
  <2>7. Overlay(mirror, Stitched(batch[p]))[e] = Tombstone(srv[e])
    BY <1>3, <2>5, <2>6 DEF Overlay, Stitched
  <2> QED BY <2>1, <2>7 DEF Mirrors
<1>4. CASE e \notin TakenAlong(batch[p]) /\ e \notin Orphans(batch[p])
  <2>1. Overlay(mirror, Stitched(batch[p]))[e] = Overlay(mirror, batch[p])[e]
    BY <1>4 DEF Overlay, Stitched
  <2> QED BY <1>1, <2>1 DEF Mirrors
<1> QED BY <1>2, <1>3, <1>4

LEMMA StitchStep ==
  ASSUME TypeOK, SyncInv, OneProcess, NEW p \in Processes, Stitch(p) PROVE SyncInv'
<1> USE Arithmetic DEF SyncInv
<1>1. UNCHANGED <<knowledge, srv, mirror, cursor, base, sk>>
  BY DEF Stitch, external, stored
<1>2. ServerInv' /\ StoreInv'
  BY <1>1 DEF ServerInv, StoreInv, ForeignKeysHold, DataNeverAheadOfCursor, Mirrors
<1>3. pc[p] = "fetched" /\ pc'[p] = "stitched" /\ batch'[p] = Stitched(batch[p])
  BY DEF Stitch, TypeOK
<1>4. TickInv(p)
  OBVIOUS
<1>5. ASSUME NEW e \in Entities, batch'[p][e] # Absent
      PROVE  batch'[p][e].ver <= sk[p]
  <2>1. CASE e \in TakenAlong(batch[p]) /\ e \notin Orphans(batch[p])
    <3>1. mirror[e] # Absent /\ mirror[e] \in Row
      BY <2>1 DEF TakenAlong, TypeOK, Rows
    <3>2. mirror[e].ver <= cursor
      BY <3>1 DEF StoreInv, DataNeverAheadOfCursor
    <3>3. batch'[p][e].ver = mirror[e].ver
      BY <1>3, <2>1, <3>1 DEF Stitched, Tombstone, Row
    <3> QED BY <1>3, <1>4, <3>2, <3>3 DEF TickInv
  <2>2. CASE ~ (e \in TakenAlong(batch[p]) /\ e \notin Orphans(batch[p]))
    BY <1>3, <1>4, <1>5, <2>2 DEF Stitched, TickInv
  <2> QED BY <2>1, <2>2
<1>6. ASSUME NEW e \in Entities, srv[e].ver <= sk[p]
      PROVE  Mirrors(Overlay(mirror, batch[p]), e)'
  <2>1. Mirrors(Overlay(mirror, Stitched(batch[p])), e)
    BY <1>3, <1>6, StitchMirrors
  <2> QED BY <1>1, <1>3, <2>1 DEF Mirrors, Overlay
<1>7. TickInv(p)'
  BY <1>1, <1>3, <1>4, <1>5, <1>6 DEF TickInv
<1> QED BY <1>2, <1>7 DEF OneProcess

LEMMA CommitStep ==
  ASSUME TypeOK, SyncInv, OneProcess, NEW p \in Processes, Commit(p) PROVE SyncInv'
<1> USE Arithmetic DEF SyncInv
<1>1. /\ UNCHANGED <<knowledge, srv, base, batch, sk>>
      /\ mirror' = Overlay(mirror, batch[p])
      /\ cursor' = sk[p]
      /\ ForeignKeysHold(Overlay(mirror, batch[p]))
  BY DEF Commit, SavedCursor, external, memory
<1>2. pc[p] = "compared" /\ pc'[p] = "committed"
  BY DEF Commit, TypeOK
<1>3. /\ cursor <= sk[p] /\ sk[p] <= knowledge
      /\ \A e \in Entities : batch[p][e] # Absent => batch[p][e].ver <= sk[p]
      /\ \A e \in Entities : srv[e].ver <= sk[p] =>
            Mirrors(Overlay(mirror, batch[p]), e)
  BY <1>2 DEF TickInv
<1>4. ServerInv'
  BY <1>1 DEF ServerInv
<1>5. DataNeverAheadOfCursor'
  <2>1. ASSUME NEW e \in Entities, mirror'[e] # Absent
        PROVE  mirror'[e].ver <= cursor'
    <3>1. mirror'[e] = IF batch[p][e] # Absent THEN batch[p][e] ELSE mirror[e]
      BY <1>1 DEF Overlay
    <3>2. mirror[e] # Absent => mirror[e].ver <= cursor
      BY DEF StoreInv, DataNeverAheadOfCursor
    <3> QED BY <1>1, <1>3, <2>1, <3>1, <3>2
  <2> QED BY <2>1 DEF DataNeverAheadOfCursor
<1>6. \A e \in Entities : srv'[e].ver <= cursor' => Mirrors(mirror, e)'
  BY <1>1, <1>3 DEF Mirrors
<1>7. StoreInv'
  BY <1>1, <1>3, <1>5, <1>6 DEF StoreInv, ForeignKeysHold
<1>8. TickInv(p)'
  BY <1>2 DEF TickInv
<1> QED BY <1>4, <1>7, <1>8 DEF OneProcess

(* The tick's other steps touch neither rows nor cursor. *)
LEMMA QuietStep ==
  ASSUME TypeOK, SyncInv, NEW p \in Processes,
         ReadCursor(p) \/ CompareLinks(p) \/ Report(p) \/ Fail(p) \/ Crash(p)
  PROVE  SyncInv'
<1> USE DEF SyncInv
<1>1. UNCHANGED <<knowledge, srv, mirror, cursor, batch, sk>>
  BY DEF ReadCursor, CompareLinks, Report, Fail, Crash, external, stored, memory
<1>2. ServerInv' /\ StoreInv'
  BY <1>1 DEF ServerInv, StoreInv, ForeignKeysHold, DataNeverAheadOfCursor, Mirrors
<1>3. ASSUME NEW q \in Processes PROVE TickInv(q)'
  <2>1. /\ pc'[q] = "fetched" => pc[q] = "fetched"
        /\ pc'[q] \in {"fetched", "stitched", "compared"} =>
              pc[q] \in {"fetched", "stitched", "compared"}
        /\ pc'[q] \in {"read", "fetched", "stitched", "compared"} =>
              \/ pc[q] \in {"read", "fetched", "stitched", "compared"} /\ base'[q] = base[q]
              \/ base'[q] = cursor
    BY DEF ReadCursor, CompareLinks, Report, Fail, Crash, memory, TypeOK
  <2>2. PayloadIsTrue(q) => PayloadIsTrue(q)'
    BY <1>1 DEF PayloadIsTrue, HasParent
  <2>3. \A e \in Entities : Mirrors(Overlay(mirror, batch[q]), e)
                              => Mirrors(Overlay(mirror, batch[q]), e)'
    BY <1>1 DEF Mirrors, Overlay
  <2>4. TickInv(q)
    OBVIOUS
  <2> QED BY <1>1, <2>1, <2>2, <2>3, <2>4 DEF TickInv
<1> QED BY <1>2, <1>3

LEMMA StutterStep == ASSUME SyncInv, UNCHANGED vars PROVE SyncInv'
  BY DEF SyncInv, ServerInv, StoreInv, TickInv, ForeignKeysHold, Mirrors, Overlay,
         DataNeverAheadOfCursor, PayloadIsTrue, HasParent,
         vars, external, stored, memory

LEMMA SyncStep ==
  ASSUME OneProcess PROVE TypeOK /\ SyncInv /\ [Next]_vars => SyncInv'
  BY ServerStep, FetchStep, StitchStep, CommitStep, QuietStep, StutterStep
  DEF Next, Tick

LEMMA SyncInit == Init => SyncInv
<1> SUFFICES ASSUME Init PROVE SyncInv
  OBVIOUS
<1>1. \A e \in Entities : srv[e] = Absent /\ mirror[e] = Absent /\ Absent.ver = 0
  BY DEF Init, Nothing, Absent
<1>2. ServerInv
  BY <1>1, ParentIsAnEntity DEF ServerInv, Init
<1>3. StoreInv
  BY <1>1, ParentIsAnEntity DEF StoreInv, Init, NoCursor, ForeignKeysHold,
     DataNeverAheadOfCursor
<1>4. \A p \in Processes : TickInv(p)
  BY DEF Init, TickInv
<1> QED BY <1>2, <1>3, <1>4 DEF SyncInv

THEOREM SyncInvariant == ASSUME OneProcess PROVE Spec => []SyncInv
  BY SyncInit, SyncStep, TypeCorrect, PTL DEF Spec

(* What mirrors YNAB row by row shows what YNAB shows. *)
LEMMA MirrorsShowTheSame ==
  ASSUME TypeOK, NEW rows, NEW e \in Entities, Mirrors(rows, e),
         e \in Children => Mirrors(rows, Parent[e])
  PROVE  View(rows)[e] = View(srv)[e]
<1> USE RowFields, TombstoneDeleted, ParentIsAnEntity
<1>1. srv[e] \in Row \cup {Absent} /\ Absent.del = FALSE
  BY DEF TypeOK, Rows, Absent
<1>2. Tombstone(srv[e]).del
  BY <1>1
<1>3. Live(rows, e) => Live(srv, e) /\ rows[e] = srv[e]
  BY <1>1, <1>2 DEF Live, Mirrors
<1>4. CASE e \notin Children
  BY <1>1, <1>3, <1>4 DEF View, Shown, Live, Mirrors
<1>5. CASE e \in Children
  <2>1. Live(rows, Parent[e]) <=> Live(srv, Parent[e])
    BY <1>1, <1>5 DEF Live, Mirrors
  <2>2. CASE srv[Parent[e]].del
    BY <1>5, <2>1, <2>2 DEF View, Shown, Live
  <2>3. CASE ~ srv[Parent[e]].del
    BY <1>1, <1>3, <1>5, <2>1, <2>3 DEF View, Shown, Live, Mirrors
  <2> QED BY <2>2, <2>3
<1> QED BY <1>4, <1>5

(* The cursor never runs ahead of the data, through any failures and       *)
(* crashes, if one process ticks at a time.                                *)
THEOREM CursorSafe == ASSUME OneProcess PROVE Spec => []CursorNeverAheadOfData
<1>1. TypeOK /\ SyncInv => CursorNeverAheadOfData
  BY MirrorsShowTheSame, ParentIsAnEntity
  DEF SyncInv, StoreInv, CursorNeverAheadOfData, SettledAt
<1> QED BY <1>1, TypeCorrect, SyncInvariant, PTL

(* No row is newer than the cursor it was committed with. *)
THEOREM DataSafe == ASSUME OneProcess PROVE Spec => []DataNeverAheadOfCursor
<1>1. SyncInv => DataNeverAheadOfCursor
  BY DEF SyncInv, StoreInv
<1> QED BY <1>1, SyncInvariant, PTL

(* No tick moves the cursor back. *)
THEOREM CursorMonotone == ASSUME OneProcess PROVE Spec => CursorNeverMovesBack
<1>1. TypeOK /\ SyncInv /\ [Next]_vars => [cursor' >= cursor]_vars
  <2> SUFFICES ASSUME TypeOK, SyncInv, Next PROVE cursor' >= cursor
    BY DEF vars
  <2>1. CASE cursor' = cursor
    BY <2>1, Arithmetic
  <2>2. ASSUME NEW p \in Processes, Commit(p) PROVE cursor' >= cursor
    BY <2>2, Arithmetic DEF Commit, SavedCursor, SyncInv, TickInv
  <2> QED BY <2>1, <2>2 DEF Next, Tick, ServerChanges, ReadCursor, Fetch, Stitch,
             CompareLinks, Report, Fail, Crash, stored
<1> QED BY <1>1, TypeCorrect, SyncInvariant, PTL DEF Spec, CursorNeverMovesBack

-----------------------------------------------------------------------------
(* The past: lines, import ids and links, when one process ticks at a time *)

LEMMA RowsInPlay ==
  ASSUME TypeOK, NEW e \in Entities
  PROVE  /\ srv[e] \in Row \cup {Absent}
         /\ mirror[e] \in Row \cup {Absent}
         /\ \A p \in Processes : batch[p][e] \in Row \cup {Absent}
  BY DEF TypeOK, Rows

LEMMA AbsentFields == Absent.ver = 0 /\ Absent.imp = 0 /\ ~ Absent.del
  BY DEF Absent

LEMMA Kinds ==
  /\ Accounts \subseteq Entities /\ Txns \subseteq Entities /\ Subs \subseteq Children
  /\ \A e \in Accounts \cup Txns : e \notin Children
  BY DEF Entities, Children

LEMMA PastTicks ==
  ASSUME TypeOK PROVE applied \subseteq Nat /\ \A t \in Txns : firstSeen[t] \in Nat
  BY DEF TypeOK, Knowledge

(* The steps that start, compare, report or end a tick put nothing new     *)
(* in flight.                                                              *)
LEMMA QuietFlight ==
  ASSUME TypeOK, NEW p \in Processes,
         ReadCursor(p) \/ CompareLinks(p) \/ Report(p) \/ Fail(p) \/ Crash(p)
  PROVE  /\ UNCHANGED <<srv, mirror, cursor, firstSeen, batch, sk, applied>>
         /\ InFlight' \subseteq InFlight
         /\ \A q \in InFlight' : pc'[q] # "fetched" => pc[q] # "fetched"
<1>1. UNCHANGED <<srv, mirror, cursor, firstSeen, batch, sk, applied>>
  BY DEF ReadCursor, CompareLinks, Report, Fail, Crash, external, stored, memory
<1>2. ASSUME NEW q \in InFlight'
      PROVE  q \in InFlight /\ (pc'[q] # "fetched" => pc[q] # "fetched")
  BY DEF ReadCursor, CompareLinks, Report, Fail, Crash, TypeOK, InFlight
<1> QED BY <1>1, <1>2

LEMMA FetchFlight ==
  ASSUME TypeOK, SyncInv, OneProcess, NEW p \in Processes, Fetch(p)
  PROVE  /\ UNCHANGED <<knowledge, srv, mirror, cursor, firstSeen, applied, told, events>>
         /\ pc[p] = "read" /\ pc'[p] = "fetched" /\ InFlight' = {p}
         /\ sk'[p] = knowledge
         /\ \A e \in Entities :
               /\ batch'[p][e] \in {srv[e], Absent}
               /\ batch'[p][e] # Absent => batch'[p][e].ver > cursor
<1> USE Arithmetic DEF SyncInv
<1>1. /\ UNCHANGED <<knowledge, srv, mirror, cursor, firstSeen, applied, told, events>>
      /\ pc[p] = "read" /\ pc'[p] = "fetched" /\ sk'[p] = knowledge
  BY DEF Fetch, external, stored, TypeOK
<1>2. InFlight' = {p}
  BY <1>1 DEF InFlight, OneProcess
<1>3. batch'[p] = IF cursor = NoCursor THEN Export ELSE Delta(cursor)
  BY <1>1 DEF Fetch, TypeOK, TickInv
<1>4. ASSUME NEW e \in Entities
      PROVE  /\ batch'[p][e] \in {srv[e], Absent}
             /\ batch'[p][e] # Absent => batch'[p][e].ver > cursor
  BY <1>3 DEF Export, Delta
<1> QED BY <1>1, <1>2, <1>4

LEMMA StitchFlight ==
  ASSUME TypeOK, OneProcess, NEW p \in Processes, Stitch(p)
  PROVE  /\ UNCHANGED <<srv, mirror, cursor, firstSeen, applied, told, events, sk>>
         /\ pc[p] = "fetched" /\ pc'[p] = "stitched" /\ p \in InFlight /\ InFlight' = {p}
         /\ batch'[p] = Stitched(batch[p])
         /\ \A e \in Entities \ Children : batch'[p][e] = batch[p][e]
<1>1. /\ UNCHANGED <<srv, mirror, cursor, firstSeen, applied, told, events, sk>>
      /\ pc[p] = "fetched" /\ pc'[p] = "stitched" /\ batch'[p] = Stitched(batch[p])
  BY DEF Stitch, external, stored, TypeOK
<1>2. p \in InFlight /\ InFlight' = {p}
  BY <1>1 DEF InFlight, OneProcess
<1>3. \A e \in Entities \ Children : Stitched(batch[p])[e] = batch[p][e]
  BY DEF Stitched, Orphans, TakenAlong, Children
<1> QED BY <1>1, <1>2, <1>3

LEMMA CommitFlight ==
  ASSUME TypeOK, SyncInv, OneProcess, NEW p \in Processes, Commit(p)
  PROVE  /\ UNCHANGED <<srv, batch, events>>
         /\ pc[p] = "compared" /\ pc'[p] = "committed" /\ p \in InFlight /\ InFlight' = {}
         /\ base[p] = cursor /\ cursor' = sk[p] /\ cursor <= sk[p]
         /\ applied' = applied \cup {sk[p]}
         /\ firstSeen' = SeenBy(batch[p], sk[p])
         /\ \A e \in Entities :
               /\ mirror'[e] = IF batch[p][e] # Absent THEN batch[p][e] ELSE mirror[e]
               /\ mirror'[e].ver <= sk[p]
<1> USE Arithmetic DEF SyncInv
<1>1. /\ UNCHANGED <<srv, batch, events>>
      /\ pc[p] = "compared" /\ pc'[p] = "committed"
      /\ cursor' = sk[p] /\ mirror' = Overlay(mirror, batch[p])
      /\ applied' = applied \cup {sk[p]} /\ firstSeen' = SeenBy(batch[p], sk[p])
  BY DEF Commit, SavedCursor, external, memory, TypeOK
<1>2. p \in InFlight /\ InFlight' = {}
  BY <1>1 DEF InFlight, OneProcess
<1>3. base[p] = cursor /\ cursor <= sk[p]
  BY <1>1 DEF TickInv
<1>4. ASSUME NEW e \in Entities
      PROVE  /\ mirror'[e] = IF batch[p][e] # Absent THEN batch[p][e] ELSE mirror[e]
             /\ mirror'[e].ver <= sk[p]
  <2>1. mirror'[e] = IF batch[p][e] # Absent THEN batch[p][e] ELSE mirror[e]
    BY <1>1 DEF Overlay
  <2>2. batch[p][e] # Absent => batch[p][e].ver <= sk[p]
    BY <1>1 DEF TickInv
  <2>3. mirror[e] # Absent => mirror[e].ver <= cursor
    BY DEF StoreInv, DataNeverAheadOfCursor
  <2> QED BY <1>3, <2>1, <2>2, <2>3, AbsentFields
<1> QED BY <1>1, <1>2, <1>3, <1>4

(* A line is carried away by the delta that brings its parent's tombstone, *)
(* if an earlier tick had brought the line.                                *)
LEMMA LinesQuiet ==
  ASSUME LinesInv, UNCHANGED <<mirror, cursor, batch, applied>>,
         InFlight' \subseteq InFlight,
         \A q \in InFlight' : pc'[q] # "fetched" => pc[q] # "fetched"
  PROVE  LinesInv'
  BY DEF LinesInv, NoLineOutlivesItsTransaction, Live

LEMMA LinesStitched ==
  ASSUME TypeOK, SyncInv, LinesInv, OneProcess, NEW p \in Processes, Stitch(p)
  PROVE  LinesInv'
<1> USE RowsInPlay, RowFields, ParentIsAnEntity, Kinds
<1>1. /\ UNCHANGED <<mirror, cursor, applied>> /\ InFlight' = {p} /\ p \in InFlight
      /\ batch'[p] = Stitched(batch[p])
      /\ \A e \in Entities \ Children : batch'[p][e] = batch[p][e]
  BY StitchFlight
<1>2. ASSUME NEW e \in Entities, batch'[p][e] # Absent, ~ (e \in Subs /\ batch'[p][e].del)
      PROVE  batch'[p][e].ver > cursor
  <2>1. CASE e \in TakenAlong(batch[p]) /\ e \notin Orphans(batch[p])
    <3>1. e \in Subs /\ batch'[p][e] = Tombstone(mirror[e])
      BY <1>1, <2>1 DEF Stitched, TakenAlong
    <3> QED BY <1>2, <3>1, TombstoneDeleted
  <2>2. CASE ~ (e \in TakenAlong(batch[p]) /\ e \notin Orphans(batch[p]))
    <3>1. batch'[p][e] = batch[p][e]
      BY <1>1, <1>2, <2>2 DEF Stitched
    <3> QED BY <1>1, <1>2, <3>1 DEF LinesInv
  <2> QED BY <2>1, <2>2
<1>3. ASSUME NEW s \in Subs, Live(mirror, s), batch'[p][Parent[s]].del
      PROVE  batch'[p][s] # Absent
  <2>1. batch[p][Parent[s]].del /\ batch[p][Parent[s]] # Absent
    <3>1. batch'[p][Parent[s]] = batch[p][Parent[s]]
      BY <1>1
    <3> QED BY <1>3, <3>1
  <2>2. s \notin Orphans(batch[p])
    BY <2>1 DEF Orphans, HasParent
  <2>3. CASE batch[p][s] = Absent
    <3>1. s \in TakenAlong(batch[p])
      BY <1>3, <2>1, <2>3 DEF TakenAlong, Live
    <3>2. batch'[p][s] = Tombstone(mirror[s])
      BY <1>1, <2>2, <3>1 DEF Stitched
    <3> QED BY <3>2, TombstoneDeleted, AbsentFields
  <2>4. CASE batch[p][s] # Absent
    BY <1>1, <2>2, <2>4 DEF Stitched, TakenAlong
  <2> QED BY <2>3, <2>4
<1>4. LinesInv!1' /\ LinesInv!2'
  BY <1>1 DEF LinesInv, NoLineOutlivesItsTransaction, Live
<1> QED BY <1>1, <1>2, <1>3, <1>4 DEF LinesInv, Live

LEMMA LinesCommitted ==
  ASSUME TypeOK, SyncInv, LinesInv, OneProcess, NEW p \in Processes, Commit(p)
  PROVE  LinesInv'
<1> USE Arithmetic, RowsInPlay, RowFields, ParentIsAnEntity, Kinds, PastTicks
<1>1. /\ p \in InFlight /\ pc[p] # "fetched" /\ InFlight' = {}
      /\ cursor' = sk[p] /\ cursor <= sk[p] /\ applied' = applied \cup {sk[p]}
      /\ \A e \in Entities :
            /\ mirror'[e] = IF batch[p][e] # Absent THEN batch[p][e] ELSE mirror[e]
            /\ mirror'[e].ver <= sk[p]
  BY CommitFlight
<1>2. \A c \in applied : c <= cursor
  BY DEF LinesInv
<1>3. ASSUME NEW s \in Subs, Live(mirror', s), mirror'[Parent[s]].del,
             NEW c \in applied', mirror'[s].ver <= c, c < mirror'[Parent[s]].ver
      PROVE  FALSE
  <2>1. c \in applied /\ c <= cursor
    BY <1>1, <1>2, <1>3
  <2>2. CASE batch[p][s] # Absent
    <3>1. batch[p][s].ver > cursor
      BY <1>1, <1>3, <2>2 DEF LinesInv, Live
    <3> QED BY <1>1, <1>3, <2>1, <2>2, <3>1
  <2>3. CASE batch[p][s] = Absent
    <3>1. Live(mirror, s) /\ mirror'[s] = mirror[s]
      BY <1>1, <1>3, <2>3 DEF Live
    <3>2. batch[p][Parent[s]] = Absent
      BY <1>1, <1>3, <2>3, <3>1 DEF LinesInv
    <3>3. mirror'[Parent[s]] = mirror[Parent[s]]
      BY <1>1, <3>2
    <3> QED BY <1>3, <2>1, <3>1, <3>3 DEF LinesInv, NoLineOutlivesItsTransaction
  <2> QED BY <2>2, <2>3
<1>4. NoLineOutlivesItsTransaction'
  BY <1>3 DEF NoLineOutlivesItsTransaction, Live
<1>5. \A c \in applied' : c <= cursor'
  BY <1>1, <1>2
<1> QED BY <1>1, <1>4, <1>5 DEF LinesInv

LEMMA LinesStep ==
  ASSUME OneProcess PROVE TypeOK /\ SyncInv /\ LinesInv /\ [Next]_vars => LinesInv'
<1> SUFFICES ASSUME TypeOK, SyncInv, LinesInv, [Next]_vars PROVE LinesInv'
  OBVIOUS
<1>1. CASE ServerChanges \/ UNCHANGED vars
  <2>1. UNCHANGED <<mirror, cursor, batch, applied, pc>>
    BY <1>1 DEF ServerChanges, vars, stored, memory
  <2> QED BY <2>1, LinesQuiet DEF InFlight
<1>2. ASSUME NEW p \in Processes, Fetch(p) PROVE LinesInv'
  BY <1>2, FetchFlight DEF LinesInv, NoLineOutlivesItsTransaction, Live
<1>3. ASSUME NEW p \in Processes,
             ReadCursor(p) \/ CompareLinks(p) \/ Report(p) \/ Fail(p) \/ Crash(p)
      PROVE  LinesInv'
  BY <1>3, QuietFlight, LinesQuiet
<1> QED BY <1>1, <1>2, <1>3, LinesStitched, LinesCommitted DEF Next, Tick

(* A change at YNAB keeps an import id that is set, and dates a new one.   *)
LEMMA ImportChange ==
  ASSUME TypeOK, ServerInv, ServerChanges, NEW t \in Txns
  PROVE  \/ srv'[t] = srv[t]
         \/ /\ srv'[t].ver = knowledge + 1
            /\ \/ srv'[t].imp = srv[t].imp
               \/ srv[t].imp = 0 /\ srv'[t].imp = knowledge + 1
<1>1. PICK e \in Entities : \E row \in Revisions(e, knowledge + 1) : srv' = [srv EXCEPT ![e] = row]
  BY DEF ServerChanges
<1>2. PICK row \in Revisions(e, knowledge + 1) : srv' = [srv EXCEPT ![e] = row]
  BY <1>1
<1>3. CASE t = e
  <2>1. srv'[t] = row
    BY <1>2, <1>3, Kinds DEF TypeOK, Rows
  <2> QED BY <1>3, <2>1 DEF Revisions
<1>4. CASE t # e
  BY <1>2, <1>4, Kinds DEF TypeOK, Rows
<1> QED BY <1>3, <1>4

LEMMA ImportsChanged ==
  ASSUME TypeOK, SyncInv, ImportsInv, ServerChanges PROVE ImportsInv'
<1> USE Arithmetic, Kinds DEF SyncInv
<1>1. UNCHANGED <<mirror, cursor, firstSeen, applied, pc, batch, sk>>
  BY DEF ServerChanges, stored, memory
<1>2. InFlight' = InFlight
  BY <1>1 DEF InFlight
<1>3. FirstSeenIsFirstSight'
  BY <1>1 DEF ImportsInv, FirstSeenIsFirstSight
<1>4. /\ cursor <= knowledge
      /\ \A p \in InFlight : sk[p] <= knowledge
  BY DEF StoreInv, TickInv, InFlight
<1>5. ASSUME NEW t \in Txns
      PROVE  /\ srv[t].imp \in Nat /\ srv[t].ver \in Nat /\ srv[t].ver <= knowledge
             /\ srv'[t].ver \in Nat /\ srv'[t].ver >= srv[t].ver
             /\ srv'[t].imp <= srv'[t].ver
             /\ srv[t].imp # 0 => srv'[t].imp = srv[t].imp
             /\ srv'[t].imp <= knowledge => srv'[t].imp = srv[t].imp
             /\ srv[t].del => srv'[t] = srv[t]
  <2>1. srv[t].imp \in Nat /\ srv[t].ver \in Nat
    BY RowsInPlay, RowFields DEF Knowledge
  <2>2. srv[t].ver <= knowledge /\ srv[t].imp <= srv[t].ver
    BY DEF ServerInv, ImportsInv
  <2>3. srv[t].del => srv'[t] = srv[t]
    BY ChangeFacts
  <2> QED BY <2>1, <2>2, <2>3, ImportChange
<1>6. ASSUME NEW t \in Txns
      PROVE  /\ srv'[t].imp <= srv'[t].ver
             /\ mirror'[t].imp # 0 => mirror'[t].imp = srv'[t].imp
             /\ srv'[t].imp \in 1 .. cursor' => HasImport(mirror, cursor, t)'
  <2>1. mirror[t].imp # 0 => mirror[t].imp = srv[t].imp
    BY DEF ImportsInv
  <2>2. srv'[t].imp \in 1 .. cursor => HasImport(mirror, cursor, t)'
    <3>1. srv[t].imp \in 1 .. cursor => HasImport(mirror, cursor, t)
      BY DEF ImportsInv
    <3> SUFFICES ASSUME srv'[t].imp \in 1 .. cursor PROVE HasImport(mirror, cursor, t)'
      OBVIOUS
    <3>2. srv'[t].imp = srv[t].imp
      BY <1>4, <1>5
    <3> QED BY <1>1, <1>5, <3>1, <3>2 DEF HasImport
  <2> QED BY <1>1, <1>5, <2>1, <2>2
<1>7. ASSUME NEW p \in InFlight, NEW t \in Txns
      PROVE  /\ batch[p][t].imp <= batch[p][t].ver /\ batch[p][t].ver <= srv'[t].ver
             /\ batch[p][t].imp # 0 => batch[p][t].imp = srv'[t].imp
             /\ srv'[t].imp \in 1 .. sk[p] => HasImport(Overlay(mirror, batch[p]), sk[p], t)'
  <2>0. p \in Processes /\ batch[p][t].imp \in Nat /\ batch[p][t].ver \in Nat
    BY RowsInPlay, RowFields DEF InFlight, Knowledge
  <2>1. /\ batch[p][t].imp <= batch[p][t].ver /\ batch[p][t].ver <= srv[t].ver
        /\ batch[p][t].imp # 0 => batch[p][t].imp = srv[t].imp
        /\ srv[t].imp \in 1 .. sk[p] => HasImport(Overlay(mirror, batch[p]), sk[p], t)
    BY DEF ImportsInv
  <2>2. srv'[t].imp \in 1 .. sk[p] => HasImport(Overlay(mirror, batch[p]), sk[p], t)'
    <3> SUFFICES ASSUME srv'[t].imp \in 1 .. sk[p]
                 PROVE  HasImport(Overlay(mirror, batch[p]), sk[p], t)'
      OBVIOUS
    <3>1. srv'[t].imp = srv[t].imp
      BY <1>4, <1>5, <2>0
    <3>2. Overlay(mirror, batch[p])' = Overlay(mirror, batch[p])
      BY <1>1 DEF Overlay
    <3> QED BY <1>1, <1>5, <2>1, <3>1, <3>2 DEF HasImport
  <2> QED BY <1>5, <2>0, <2>1, <2>2
<1> QED BY <1>1, <1>2, <1>3, <1>6, <1>7 DEF ImportsInv

LEMMA ImportsQuiet ==
  ASSUME ImportsInv, UNCHANGED <<srv, mirror, cursor, firstSeen, batch, sk, applied>>,
         InFlight' \subseteq InFlight
  PROVE  ImportsInv'
<1>1. FirstSeenIsFirstSight'
  BY DEF ImportsInv, FirstSeenIsFirstSight
<1> QED BY <1>1 DEF ImportsInv, HasImport, Overlay

LEMMA ImportsFetched ==
  ASSUME TypeOK, SyncInv, ImportsInv, OneProcess, NEW p \in Processes, Fetch(p)
  PROVE  ImportsInv'
<1> USE Arithmetic, Kinds, AbsentFields
<1>1. /\ UNCHANGED <<knowledge, srv, mirror, cursor, firstSeen, applied>>
      /\ InFlight' = {p} /\ sk'[p] = knowledge
      /\ \A e \in Entities : batch'[p][e] \in {srv[e], Absent}
  BY FetchFlight
<1>2. FirstSeenIsFirstSight'
  BY <1>1 DEF ImportsInv, FirstSeenIsFirstSight
<1>3. ASSUME NEW t \in Txns
      PROVE  /\ batch'[p][t].imp <= batch'[p][t].ver /\ batch'[p][t].ver <= srv[t].ver
             /\ batch'[p][t].imp # 0 => batch'[p][t].imp = srv[t].imp
             /\ HasImport(Overlay(mirror, batch'[p]), knowledge, t)
  <2>1. srv[t].imp <= srv[t].ver /\ srv[t].ver <= knowledge /\ srv[t].ver \in Nat
    BY DEF ImportsInv, SyncInv, ServerInv
  <2>2. Mirrors(Overlay(mirror, batch'[p]), t)
    BY FetchMirrors
  <2> QED BY <1>1, <2>1, <2>2 DEF HasImport, Mirrors
<1>4. Overlay(mirror, batch[p])' = Overlay(mirror, batch'[p])
  BY <1>1 DEF Overlay
<1>5. \A t \in Txns : HasImport(mirror, cursor, t)' <=> HasImport(mirror, cursor, t)
  BY <1>1 DEF HasImport
<1>6. \A t \in Txns : HasImport(Overlay(mirror, batch[p]), sk[p], t)'
  BY <1>1, <1>3, <1>4 DEF HasImport
<1> QED BY <1>1, <1>2, <1>3, <1>5, <1>6 DEF ImportsInv

LEMMA ImportsStitched ==
  ASSUME TypeOK, ImportsInv, OneProcess, NEW p \in Processes, Stitch(p)
  PROVE  ImportsInv'
<1> USE Kinds
<1>1. /\ UNCHANGED <<srv, mirror, cursor, firstSeen, applied, sk>>
      /\ p \in InFlight /\ InFlight' = {p}
      /\ \A e \in Entities \ Children : batch'[p][e] = batch[p][e]
  BY StitchFlight
<1>2. FirstSeenIsFirstSight'
  BY <1>1 DEF ImportsInv, FirstSeenIsFirstSight
<1>3. \A t \in Txns : /\ batch'[p][t] = batch[p][t]
                      /\ Overlay(mirror, batch[p])'[t] = Overlay(mirror, batch[p])[t]
  BY <1>1 DEF Overlay
<1> QED BY <1>1, <1>2, <1>3 DEF ImportsInv, HasImport

LEMMA ImportsCommitted ==
  ASSUME TypeOK, SyncInv, LinesInv, ImportsInv, OneProcess, NEW p \in Processes, Commit(p)
  PROVE  ImportsInv'
<1> USE Arithmetic, Kinds, AbsentFields, PastTicks, RowsInPlay, RowFields
<1>1. /\ srv' = srv /\ p \in InFlight /\ InFlight' = {}
      /\ cursor' = sk[p] /\ cursor <= sk[p] /\ applied' = applied \cup {sk[p]}
      /\ firstSeen' = SeenBy(batch[p], sk[p])
      /\ \A e \in Entities :
            /\ mirror'[e] = IF batch[p][e] # Absent THEN batch[p][e] ELSE mirror[e]
            /\ mirror'[e].ver <= sk[p]
  BY CommitFlight
<1>2. ASSUME NEW t \in Txns
      PROVE  /\ mirror'[t].imp # 0 => mirror'[t].imp = srv[t].imp
             /\ srv[t].imp \in 1 .. sk[p] => HasImport(Overlay(mirror, batch[p]), sk[p], t)
  BY <1>1 DEF ImportsInv
<1>3. ASSUME NEW t \in Txns, mirror'[t].imp # 0
      PROVE  /\ firstSeen'[t] \in applied'
             /\ firstSeen'[t] >= mirror'[t].imp
             /\ \A c \in applied' : c >= mirror'[t].imp => c >= firstSeen'[t]
  <2> DEFINE b == batch[p][t]
  <2>1. /\ b.imp <= b.ver /\ b.ver <= srv[t].ver
        /\ srv[t].imp \in 1 .. cursor => HasImport(mirror, cursor, t)
        /\ mirror[t].imp # 0 => mirror[t].imp = srv[t].imp
    BY <1>1 DEF ImportsInv
  <2>2. /\ mirror'[t].imp = srv[t].imp /\ mirror'[t].imp \in Nat \ {0}
        /\ b.imp \in Nat /\ b.ver \in Nat /\ srv[t].ver \in Nat /\ mirror[t].imp \in Nat
    <3>1. mirror'[t] = b \/ mirror'[t] = mirror[t]
      BY <1>1
    <3>2. b.imp \in Nat /\ mirror[t].imp \in Nat
      BY DEF Knowledge
    <3> QED BY <1>2, <1>3, <3>1, <3>2
  <2>3. CASE b # Absent /\ (mirror[t] = Absent \/ (mirror[t].imp = 0 /\ b.imp # 0))
    <3>1. firstSeen'[t] = sk[p] /\ mirror'[t] = b
      BY <1>1, <2>3 DEF SeenBy
    <3>2. b.imp <= sk[p]
      BY <1>1, <2>1, <2>2, <3>1
    <3>3. ASSUME NEW c \in applied', c >= b.imp PROVE c >= sk[p]
      <4> SUFFICES ASSUME c \in applied PROVE FALSE
        BY <1>1, <3>3
      <4>1. c <= cursor
        BY DEF LinesInv
      <4>2. HasImport(mirror, cursor, t)
        BY <2>1, <2>2, <3>1, <3>3, <4>1
      <4>3. mirror[t].imp # srv[t].imp
        BY <2>2, <2>3, <3>1
      <4>4. srv[t].ver <= cursor
        BY <4>2, <4>3 DEF HasImport
      <4>5. b.ver > cursor
        BY <1>1, <2>3 DEF LinesInv
      <4> QED BY <2>1, <2>2, <4>4, <4>5
    <3> QED BY <1>1, <3>1, <3>2, <3>3
  <2>4. CASE ~ (b # Absent /\ (mirror[t] = Absent \/ (mirror[t].imp = 0 /\ b.imp # 0)))
    <3>1. firstSeen'[t] = firstSeen[t]
      BY <1>1, <2>4 DEF SeenBy
    <3>2. mirror[t].imp = mirror'[t].imp
      BY <1>1, <2>1, <2>2, <2>4
    <3>3. /\ firstSeen[t] \in applied /\ firstSeen[t] >= mirror[t].imp
          /\ \A c \in applied : c >= mirror[t].imp => c >= firstSeen[t]
      BY <1>3, <3>2 DEF ImportsInv, FirstSeenIsFirstSight
    <3>4. firstSeen[t] <= cursor
      BY <3>3 DEF LinesInv
    <3> QED BY <1>1, <3>1, <3>2, <3>3, <3>4
  <2> QED BY <2>3, <2>4
<1>4. mirror' = Overlay(mirror, batch[p])
  BY DEF Commit
<1>5. \A t \in Txns : srv'[t].imp \in 1 .. cursor' => HasImport(mirror, cursor, t)'
  BY <1>1, <1>2, <1>4 DEF HasImport
<1> QED BY <1>1, <1>2, <1>3, <1>5 DEF ImportsInv, FirstSeenIsFirstSight

LEMMA ImportsStep ==
  ASSUME OneProcess
  PROVE  TypeOK /\ SyncInv /\ LinesInv /\ ImportsInv /\ [Next]_vars => ImportsInv'
<1> SUFFICES ASSUME TypeOK, SyncInv, LinesInv, ImportsInv, [Next]_vars PROVE ImportsInv'
  OBVIOUS
<1>1. CASE UNCHANGED vars
  <2>1. UNCHANGED <<srv, mirror, cursor, firstSeen, batch, sk, applied, pc>>
    BY <1>1 DEF vars, external, stored, memory
  <2> QED BY <2>1, ImportsQuiet DEF InFlight
<1>2. ASSUME NEW p \in Processes,
             ReadCursor(p) \/ CompareLinks(p) \/ Report(p) \/ Fail(p) \/ Crash(p)
      PROVE  ImportsInv'
  BY <1>2, QuietFlight, ImportsQuiet
<1> QED BY <1>1, <1>2, ImportsChanged, ImportsFetched, ImportsStitched, ImportsCommitted
        DEF Next, Tick

(* What the reader of the link events knows. *)
LEMMA LinksQuiet ==
  ASSUME TypeOK, LinksInv, OneProcess, NEW p \in Processes,
         ReadCursor(p) \/ CompareLinks(p) \/ Report(p) \/ Fail(p) \/ Crash(p)
  PROVE  LinksInv'
<1> USE RowsInPlay, RowFields, Kinds
<1>1. /\ UNCHANGED <<srv, mirror, batch>> /\ InFlight' \subseteq InFlight
  BY QuietFlight
<1>2. ASSUME NEW a \in Accounts
      PROVE  \/ mirror[a].del
             \/ mirror[a].err \in told'[a]
             \/ \E q \in Processes : pc'[q] = "committed" /\ a \in events'[q]
  <2>1. \/ mirror[a].del
        \/ mirror[a].err \in told[a]
        \/ pc[p] = "committed" /\ a \in events[p]
    BY DEF LinksInv, OneProcess
  <2>2. pc[p] = "committed" /\ a \in events[p] => mirror[a] = batch[p][a]
    BY DEF LinksInv
  <2>3. CASE Report(p)
    <3>1. pc[p] = "committed" /\ told'[a] = IF a \in events[p] THEN {batch[p][a].err} ELSE told[a]
      BY <2>3 DEF Report
    <3> QED BY <2>1, <2>2, <3>1
  <2>4. CASE Crash(p)
    <3>1. told'[a] = IF a \in events[p] THEN BOOLEAN ELSE told[a]
      BY <2>4 DEF Crash
    <3> QED BY <2>1, <3>1
  <2>5. CASE ReadCursor(p) \/ CompareLinks(p) \/ Fail(p)
    <3>1. told' = told /\ pc[p] # "committed"
      BY <2>5 DEF ReadCursor, CompareLinks, Fail
    <3> QED BY <2>1, <3>1
  <2> QED BY <2>3, <2>4, <2>5
<1>3. \/ ReadCursor(p) /\ pc'[p] = "read"
      \/ CompareLinks(p) /\ pc'[p] = "compared" /\ events'[p] = LinkEvents(batch[p], base[p]) /\ base' = base
      \/ pc'[p] = "idle"
  BY DEF ReadCursor, CompareLinks, Report, Fail, Crash, TypeOK
<1>4. LinkEvents(batch[p], base[p])' = LinkEvents(batch'[p], base'[p])
  BY <1>1 DEF LinkEvents
<1>5. LinkEvents(batch'[p], base[p]) = LinkEvents(batch[p], base[p])
  BY <1>1
<1>6. /\ pc'[p] = "compared" => events'[p] = LinkEvents(batch[p], base[p])'
      /\ pc'[p] # "committed"
  BY <1>3, <1>4, <1>5
<1> QED BY <1>1, <1>2, <1>6 DEF LinksInv, OneProcess

LEMMA LinksMoved ==
  ASSUME TypeOK, SyncInv, LinksInv, OneProcess, NEW p \in Processes, Fetch(p) \/ Stitch(p)
  PROVE  LinksInv'
<1> USE Kinds, AbsentFields
<1>1. /\ UNCHANGED <<srv, mirror, told, events>> /\ InFlight' = {p}
      /\ pc[p] \in {"read", "fetched"} /\ pc'[p] \in {"fetched", "stitched"}
  BY FetchFlight, StitchFlight
<1>2. ASSUME NEW a \in Accounts
      PROVE  /\ batch'[p][a].del => srv[a].del
             /\ mirror[a].del /\ batch'[p][a] # Absent => batch'[p][a].del
             /\ mirror[a].del => srv[a].del
  <2>1. CASE Fetch(p)
    BY <2>1, FetchFlight DEF LinksInv
  <2>2. CASE Stitch(p)
    <3>1. batch'[p][a] = batch[p][a] /\ p \in InFlight
      BY <2>2, StitchFlight
    <3> QED BY <3>1 DEF LinksInv
  <2> QED BY <2>1, <2>2
<1>3. \A a \in Accounts : mirror[a].del \/ mirror[a].err \in told[a]
  BY <1>1 DEF LinksInv, OneProcess
<1> QED BY <1>1, <1>2, <1>3 DEF LinksInv, OneProcess

LEMMA LinksCommitted ==
  ASSUME TypeOK, SyncInv, LinksInv, OneProcess, NEW p \in Processes, Commit(p)
  PROVE  LinksInv'
<1> USE Kinds, AbsentFields
<1>1. /\ UNCHANGED <<srv, batch, events>> /\ p \in InFlight /\ InFlight' = {}
      /\ pc[p] = "compared" /\ pc'[p] = "committed"
      /\ \A e \in Entities :
            mirror'[e] = IF batch[p][e] # Absent THEN batch[p][e] ELSE mirror[e]
  BY CommitFlight
<1>2. told' = IF base[p] = NoCursor THEN [a \in Accounts |-> {mirror'[a].err}] ELSE told
  BY DEF Commit
<1>3. events[p] = LinkEvents(batch[p], base[p])
  BY <1>1 DEF LinksInv
<1>4. ASSUME NEW a \in Accounts
      PROVE  /\ mirror[a].del => srv[a].del
             /\ mirror[a].del \/ mirror[a].err \in told[a]
             /\ batch[p][a].del => srv[a].del
             /\ mirror[a].del /\ batch[p][a] # Absent => batch[p][a].del
  BY <1>1 DEF LinksInv, OneProcess
<1>5. ASSUME NEW a \in Accounts
      PROVE  /\ mirror'[a].del => srv[a].del
             /\ mirror'[a].del \/ mirror'[a].err \in told'[a] \/ a \in events[p]
  BY <1>1, <1>2, <1>3, <1>4 DEF LinkEvents
<1>6. ASSUME NEW a \in events[p]
      PROVE  told'[a] # {batch[p][a].err} /\ mirror'[a] = batch[p][a]
  <2>1. /\ a \in Accounts /\ base[p] # NoCursor
        /\ batch[p][a] # Absent /\ ~ batch[p][a].del /\ batch[p][a].err # mirror[a].err
    BY <1>3 DEF LinkEvents
  <2> QED BY <1>1, <1>2, <1>4, <2>1
<1> QED BY <1>1, <1>5, <1>6 DEF LinksInv, OneProcess

LEMMA LinksStep ==
  ASSUME OneProcess PROVE TypeOK /\ SyncInv /\ LinksInv /\ [Next]_vars => LinksInv'
<1> SUFFICES ASSUME TypeOK, SyncInv, LinksInv, [Next]_vars PROVE LinksInv'
  OBVIOUS
<1>1. CASE ServerChanges
  <2>1. UNCHANGED <<mirror, pc, base, batch, events, told>>
    BY <1>1 DEF ServerChanges, stored, memory
  <2>2. \A a \in Accounts : srv[a].del => srv'[a].del
    BY <1>1, ChangeFacts, Kinds DEF SyncInv
  <2> QED BY <2>1, <2>2 DEF LinksInv, InFlight, LinkEvents
<1>2. CASE UNCHANGED vars
  BY <1>2 DEF LinksInv, InFlight, LinkEvents, vars, external, stored, memory
<1> QED BY <1>1, <1>2, LinksQuiet, LinksMoved, LinksCommitted DEF Next, Tick

LEMMA HistoryInit == Init => HistoryInv
<1> SUFFICES ASSUME Init PROVE HistoryInv
  OBVIOUS
<1>1. /\ \A e \in Entities : srv[e] = Absent /\ mirror[e] = Absent
      /\ cursor = -1 /\ applied = {} /\ InFlight = {}
      /\ \A p \in Processes : pc[p] = "idle"
      /\ \A a \in Accounts : told[a] = {FALSE}
  BY DEF Init, Nothing, InFlight, NoCursor
<1>2. Absent.err = FALSE /\ Absent.ver = 0 /\ Absent.imp = 0 /\ Absent.del = FALSE
  BY DEF Absent
<1>3. LinesInv
  BY <1>1, Kinds, ParentIsAnEntity DEF LinesInv, NoLineOutlivesItsTransaction, Live
<1>4. ImportsInv
  BY <1>1, <1>2, Kinds DEF ImportsInv, FirstSeenIsFirstSight
<1>5. LinksInv
  BY <1>1, <1>2, Kinds DEF LinksInv
<1> QED BY <1>3, <1>4, <1>5 DEF HistoryInv

(* The inductive invariant behind the three theorems that follow. *)
THEOREM HistoryInvariant == ASSUME OneProcess PROVE Spec => []HistoryInv
<1>1. TypeOK /\ SyncInv /\ HistoryInv /\ [Next]_vars => HistoryInv'
  BY LinesStep, ImportsStep, LinksStep DEF HistoryInv
<1> QED BY <1>1, HistoryInit, TypeCorrect, SyncInvariant, PTL DEF Spec

(* A split line mirrored before its transaction's tombstone goes with it.  *)
THEOREM LinesEndWithTheirTransaction ==
  ASSUME OneProcess PROVE Spec => []NoLineOutlivesItsTransaction
<1>1. HistoryInv => NoLineOutlivesItsTransaction
  BY DEF HistoryInv, LinesInv
<1> QED BY <1>1, HistoryInvariant, PTL

(* first_seen_at is the first committed tick that could show the import    *)
(* id, and no replay, edit or tombstone moves it.                          *)
THEOREM FirstSightKept == ASSUME OneProcess PROVE Spec => []FirstSeenIsFirstSight
<1>1. HistoryInv => FirstSeenIsFirstSight
  BY DEF HistoryInv, ImportsInv
<1> QED BY <1>1, HistoryInvariant, PTL

(* Each change of a bank link is told once, unless a death after COMMIT    *)
(* lost the telling.                                                       *)
THEOREM LinkEventsOnce == ASSUME OneProcess PROVE Spec => []LinkEventsOncePerTransition
<1>1. HistoryInv => LinkEventsOncePerTransition
  BY DEF HistoryInv, LinksInv, LinkEventsOncePerTransition, Live
<1> QED BY <1>1, HistoryInvariant, PTL

-----------------------------------------------------------------------------
(* The mirror is a replica of the plan *)

LEMMA ViewType == ASSUME NEW rows \in Rows PROVE View(rows) \in Rows
  BY DEF View, Rows

(* Stitching changes nothing a reader could see. *)
LEMMA StitchKeepsView ==
  ASSUME TypeOK, NEW b \in Rows
  PROVE  View(Overlay(mirror, Stitched(b))) = View(Overlay(mirror, b))
<1> USE ParentIsAnEntity
<1> DEFINE after == Overlay(mirror, Stitched(b))
           before == Overlay(mirror, b)
<1> SUFFICES ASSUME NEW e \in Entities PROVE View(after)[e] = View(before)[e]
  BY DEF View
<1>1. \A s \in Children : after[Parent[s]] = before[Parent[s]]
  BY DEF Overlay, Stitched, Orphans, TakenAlong, Children
<1>2. CASE e \in Orphans(b)
  <2>1. e \in Children /\ before[Parent[e]] = Absent
    BY <1>2 DEF Orphans, HasParent, Overlay
  <2> QED BY <1>1, <2>1 DEF View, Shown, Live
<1>3. CASE e \in TakenAlong(b)
  <2>1. e \in Children /\ before[Parent[e]].del
    BY <1>3 DEF TakenAlong, Children, Overlay, Absent
  <2> QED BY <1>1, <2>1 DEF View, Shown, Live
<1>4. CASE e \notin Orphans(b) /\ e \notin TakenAlong(b)
  <2>1. after[e] = before[e]
    BY <1>4 DEF Overlay, Stitched
  <2> QED BY <1>1, <2>1 DEF View, Shown, Live
<1> QED BY <1>2, <1>3, <1>4

LEMMA PendingOf ==
  ASSUME OneProcess, NEW p \in Processes
  PROVE  /\ replicaPending = IF pc[p] \in {"fetched", "stitched", "compared"}
                             THEN <<View(Overlay(mirror, batch[p]))>> ELSE <<>>
         /\ replicaPending' = IF pc'[p] \in {"fetched", "stitched", "compared"}
                              THEN <<View(Overlay(mirror, batch[p]))'>> ELSE <<>>
<1>1. /\ pc[p] \in {"fetched", "stitched", "compared"} => InFlight = {p}
      /\ pc[p] \notin {"fetched", "stitched", "compared"} => InFlight = {}
      /\ pc'[p] \in {"fetched", "stitched", "compared"} => InFlight' = {p}
      /\ pc'[p] \notin {"fetched", "stitched", "compared"} => InFlight' = {}
  BY DEF InFlight, OneProcess
<1>2. (CHOOSE q \in {p} : TRUE) = p
  OBVIOUS
<1>3. replicaPending = IF pc[p] \in {"fetched", "stitched", "compared"}
                       THEN <<View(Overlay(mirror, batch[p]))>> ELSE <<>>
  BY <1>1, <1>2 DEF replicaPending
<1>4. replicaPending' = IF pc'[p] \in {"fetched", "stitched", "compared"}
                        THEN <<View(Overlay(mirror, batch[p]))'>> ELSE <<>>
  <2>1. CASE pc'[p] \in {"fetched", "stitched", "compared"}
    <3>1. (CHOOSE q \in InFlight' : TRUE) = p
      BY <1>1, <1>2, <2>1
    <3> QED BY <1>1, <2>1, <3>1 DEF replicaPending
  <2>2. CASE pc'[p] \notin {"fetched", "stitched", "compared"}
    BY <1>1, <2>2 DEF replicaPending
  <2> QED BY <2>1, <2>2
<1> QED BY <1>3, <1>4

LEMMA OverlaidView ==
  ASSUME NEW p \in Processes, mirror' = mirror
  PROVE  View(Overlay(mirror, batch[p]))' = View(Overlay(mirror, batch'[p]))
  BY DEF View, Shown, Live, Overlay

LEMMA PendingIdle ==
  ASSUME UNCHANGED <<mirror, batch, pc>> PROVE replicaPending' = replicaPending
  BY DEF replicaPending, InFlight, View, Shown, Live, Overlay

LEMMA ReplicaStep ==
  ASSUME OneProcess, TypeOK, TypeOK', SyncInv, [Next]_vars
  PROVE  [Replica!Next]_(Replica!vars)
<1> DEFINE working == {"fetched", "stitched", "compared"}
<1> USE DEF Replica!Next, Replica!vars
<1>1. CASE ServerChanges
  <2>1. View(srv)' \in Rows
    BY ViewType DEF TypeOK
  <2>2. UNCHANGED <<mirror, batch, pc>>
    BY <1>1 DEF ServerChanges, stored, memory
  <2>3. View(mirror)' = View(mirror)
    BY <2>2 DEF View, Shown, Live
  <2> QED BY <2>1, <2>2, <2>3, PendingIdle DEF Replica!Change
<1>2. ASSUME NEW p \in Processes, Fetch(p) PROVE Replica!Take
  <2>1. UNCHANGED <<mirror, srv>> /\ pc[p] = "read" /\ pc'[p] = "fetched"
    BY <1>2 DEF Fetch, external, stored, TypeOK
  <2>2. View(Overlay(mirror, batch'[p])) = View(srv)
    BY <1>2, FetchMirrors, MirrorsShowTheSame, ParentIsAnEntity DEF View
  <2>3. replicaPending = <<>> /\ replicaPending' = <<View(srv)>>
    BY <2>1, <2>2, PendingOf, OverlaidView
  <2> QED BY <2>1, <2>3 DEF Replica!Take, View, Shown, Live
<1>3. ASSUME NEW p \in Processes, Stitch(p) PROVE UNCHANGED Replica!vars
  <2>1. /\ UNCHANGED <<mirror, srv>> /\ pc[p] = "fetched" /\ pc'[p] = "stitched"
        /\ batch'[p] = Stitched(batch[p])
    BY <1>3 DEF Stitch, external, stored, TypeOK
  <2>2. View(Overlay(mirror, batch'[p])) = View(Overlay(mirror, batch[p]))
    BY <2>1, StitchKeepsView DEF TypeOK
  <2>3. replicaPending' = replicaPending
    BY <2>1, <2>2, PendingOf, OverlaidView
  <2> QED BY <2>1, <2>3 DEF View, Shown, Live
<1>4. ASSUME NEW p \in Processes, Commit(p) PROVE Replica!Install
  <2>1. /\ srv' = srv /\ mirror' = Overlay(mirror, batch[p])
        /\ pc[p] = "compared" /\ pc'[p] = "committed"
    BY <1>4 DEF Commit, external, TypeOK
  <2>2. replicaPending = <<View(mirror)'>> /\ replicaPending' = <<>>
    BY <2>1, PendingOf DEF View, Shown, Live
  <2> QED BY <2>1, <2>2 DEF Replica!Install, View, Shown, Live
<1>5. ASSUME NEW p \in Processes,
             ReadCursor(p) \/ CompareLinks(p) \/ Report(p) \/ Crash(p)
      PROVE  UNCHANGED Replica!vars
  <2>1. /\ UNCHANGED <<mirror, srv, batch>>
        /\ pc[p] \in working <=> pc'[p] \in working
    BY <1>5 DEF ReadCursor, CompareLinks, Report, Crash, external, stored, memory, TypeOK
  <2>2. replicaPending' = replicaPending
    <3>1. batch'[p] = batch[p]
      BY <2>1
    <3> QED BY <2>1, <3>1, PendingOf, OverlaidView
  <2> QED BY <2>1, <2>2 DEF View, Shown, Live
<1>6. ASSUME NEW p \in Processes, Fail(p)
      PROVE  Replica!Abandon \/ UNCHANGED Replica!vars
  <2>1. UNCHANGED <<mirror, srv, batch>> /\ pc'[p] = "idle"
    BY <1>6 DEF Fail, external, stored, memory, TypeOK
  <2>2. UNCHANGED <<View(srv), View(mirror)>> /\ replicaPending' = <<>>
    BY <2>1, PendingOf DEF View, Shown, Live
  <2> QED BY <2>2 DEF Replica!Abandon
<1>7. CASE UNCHANGED vars
  BY <1>7, PendingIdle DEF vars, external, stored, memory, View, Shown, Live
<1> QED BY <1>1, <1>2, <1>3, <1>4, <1>5, <1>6, <1>7 DEF Next, Tick

(* Ticks that do not overlap implement the atomic replica: what readers of *)
(* the mirror see is always the plan as YNAB showed it at one fetch.       *)
THEOREM MirrorImplementsReplica ==
  ASSUME OneProcess PROVE Spec => MirrorIsAPlanReplica
<1>1. Init => Replica!Init
  <2> SUFFICES ASSUME Init PROVE Replica!Init
    OBVIOUS
  <2>1. View(srv) = Nothing /\ View(mirror) = Nothing
    BY DEF Init, View, Shown, Live, Nothing
  <2>2. replicaPending = <<>>
    BY DEF Init, replicaPending, InFlight
  <2> QED BY <2>1, <2>2 DEF Replica!Init
<1>2. TypeOK /\ TypeOK' /\ SyncInv /\ [Next]_vars => [Replica!Next]_(Replica!vars)
  BY ReplicaStep
<1> QED BY <1>1, <1>2, TypeCorrect, SyncInvariant, PTL
        DEF Spec, MirrorIsAPlanReplica, Replica!Spec
=============================================================================
