---------------------------- MODULE LoginsProofs ----------------------------
(***************************************************************************)
(* What holds of sign-ins, of the secret and of starting and stopping, for *)
(* every number of processes, logins, requests being handled and places to *)
(* park.                                                                   *)
(***************************************************************************)
EXTENDS Logins, FiniteSetTheorems, TLAPS

USE LoginsAssumption

-----------------------------------------------------------------------------
(* What a step does to the handlers *)

LEMMA HandlerTypes ==
  ASSUME TypeOK, NEW h \in Handlers
  PROVE  /\ handler[h] \in Requests \/ handler[h] = Idle
         /\ handler[h].pc # "idle" => handler[h] \in Requests
         /\ handler[h].at \in Procs => handler[h] \in Requests
  BY DEF TypeOK, Requests, Idle

LEMMA Advanced ==
  ASSUME TypeOK, NEW h \in Handlers, Exchange(h) \/ Admit(h)
  PROVE  \E pc \in {"admit", "park"} :
            handler' = [handler EXCEPT ![h] = [pc |-> pc, login |-> handler[h].login,
                                               at |-> handler[h].at]]
<1>1. handler[h] \in Requests
  BY HandlerTypes DEF Exchange, Admit
<1>2. \A v : [handler[h] EXCEPT !.pc = v] =
               [pc |-> v, login |-> handler[h].login, at |-> handler[h].at]
  BY <1>1 DEF Requests
<1>3. CASE Exchange(h)
  BY <1>2, <1>3 DEF Exchange
<1>4. CASE Admit(h)
  BY <1>2, <1>4 DEF Admit
<1> QED BY <1>3, <1>4

LEMMA WereCut ==
  ASSUME TypeOK, NEW p \in Procs, CutOff(p), NEW h \in Handlers
  PROVE  /\ handler[h].at = p =>
               handler'[h] = [pc |-> "cut", login |-> handler[h].login, at |-> p]
         /\ handler[h].at # p => handler'[h] = handler[h]
         /\ handler'[h].at = handler[h].at
         /\ handler'[h].at = p => handler'[h].pc = "cut"
<1>1. CASE handler[h].at = p
  <2>1. handler[h] \in Requests
    BY <1>1, HandlerTypes
  <2>2. handler'[h] = [handler[h] EXCEPT !.pc = "cut"]
    BY <1>1 DEF CutOff, Handling
  <2>3. handler'[h] = [pc |-> "cut", login |-> handler[h].login, at |-> p]
    BY <1>1, <2>1, <2>2 DEF Requests
  <2> QED BY <1>1, <2>3
<1>2. CASE handler[h].at # p
  BY <1>2 DEF CutOff, Handling
<1> QED BY <1>1, <1>2

(* The steps that start and stop a process, short of its death. *)
Run(p) ==
    \/ Start(p) \/ Discover(p) \/ BuildFails(p)
    \/ ReadSecret(p) \/ InsertSecret(p) \/ RereadSecret(p)
    \/ Stop(p) \/ Drain(p) \/ CloseDatabase(p)

LEMMA RunKeeps ==
  ASSUME NEW p, Run(p)
  PROVE  UNCHANGED <<pending, consents, handler, past>>
  BY DEF Run, Start, Discover, BuildFails, ReadSecret, InsertSecret, RereadSecret,
         Stop, Drain, CloseDatabase

-----------------------------------------------------------------------------
(* Parked entries *)

LEMMA ParkedTypes ==
  ASSUME NEW S \in SUBSET Entries, NEW l \in Logins
  PROVE  /\ Live(S) \in SUBSET Entries
         /\ Without(S, l) \in SUBSET Entries
         /\ Aged(S, l) \in SUBSET Entries
         /\ Live(S) \cup {Entry(l)} \in SUBSET Entries
<1>1. Live(S) \in SUBSET Entries /\ Without(S, l) \in SUBSET Entries
  BY DEF Live, Without
<1>2. Aged(S, l) \in SUBSET Entries
  <2>1. \A e \in S : [login |-> e.login, old |-> e.old \/ e.login = l] \in Entries
    BY DEF Entries
  <2> QED BY <2>1 DEF Aged
<1>3. Entry(l) \in Entries
  BY DEF Entry, Entries
<1> QED BY <1>1, <1>2, <1>3

LEMMA LiveCounts ==
  ASSUME NEW S, IsFiniteSet(S)
  PROVE  /\ Cardinality(S) \in Nat
         /\ IsFiniteSet(Live(S)) /\ Cardinality(Live(S)) \in Nat
         /\ Cardinality(Live(S)) <= Cardinality(S)
<1>1. Live(S) \in SUBSET S
  BY DEF Live
<1> QED BY <1>1, FS_Subset, FS_CardinalityType

(* What is taken off or grows old makes no set larger. *)
LEMMA ParkedCounts ==
  ASSUME NEW S, IsFiniteSet(S), NEW l
  PROVE  /\ IsFiniteSet(Without(S, l)) /\ Cardinality(Without(S, l)) \in Nat
         /\ Cardinality(Without(S, l)) <= Cardinality(S)
         /\ IsFiniteSet(Aged(S, l)) /\ Cardinality(Aged(S, l)) \in Nat
         /\ Cardinality(Aged(S, l)) <= Cardinality(S)
         /\ IsFiniteSet(Live(S) \cup {Entry(l)})
         /\ Cardinality(Live(S) \cup {Entry(l)}) \in Nat
         /\ Cardinality(Live(S) \cup {Entry(l)}) <= Cardinality(Live(S)) + 1
<1>1. IsFiniteSet(Without(S, l)) /\ Cardinality(Without(S, l)) <= Cardinality(S)
  <2>1. Without(S, l) \in SUBSET S
    BY DEF Without
  <2> QED BY <2>1, FS_Subset
<1>2. IsFiniteSet(Aged(S, l)) /\ Cardinality(Aged(S, l)) <= Cardinality(S)
  <2> DEFINE f == [e \in S |-> [login |-> e.login, old |-> e.old \/ e.login = l]]
  <2>1. f \in Surjection(S, Aged(S, l))
    BY DEF Surjection, Aged
  <2> QED BY <2>1, FS_Surjection
<1>3. /\ IsFiniteSet(Live(S) \cup {Entry(l)})
      /\ Cardinality(Live(S) \cup {Entry(l)}) <= Cardinality(Live(S)) + 1
  <2>1. IsFiniteSet(Live(S)) /\ Cardinality(Live(S)) \in Nat
    BY LiveCounts
  <2>2. /\ IsFiniteSet(Live(S) \cup {Entry(l)})
        /\ Cardinality(Live(S) \cup {Entry(l)}) =
             IF Entry(l) \in Live(S) THEN Cardinality(Live(S)) ELSE Cardinality(Live(S)) + 1
    BY <2>1, FS_AddElement
  <2> QED BY <2>1, <2>2
<1> QED BY <1>1, <1>2, <1>3, FS_CardinalityType

(* A new entry is parked only where there is room. *)
LEMMA RoomForOne ==
  ASSUME RoomInv, NEW p \in Procs, NEW l \in Logins, HasRoom(p)
  PROVE  /\ Cardinality(Live(pending[p]) \cup {Entry(l)}) + Cardinality(Live(consents[p])) <= MaxPending
         /\ Cardinality(Live(pending[p])) + Cardinality(Live(consents[p]) \cup {Entry(l)}) <= MaxPending
<1>1. IsFiniteSet(pending[p]) /\ IsFiniteSet(consents[p])
  BY DEF RoomInv
<1>2. ASSUME NEW S, IsFiniteSet(S)
      PROVE  /\ Cardinality(Live(S)) \in Nat
             /\ Cardinality(Live(S) \cup {Entry(l)}) \in Nat
             /\ Cardinality(Live(S) \cup {Entry(l)}) <= Cardinality(Live(S)) + 1
  BY <1>2, LiveCounts, ParkedCounts
<1>3. Cardinality(Live(pending[p])) + Cardinality(Live(consents[p])) < MaxPending
  BY DEF HasRoom
<1>4. /\ Cardinality(Live(pending[p])) \in Nat /\ Cardinality(Live(consents[p])) \in Nat
      /\ Cardinality(Live(pending[p]) \cup {Entry(l)}) \in Nat
      /\ Cardinality(Live(consents[p]) \cup {Entry(l)}) \in Nat
      /\ Cardinality(Live(pending[p]) \cup {Entry(l)}) <= Cardinality(Live(pending[p])) + 1
      /\ Cardinality(Live(consents[p]) \cup {Entry(l)}) <= Cardinality(Live(consents[p])) + 1
  BY <1>1, <1>2
<1> QED BY <1>3, <1>4

LEMMA RefusedForTheLiving ==
  ASSUME RoomInv, NEW p \in Procs, Refuse(p)
  PROVE  full' = MaxPending
<1>1. /\ IsFiniteSet(pending[p]) /\ IsFiniteSet(consents[p])
      /\ Cardinality(pending[p]) + Cardinality(consents[p]) <= MaxPending
  BY DEF RoomInv, CapIsForTheLiving
<1>2. /\ ~ (Cardinality(Live(pending[p])) + Cardinality(Live(consents[p])) < MaxPending)
      /\ full' = Cardinality(Live(pending[p])) + Cardinality(Live(consents[p]))
  BY DEF Refuse, HasRoom
<1> QED BY <1>1, <1>2, LiveCounts

LEMMA RoomUnchanged ==
  ASSUME RoomInv, UNCHANGED <<pending, consents, full>> PROVE RoomInv'
  BY DEF RoomInv, CapIsForTheLiving

LEMMA RoomStep ==
  ASSUME TypeOK, RoomInv, [Next]_vars PROVE RoomInv'
<1>1. \A p \in Procs : /\ IsFiniteSet(pending[p]) /\ IsFiniteSet(consents[p])
                       /\ Cardinality(pending[p]) + Cardinality(consents[p]) <= MaxPending
  BY DEF RoomInv, CapIsForTheLiving
<1>2. full >= MaxPending
  BY DEF RoomInv, CapIsForTheLiving
<1>3. ASSUME NEW p \in Procs,
             NEW S, NEW T, IsFiniteSet(S), IsFiniteSet(T),
             Cardinality(S) + Cardinality(T) <= MaxPending,
             pending' = [pending EXCEPT ![p] = S], consents' = [consents EXCEPT ![p] = T],
             full' >= MaxPending
      PROVE  RoomInv'
  <2>1. \A q \in Procs : /\ pending'[q] = IF q = p THEN S ELSE pending[q]
                         /\ consents'[q] = IF q = p THEN T ELSE consents[q]
    BY <1>3 DEF TypeOK
  <2> QED BY <1>1, <1>3, <2>1 DEF RoomInv, CapIsForTheLiving
<1>4. ASSUME NEW p \in Procs, Crash(p) PROVE RoomInv'
  <2>1. pending' = [pending EXCEPT ![p] = {}] /\ consents' = [consents EXCEPT ![p] = {}]
    BY <1>4 DEF Crash
  <2>2. full' >= MaxPending
    BY <1>2, <1>4 DEF Crash, past
  <2>3. IsFiniteSet({}) /\ Cardinality({}) + Cardinality({}) <= MaxPending
    <3>1. IsFiniteSet({}) /\ Cardinality({}) = 0
      BY FS_EmptySet
    <3> QED BY <3>1
  <2> QED BY <1>3, <2>1, <2>2, <2>3
<1>5. ASSUME NEW p \in Procs, NEW l \in Logins, Authorize(p, l) PROVE RoomInv'
  <2>1. /\ HasRoom(p) /\ full' >= MaxPending
        /\ pending' = [pending EXCEPT ![p] = Live(pending[p]) \cup {Entry(l)}]
        /\ consents' = [consents EXCEPT ![p] = Live(consents[p])]
    BY <1>2, <1>5 DEF Authorize
  <2>2. IsFiniteSet(Live(pending[p]) \cup {Entry(l)}) /\ IsFiniteSet(Live(consents[p]))
    BY <1>1, LiveCounts, ParkedCounts
  <2>3. Cardinality(Live(pending[p]) \cup {Entry(l)}) + Cardinality(Live(consents[p])) <= MaxPending
    BY <2>1, RoomForOne
  <2> QED BY <1>3, <2>1, <2>2, <2>3
<1>6. ASSUME NEW h \in Handlers, ParkConsent(h) PROVE RoomInv'
  <2> DEFINE p == handler[h].at
             l == handler[h].login
  <2>1. p \in Procs /\ l \in Logins
    BY <1>6, HandlerTypes DEF ParkConsent, Requests
  <2>2. /\ HasRoom(p) /\ full' >= MaxPending
        /\ pending' = [pending EXCEPT ![p] = Live(pending[p])]
        /\ consents' = [consents EXCEPT ![p] = Live(consents[p]) \cup {Entry(l)}]
    BY <1>2, <1>6 DEF ParkConsent
  <2>3. IsFiniteSet(Live(consents[p]) \cup {Entry(l)}) /\ IsFiniteSet(Live(pending[p]))
    BY <1>1, <2>1, LiveCounts, ParkedCounts
  <2>4. Cardinality(Live(pending[p])) + Cardinality(Live(consents[p]) \cup {Entry(l)}) <= MaxPending
    BY <2>1, <2>2, RoomForOne
  <2> QED BY <1>3, <2>1, <2>2, <2>3, <2>4
<1>7. ASSUME NEW p \in Procs, Refuse(p) PROVE RoomInv'
  <2>1. /\ pending' = [pending EXCEPT ![p] = Live(pending[p])]
        /\ consents' = [consents EXCEPT ![p] = Live(consents[p])]
    BY <1>7 DEF Refuse
  <2>2. /\ IsFiniteSet(Live(pending[p])) /\ IsFiniteSet(Live(consents[p]))
        /\ Cardinality(Live(pending[p])) + Cardinality(Live(consents[p])) <= MaxPending
    BY <1>1, LiveCounts
  <2>3. full' >= MaxPending
    BY <1>7, RefusedForTheLiving
  <2> QED BY <1>3, <2>1, <2>2, <2>3
<1>8. ASSUME NEW h \in Handlers, RefuseConsent(h) PROVE RoomInv'
  <2>1. handler[h].at \in Procs
    BY <1>8, HandlerTypes DEF RefuseConsent, Requests
  <2> QED BY <1>7, <1>8, <2>1 DEF RefuseConsent
<1>9. \A S, l : IsFiniteSet(S) => /\ IsFiniteSet(Without(S, l)) /\ IsFiniteSet(Aged(S, l))
                                  /\ Cardinality(S) \in Nat
                                  /\ Cardinality(Without(S, l)) \in Nat
                                  /\ Cardinality(Aged(S, l)) \in Nat
                                  /\ Cardinality(Without(S, l)) <= Cardinality(S)
                                  /\ Cardinality(Aged(S, l)) <= Cardinality(S)
  BY ParkedCounts, LiveCounts
<1>10. ASSUME NEW p \in Procs, NEW l \in Logins, NEW h \in Handlers, Callback(h, p, l)
       PROVE  RoomInv'
  <2>1. /\ pending' = [pending EXCEPT ![p] = Without(pending[p], l)]
        /\ consents' = [consents EXCEPT ![p] = consents[p]] /\ full' >= MaxPending
    BY <1>2, <1>10 DEF Callback, past, TypeOK
  <2>2. /\ IsFiniteSet(Without(pending[p], l))
        /\ Cardinality(Without(pending[p], l)) + Cardinality(consents[p]) <= MaxPending
    BY <1>1, <1>9
  <2> QED BY <1>1, <1>3, <2>1, <2>2
<1>11. ASSUME NEW p \in Procs, NEW l \in Logins, NEW h \in Handlers, Consent(h, p, l)
       PROVE  RoomInv'
  <2>1. /\ pending' = [pending EXCEPT ![p] = pending[p]]
        /\ consents' = [consents EXCEPT ![p] = Without(consents[p], l)] /\ full' >= MaxPending
    BY <1>2, <1>11 DEF Consent, past, TypeOK
  <2>2. /\ IsFiniteSet(Without(consents[p], l))
        /\ Cardinality(pending[p]) + Cardinality(Without(consents[p], l)) <= MaxPending
    BY <1>1, <1>9
  <2> QED BY <1>1, <1>3, <2>1, <2>2
<1>12. ASSUME NEW p \in Procs, NEW l \in Logins, Age(p, l) PROVE RoomInv'
  <2>1. /\ pending' = [pending EXCEPT ![p] = Aged(pending[p], l)]
        /\ consents' = [consents EXCEPT ![p] = Aged(consents[p], l)] /\ full' >= MaxPending
    BY <1>2, <1>12 DEF Age, past
  <2>2. /\ IsFiniteSet(Aged(pending[p], l)) /\ IsFiniteSet(Aged(consents[p], l))
        /\ Cardinality(Aged(pending[p], l)) + Cardinality(Aged(consents[p], l)) <= MaxPending
    BY <1>1, <1>9
  <2> QED BY <1>3, <2>1, <2>2
<1>13. ASSUME NEW p \in Procs, Run(p) \/ CutOff(p) PROVE RoomInv'
  BY <1>13, RunKeeps, RoomUnchanged DEF CutOff, past
<1>14. ASSUME NEW h \in Handlers, Exchange(h) \/ Admit(h) \/ IssueCode(h) \/ Fail(h) PROVE RoomInv'
  BY <1>14, RoomUnchanged DEF Exchange, Admit, IssueCode, Fail, past
<1>15. CASE UNCHANGED vars
  BY <1>15, RoomUnchanged DEF vars, past
<1> QED BY <1>4, <1>5, <1>6, <1>7, <1>8, <1>10, <1>11, <1>12, <1>13, <1>14, <1>15
        DEF Next, Run, RefuseAuthorize

-----------------------------------------------------------------------------
(* Types *)

Builds == [pc : {"down", "discover", "read", "insert", "reread", "up", "off"},
           secret : Procs \cup {None}]

(* What the steps of a process leave in proc. *)
LEMMA ProcAfter ==
  ASSUME TypeOK, NEW p \in Procs,
         Run(p) \/ CutOff(p) \/ Crash(p)
  PROVE  /\ proc'[p] \in Builds
         /\ \A q \in Procs : q # p => proc'[q] = proc[q]
         /\ proc' \in [Procs -> Builds]
<1> USE DEF TypeOK, Builds
<1>1. \A v : [proc[p] EXCEPT !.pc = v] = [pc |-> v, secret |-> proc[p].secret]
  OBVIOUS
<1>2. proc' = proc \/ \E b \in Builds : proc' = [proc EXCEPT ![p] = b]
  <2>1. CASE Start(p) \/ BuildFails(p) \/ Crash(p)
    BY <2>1 DEF Start, BuildFails, Crash, Down
  <2>2. CASE ReadSecret(p) \/ RereadSecret(p)
    BY <2>2 DEF ReadSecret, RereadSecret
  <2>3. CASE Discover(p)
    <3>1. proc' = [proc EXCEPT ![p] = [pc |-> "read", secret |-> proc[p].secret]]
      BY <1>1, <2>3 DEF Discover
    <3> QED BY <3>1
  <2>4. CASE InsertSecret(p)
    <3>1. proc' = [proc EXCEPT ![p] = [pc |-> "reread", secret |-> proc[p].secret]]
      BY <1>1, <2>4 DEF InsertSecret
    <3> QED BY <3>1
  <2>5. CASE Stop(p) \/ Drain(p) \/ CloseDatabase(p) \/ CutOff(p)
    BY <2>5 DEF Stop, Drain, CloseDatabase, CutOff
  <2> QED BY <2>1, <2>2, <2>3, <2>4, <2>5 DEF Run
<1> QED BY <1>2

LEMMA HandlersStayTyped ==
  ASSUME TypeOK, NEW h \in Handlers, NEW r \in Requests \cup {Idle},
         handler' = [handler EXCEPT ![h] = r]
  PROVE  handler' \in [Handlers -> Requests \cup {Idle}]
  BY DEF TypeOK

LEMMA ParkedStayTyped ==
  ASSUME TypeOK, NEW p \in Procs, NEW S \in SUBSET Entries
  PROVE  /\ [pending EXCEPT ![p] = S] \in [Procs -> SUBSET Entries]
         /\ [consents EXCEPT ![p] = S] \in [Procs -> SUBSET Entries]
  BY DEF TypeOK

LEMMA TypeStep ==
  ASSUME TypeOK, RoomInv, [Next]_vars PROVE TypeOK'
<1>1. ASSUME NEW p \in Procs, Run(p) PROVE TypeOK'
  <2>1. proc' \in [Procs -> Builds]
    BY <1>1, ProcAfter
  <2>2. secret' \in Procs \cup {None}
    BY <1>1 DEF TypeOK, Run, Start, Discover, BuildFails, ReadSecret, InsertSecret, OnConflict,
                RereadSecret, Stop, Drain, CloseDatabase
  <2>3. main' \in [Procs -> {"down", "serve", "stopping", "draining", "closed"}]
    BY <1>1 DEF TypeOK, Run, Start, Discover, BuildFails, ReadSecret, InsertSecret,
                RereadSecret, Stop, Drain, CloseDatabase
  <2> QED BY <1>1, <2>1, <2>2, <2>3, RunKeeps DEF TypeOK, Builds, past
<1>2. ASSUME NEW p \in Procs, CutOff(p) PROVE TypeOK'
  <2>1. \A h \in Handlers : handler'[h] \in Requests \cup {Idle}
    <3> TAKE h \in Handlers
    <3>1. handler[h].at = p => handler[h].login \in Logins
      BY HandlerTypes DEF Requests
    <3>2. handler[h] \in Requests \cup {Idle}
      BY DEF TypeOK
    <3>3. handler[h].at = p => [pc |-> "cut", login |-> handler[h].login, at |-> p] \in Requests
      BY <3>1 DEF Requests
    <3> QED BY <1>2, <3>2, <3>3, WereCut
  <2>2. handler' \in [Handlers -> Requests \cup {Idle}]
    BY <1>2, <2>1 DEF CutOff
  <2> QED BY <1>2, <2>2 DEF CutOff, TypeOK, past
<1>3. ASSUME NEW p \in Procs, Crash(p) PROVE TypeOK'
  <2>1. proc' \in [Procs -> Builds]
    BY <1>3, ProcAfter
  <2>2. handler' \in [Handlers -> Requests \cup {Idle}]
    BY <1>3 DEF Crash, TypeOK
  <2> QED BY <1>3, <2>1, <2>2 DEF Crash, TypeOK, Builds, past
<1>4. ASSUME NEW p \in Procs, RefuseAuthorize(p) PROVE TypeOK'
  <2>1. Live(pending[p]) \in SUBSET Entries /\ Live(consents[p]) \in SUBSET Entries
    BY DEF Live, TypeOK
  <2>2. full' \in 0 .. MaxPending
    BY <1>4, RefusedForTheLiving DEF RefuseAuthorize
  <2> QED BY <1>4, <2>1, <2>2, ParkedStayTyped DEF RefuseAuthorize, Refuse, TypeOK, served
<1>5. ASSUME NEW h \in Handlers, RefuseConsent(h) PROVE TypeOK'
  <2> DEFINE p == handler[h].at
  <2>1. p \in Procs
    BY <1>5, HandlerTypes DEF RefuseConsent, Requests
  <2>2. Live(pending[p]) \in SUBSET Entries /\ Live(consents[p]) \in SUBSET Entries
    BY <2>1 DEF Live, TypeOK
  <2>3. full' \in 0 .. MaxPending
    BY <1>5, <2>1, RefusedForTheLiving DEF RefuseConsent
  <2>4. /\ pending' \in [Procs -> SUBSET Entries] /\ consents' \in [Procs -> SUBSET Entries]
    BY <1>5, <2>1, <2>2, ParkedStayTyped DEF RefuseConsent, Refuse
  <2>5. handler' \in [Handlers -> Requests \cup {Idle}]
    BY <1>5, HandlersStayTyped DEF RefuseConsent
  <2> QED BY <1>5, <2>3, <2>4, <2>5 DEF RefuseConsent, TypeOK, served
<1>6. ASSUME NEW p \in Procs, NEW l \in Logins, Authorize(p, l) PROVE TypeOK'
  <2>1. Live(pending[p]) \cup {Entry(l)} \in SUBSET Entries /\ Live(consents[p]) \in SUBSET Entries
    BY ParkedTypes DEF TypeOK
  <2>2. pending' \in [Procs -> SUBSET Entries] /\ consents' \in [Procs -> SUBSET Entries]
    BY <1>6, <2>1, ParkedStayTyped DEF Authorize
  <2> QED BY <1>6, <2>2 DEF Authorize, TypeOK, served
<1>7. ASSUME NEW p \in Procs, NEW l \in Logins, Age(p, l) PROVE TypeOK'
  <2>1. Aged(pending[p], l) \in SUBSET Entries /\ Aged(consents[p], l) \in SUBSET Entries
    BY ParkedTypes DEF TypeOK
  <2>2. pending' \in [Procs -> SUBSET Entries] /\ consents' \in [Procs -> SUBSET Entries]
    BY <1>7, <2>1, ParkedStayTyped DEF Age
  <2> QED BY <1>7, <2>2 DEF Age, TypeOK, served, past
<1>8. ASSUME NEW h \in Handlers, NEW p \in Procs, NEW l \in Logins, Callback(h, p, l)
      PROVE  TypeOK'
  <2>1. Without(pending[p], l) \in SUBSET Entries
    BY ParkedTypes DEF TypeOK
  <2>2. pending' \in [Procs -> SUBSET Entries]
    BY <1>8, <2>1, ParkedStayTyped DEF Callback
  <2>3. handler' \in [Handlers -> Requests \cup {Idle}]
    <3>1. [pc |-> "exchange", login |-> l, at |-> p] \in Requests
      BY DEF Requests
    <3> QED BY <1>8, <3>1, HandlersStayTyped DEF Callback
  <2> QED BY <1>8, <2>2, <2>3 DEF Callback, TypeOK, served, past
<1>9. ASSUME NEW h \in Handlers, NEW p \in Procs, NEW l \in Logins, Consent(h, p, l)
      PROVE  TypeOK'
  <2>1. Without(consents[p], l) \in SUBSET Entries
    BY ParkedTypes DEF TypeOK
  <2>2. consents' \in [Procs -> SUBSET Entries]
    BY <1>9, <2>1, ParkedStayTyped DEF Consent
  <2>3. handler' \in [Handlers -> Requests \cup {Idle}]
    <3>1. [pc |-> "issue", login |-> l, at |-> p] \in Requests
      BY DEF Requests
    <3>2. PICK approves \in BOOLEAN :
            handler' = [handler EXCEPT ![h] = IF approves /\ Holds(consents[p], l)
                          THEN [pc |-> "issue", login |-> l, at |-> p] ELSE Idle]
      BY <1>9 DEF Consent
    <3> QED BY <3>1, <3>2, HandlersStayTyped
  <2> QED BY <1>9, <2>2, <2>3 DEF Consent, TypeOK, served, past
<1>10. ASSUME NEW h \in Handlers, ParkConsent(h) PROVE TypeOK'
  <2> DEFINE p == handler[h].at
             l == handler[h].login
  <2>1. p \in Procs /\ l \in Logins
    BY <1>10, HandlerTypes DEF ParkConsent, Requests
  <2>2. Live(pending[p]) \in SUBSET Entries /\ Live(consents[p]) \cup {Entry(l)} \in SUBSET Entries
    <3>1. pending[p] \in SUBSET Entries /\ consents[p] \in SUBSET Entries
      BY <2>1 DEF TypeOK
    <3> QED BY <2>1, <3>1, ParkedTypes
  <2>3. pending' \in [Procs -> SUBSET Entries] /\ consents' \in [Procs -> SUBSET Entries]
    BY <1>10, <2>1, <2>2, ParkedStayTyped DEF ParkConsent
  <2>4. handler' \in [Handlers -> Requests \cup {Idle}]
    BY <1>10, HandlersStayTyped DEF ParkConsent
  <2>5. pages' \in [Logins -> Nat]
    <3>1. pages' = [pages EXCEPT ![l] = pages[l] + 1]
      BY <1>10 DEF ParkConsent
    <3> QED BY <2>1, <3>1 DEF TypeOK
  <2> QED BY <1>10, <2>3, <2>4, <2>5 DEF ParkConsent, TypeOK, served
<1>11. ASSUME NEW h \in Handlers, IssueCode(h) \/ Fail(h) PROVE TypeOK'
  <2>1. handler' \in [Handlers -> Requests \cup {Idle}]
    BY <1>11, HandlersStayTyped DEF IssueCode, Fail
  <2>2. codes' \in [Logins -> Nat]
    BY <1>11 DEF IssueCode, Fail, TypeOK, past
  <2> QED BY <1>11, <2>1, <2>2 DEF IssueCode, Fail, TypeOK, served, past
<1>12. ASSUME NEW h \in Handlers, Exchange(h) \/ Admit(h) PROVE TypeOK'
  <2>1. handler[h] \in Requests
    BY <1>12, HandlerTypes DEF Exchange, Admit
  <2>2. handler' \in [Handlers -> Requests \cup {Idle}]
    BY <1>12, <2>1, Advanced, HandlersStayTyped DEF Requests
  <2> QED BY <1>12, <2>2 DEF Exchange, Admit, TypeOK, served, past
<1>13. CASE UNCHANGED vars
  BY <1>13 DEF vars, served, past, TypeOK
<1> QED BY <1>1, <1>2, <1>3, <1>4, <1>5, <1>6, <1>7, <1>8, <1>9, <1>10, <1>11, <1>12, <1>13
        DEF Next, Run

-----------------------------------------------------------------------------
(* The secret, starting and stopping *)

LEMMA SecretStep ==
  ASSUME TypeOK, SecretInv, [Next]_vars PROVE SecretInv'
<1> USE DEF SecretInv, OneSecret
<1>1. ASSUME NEW p \in Procs, Run(p) \/ CutOff(p) \/ Crash(p) PROVE SecretInv'
  <2>1. \A q \in Procs : q # p => proc'[q] = proc[q]
    BY <1>1, ProcAfter
  <2>2. secret # None => secret' = secret
    BY <1>1 DEF Run, Start, Discover, BuildFails, ReadSecret, InsertSecret, RereadSecret,
                Stop, Drain, CloseDatabase, CutOff, Crash, OnConflict
  <2>3. /\ proc'[p].pc = "reread" => secret' # None
        /\ proc'[p].pc = "up" => secret' # None /\ proc'[p].secret = secret'
    <3>1. CASE InsertSecret(p)
      <4>1. secret' # None /\ proc'[p].pc = "reread"
        BY <3>1 DEF InsertSecret, OnConflict, TypeOK
      <4> QED BY <4>1
    <3>2. CASE ReadSecret(p) \/ RereadSecret(p)
      BY <3>2 DEF ReadSecret, RereadSecret, TypeOK
    <3>3. CASE Start(p) \/ Discover(p) \/ BuildFails(p) \/ Crash(p)
      <4>1. proc'[p].pc \in {"discover", "read", "off", "down"}
        BY <3>3 DEF Start, Discover, BuildFails, Crash, Down, TypeOK
      <4> QED BY <4>1
    <3>4. CASE Stop(p) \/ Drain(p) \/ CloseDatabase(p) \/ CutOff(p)
      <4>1. proc' = proc /\ secret' = secret
        BY <3>4 DEF Stop, Drain, CloseDatabase, CutOff
      <4> QED BY <4>1
    <3> QED BY <1>1, <3>1, <3>2, <3>3, <3>4 DEF Run
  <2> QED BY <2>1, <2>2, <2>3
<1>2. CASE UNCHANGED <<secret, proc>>
  BY <1>2
<1> QED BY <1>1, <1>2
        DEF Next, Run, vars, served, RefuseAuthorize, Authorize, Age, Callback, Consent,
            Exchange, Admit, ParkConsent, RefuseConsent, IssueCode, Fail

(* A process that stopped has nobody at the database. *)
LEMMA ShutdownKept ==
  ASSUME ShutdownInv, UNCHANGED <<proc, main>>,
         \A h \in Handlers, q \in Procs : main[q] = "closed" /\ handler'[h].at = q =>
            handler'[h] = handler[h]
  PROVE  ShutdownInv'
  BY DEF ShutdownInv, DatabaseOutlivesItsUsers, Handling, Building, Built

LEMMA ShutdownRun ==
  ASSUME TypeOK, ShutdownInv, NEW p \in Procs, Run(p) \/ CutOff(p) \/ Crash(p)
  PROVE  ShutdownInv'
<1>1. \A q \in Procs : q # p => proc'[q] = proc[q] /\ main'[q] = main[q]
  <2>1. \A q \in Procs : q # p => main'[q] = main[q]
    BY DEF TypeOK, Run, Start, Discover, BuildFails, ReadSecret, InsertSecret, RereadSecret,
           Stop, Drain, CloseDatabase, CutOff, Crash
  <2> QED BY <2>1, ProcAfter
<1>2. \A h \in Handlers, q \in Procs : q # p /\ handler'[h].at = q => handler'[h] = handler[h]
  <2>1. CASE Run(p)
    BY <2>1, RunKeeps
  <2>2. CASE CutOff(p)
    BY <2>2, WereCut
  <2>3. CASE Crash(p)
    BY <2>3 DEF Crash, Handling, Idle
  <2> QED BY <2>1, <2>2, <2>3
<1>3. /\ main'[p] \in {"draining", "closed"} => Built(p)'
      /\ main'[p] = "closed" => \A h \in Handling(p)' : handler'[h].pc = "cut"
  <2>1. CASE Start(p) \/ Stop(p) \/ Crash(p)
    <3>1. main'[p] \in {"serve", "stopping", "down"}
      BY <2>1 DEF Start, Stop, Crash, TypeOK
    <3> QED BY <3>1
  <2>2. CASE Discover(p) \/ BuildFails(p) \/ ReadSecret(p) \/ InsertSecret(p) \/ RereadSecret(p)
    <3>1. main' = main /\ ~ Built(p)
      BY <2>2 DEF Discover, BuildFails, ReadSecret, InsertSecret, RereadSecret, Built, Building
    <3> QED BY <3>1 DEF ShutdownInv
  <2>3. CASE Drain(p)
    <3>1. main'[p] = "draining" /\ Built(p) /\ proc' = proc
      BY <2>3 DEF Drain, TypeOK
    <3> QED BY <3>1 DEF Built
  <2>4. CASE CloseDatabase(p)
    <3>1. main[p] = "draining" /\ Handling(p) = {} /\ UNCHANGED <<proc, handler>>
      BY <2>4 DEF CloseDatabase
    <3> QED BY <3>1 DEF ShutdownInv, Built, Handling
  <2>5. CASE CutOff(p)
    <3>1. main[p] = "draining" /\ proc' = proc
      BY <2>5 DEF CutOff
    <3>2. \A h \in Handling(p)' : handler'[h].pc = "cut"
      BY <2>5, WereCut DEF Handling
    <3> QED BY <3>1, <3>2 DEF ShutdownInv, Built
  <2> QED BY <2>1, <2>2, <2>3, <2>4, <2>5 DEF Run
<1>4. ASSUME NEW q \in Procs
      PROVE  /\ main'[q] \in {"draining", "closed"} => Built(q)'
             /\ main'[q] = "closed" => \A h \in Handling(q)' : handler'[h].pc = "cut"
  <2>1. CASE q = p
    BY <1>3, <2>1
  <2>2. CASE q # p
    BY <1>1, <1>2, <2>2 DEF ShutdownInv, DatabaseOutlivesItsUsers, Built, Handling
  <2> QED BY <2>1, <2>2
<1> QED BY <1>4 DEF ShutdownInv, DatabaseOutlivesItsUsers, Built, Building

LEMMA ShutdownStep ==
  ASSUME TypeOK, ShutdownInv, [Next]_vars PROVE ShutdownInv'
<1>1. ASSUME NEW h \in Handlers, NEW p \in Procs, NEW l \in Logins,
             Callback(h, p, l) \/ Consent(h, p, l)
      PROVE  ShutdownInv'
  <2>1. UNCHANGED <<proc, main>> /\ main[p] # "closed"
    BY <1>1 DEF Callback, Consent, Serving, served
  <2>2. handler'[h].at \in {p, None} /\ \A g \in Handlers : g # h => handler'[g] = handler[g]
    BY <1>1 DEF Callback, Consent, Idle, TypeOK
  <2> QED BY <2>1, <2>2, ShutdownKept
<1>2. ASSUME NEW h \in Handlers, Exchange(h) \/ Admit(h) PROVE ShutdownInv'
  <2>1. UNCHANGED <<proc, main>> /\ handler[h].pc # "cut"
    BY <1>2 DEF Exchange, Admit, served
  <2>2. handler'[h].at = handler[h].at /\ \A g \in Handlers : g # h => handler'[g] = handler[g]
    BY <1>2, Advanced DEF TypeOK
  <2>3. \A q \in Procs : main[q] = "closed" => handler[h].at # q
    BY <2>1 DEF ShutdownInv, DatabaseOutlivesItsUsers, Handling
  <2> QED BY <2>1, <2>2, <2>3, ShutdownKept
<1>3. ASSUME NEW h \in Handlers, ParkConsent(h) \/ RefuseConsent(h) \/ IssueCode(h) \/ Fail(h)
      PROVE  ShutdownInv'
  <2>1. UNCHANGED <<proc, main>>
    BY <1>3 DEF ParkConsent, RefuseConsent, IssueCode, Fail, served
  <2>2. handler'[h].at = None /\ \A g \in Handlers : g # h => handler'[g] = handler[g]
    BY <1>3 DEF ParkConsent, RefuseConsent, IssueCode, Fail, TypeOK, Idle
  <2> QED BY <2>1, <2>2, ShutdownKept
<1>4. CASE UNCHANGED <<proc, main, handler>>
  BY <1>4, ShutdownKept
<1> QED BY <1>1, <1>2, <1>3, <1>4, ShutdownRun
        DEF Next, Run, vars, served, RefuseAuthorize, Authorize, Age

-----------------------------------------------------------------------------
(* Each login is used once *)

LEMMA InParked ==
  /\ \A S, m : In(Live(S), m) => In(S, m)
  /\ \A S, l, m : In(Live(S) \cup {Entry(l)}, m) => m = l \/ In(S, m)
  /\ \A S, l : Holds(S, l) => In(S, l)
  BY DEF In, Live, Entry, Holds

LEMMA InWithout ==
  /\ \A S, l : ~ In(Without(S, l), l)
  /\ \A S, l, m : In(Without(S, l), m) => In(S, m)
  BY DEF In, Without

LEMMA InAged == \A S, l, m : In(Aged(S, l), m) => In(S, m)
  BY DEF In, Aged

LEMMA WithHandler ==
  ASSUME NEW h \in Handlers, NEW l
  PROVE  /\ h \in SigningIn(l) <=> handler[h].login = l /\ handler[h].pc \in {"exchange", "admit", "park"}
         /\ h \in Approving(l) <=> handler[h].login = l /\ handler[h].pc = "issue"
         /\ h \in SigningIn(l)' <=> handler'[h].login = l /\ handler'[h].pc \in {"exchange", "admit", "park"}
         /\ h \in Approving(l)' <=> handler'[h].login = l /\ handler'[h].pc = "issue"
  BY DEF SigningIn, Approving

(* A step that parks nothing and takes nothing off to use it. *)
LEMMA OnceShrinks ==
  ASSUME OnceInv, UNCHANGED <<asked, codes, pages>>,
         \A l \in Logins, p \in Procs : /\ In(pending'[p], l) => In(pending[p], l)
                                        /\ In(consents'[p], l) => In(consents[p], l),
         \A l \in Logins : SigningIn(l)' \subseteq SigningIn(l) /\ Approving(l)' \subseteq Approving(l)
  PROVE  OnceInv'
<1>1. \A l \in Logins : /\ AwaitsPage(l)' <=> AwaitsPage(l)
                        /\ AwaitsCode(l)' <=> AwaitsCode(l)
  BY DEF AwaitsPage, AwaitsCode
<1>2. EachUsedOnce' /\ \A l \in Logins : pages'[l] > 0 => l \in asked'
  BY DEF OnceInv, EachUsedOnce
<1>3. ASSUME NEW l \in Logins, NEW p \in Procs, In(pending'[p], l)
      PROVE  AwaitsPage(l)' /\ SigningIn(l)' = {} /\ \A q \in Procs : In(pending'[q], l) => q = p
  BY <1>1, <1>3 DEF OnceInv
<1>4. ASSUME NEW l \in Logins, NEW h \in SigningIn(l)' PROVE AwaitsPage(l)' /\ SigningIn(l)' = {h}
  BY <1>1, <1>4 DEF OnceInv
<1>5. ASSUME NEW l \in Logins, NEW p \in Procs, In(consents'[p], l)
      PROVE  AwaitsCode(l)' /\ Approving(l)' = {} /\ \A q \in Procs : In(consents'[q], l) => q = p
  BY <1>1, <1>5 DEF OnceInv
<1>6. ASSUME NEW l \in Logins, NEW h \in Approving(l)' PROVE AwaitsCode(l)' /\ Approving(l)' = {h}
  BY <1>1, <1>6 DEF OnceInv
<1>7. \A l \in Logins, p \in Procs : /\ In(pending[p], l)' <=> In(pending'[p], l)
                                     /\ In(consents[p], l)' <=> In(consents'[p], l)
  BY DEF In
<1> QED BY <1>2, <1>3, <1>4, <1>5, <1>6, <1>7 DEF OnceInv

LEMMA OnceAuthorize ==
  ASSUME TypeOK, OnceInv, NEW p \in Procs, NEW l \in Logins, Authorize(p, l)
  PROVE  OnceInv'
<1>1. /\ l \notin asked /\ asked' = asked \cup {l} /\ UNCHANGED <<codes, pages, handler>>
      /\ \A q \in Procs : q # p => pending'[q] = pending[q] /\ consents'[q] = consents[q]
      /\ pending'[p] = Live(pending[p]) \cup {Entry(l)} /\ consents'[p] = Live(consents[p])
  BY DEF Authorize, TypeOK
<1>2. pages[l] = 0
  BY <1>1 DEF OnceInv, TypeOK
<1>3. \A q \in Procs : ~ In(pending[q], l)
  BY <1>1 DEF OnceInv, AwaitsPage
<1>4. SigningIn(l) = {}
  BY <1>1 DEF OnceInv, AwaitsPage
<1>5. \A m \in Logins, q \in Procs : In(pending'[q], m) => In(pending[q], m) \/ (m = l /\ q = p)
  BY <1>1, InParked
<1>6. \A m \in Logins, q \in Procs : In(consents'[q], m) => In(consents[q], m)
  BY <1>1, InParked
<1>7. \A m : SigningIn(m)' = SigningIn(m) /\ Approving(m)' = Approving(m)
  BY <1>1 DEF SigningIn, Approving
<1>8. \A m \in Logins : /\ AwaitsPage(m) => AwaitsPage(m)'
                        /\ AwaitsCode(m)' <=> AwaitsCode(m)
  BY <1>1 DEF AwaitsPage, AwaitsCode
<1>9. AwaitsPage(l)'
  BY <1>1, <1>2 DEF AwaitsPage
<1>10. EachUsedOnce' /\ \A m \in Logins : pages'[m] > 0 => m \in asked'
  BY <1>1 DEF OnceInv, EachUsedOnce
<1>11. \A m \in Logins, q \in Procs : /\ In(pending[q], m)' <=> In(pending'[q], m)
                                      /\ In(consents[q], m)' <=> In(consents'[q], m)
  BY DEF In
<1>12. ASSUME NEW m \in Logins, NEW q \in Procs, In(pending'[q], m)
       PROVE  /\ AwaitsPage(m)' /\ SigningIn(m)' = {}
              /\ \A r \in Procs : In(pending'[r], m) => r = q
  BY <1>3, <1>4, <1>5, <1>7, <1>8, <1>9, <1>12 DEF OnceInv
<1> QED BY <1>6, <1>7, <1>8, <1>10, <1>11, <1>12 DEF OnceInv

(* The callback that finds the request takes it off for all others. *)
LEMMA OnceCallback ==
  ASSUME TypeOK, OnceInv, NEW h \in Handlers, NEW p \in Procs, NEW l \in Logins,
         Callback(h, p, l)
  PROVE  OnceInv'
<1>1. /\ handler[h].pc = "idle" /\ UNCHANGED <<asked, codes, pages, consents>>
      /\ \A q \in Procs : q # p => pending'[q] = pending[q]
      /\ pending'[p] = Without(pending[p], l)
      /\ \A g \in Handlers : g # h => handler'[g] = handler[g]
      /\ handler'[h] = IF Holds(pending[p], l)
                       THEN [pc |-> "exchange", login |-> l, at |-> p] ELSE Idle
  BY DEF Callback, TypeOK, past
<1>2. \A m \in Logins, q \in Procs : In(pending'[q], m) => In(pending[q], m)
  BY <1>1, InWithout
<1>3. \A m \in Logins : Approving(m)' \subseteq Approving(m)
  BY <1>1 DEF Approving, Idle
<1>4. CASE ~ Holds(pending[p], l)
  <2>1. \A m \in Logins : SigningIn(m)' \subseteq SigningIn(m)
    BY <1>1, <1>4 DEF SigningIn, Idle
  <2> QED BY <1>1, <1>2, <1>3, <2>1, OnceShrinks
<1>5. CASE Holds(pending[p], l)
  <2>1. AwaitsPage(l) /\ SigningIn(l) = {} /\ \A q \in Procs : In(pending[q], l) => q = p
    BY <1>5, InParked DEF OnceInv
  <2>2. \A q \in Procs : ~ In(pending'[q], l)
    BY <1>1, <1>2, <2>1, InWithout
  <2>3. SigningIn(l)' = {h}
    BY <1>1, <1>5, <2>1 DEF SigningIn
  <2>4. \A m \in Logins : m # l => SigningIn(m)' \subseteq SigningIn(m)
    BY <1>1, <1>5 DEF SigningIn
  <2>5. \A m \in Logins : /\ AwaitsPage(m)' <=> AwaitsPage(m)
                          /\ AwaitsCode(m)' <=> AwaitsCode(m)
    BY <1>1 DEF AwaitsPage, AwaitsCode
  <2>6. EachUsedOnce' /\ \A m \in Logins : pages'[m] > 0 => m \in asked'
    BY <1>1 DEF OnceInv, EachUsedOnce
  <2>7. \A m \in Logins, q \in Procs : /\ In(pending[q], m)' <=> In(pending'[q], m)
                                       /\ In(consents[q], m)' <=> In(consents[q], m)
    BY <1>1 DEF In
  <2>8. ASSUME NEW m \in Logins, NEW q \in Procs, In(pending'[q], m)
        PROVE  /\ AwaitsPage(m)' /\ SigningIn(m)' = {}
               /\ \A r \in Procs : In(pending'[r], m) => r = q
    BY <1>2, <2>2, <2>4, <2>5, <2>8 DEF OnceInv
  <2>9. ASSUME NEW m \in Logins, NEW g \in SigningIn(m)'
        PROVE  AwaitsPage(m)' /\ SigningIn(m)' = {g}
    BY <2>1, <2>3, <2>4, <2>5, <2>9 DEF OnceInv
  <2>10. ASSUME NEW m \in Logins, NEW q \in Procs, In(consents[q], m)
         PROVE  /\ AwaitsCode(m)' /\ Approving(m)' = {}
                /\ \A r \in Procs : In(consents[r], m) => r = q
    BY <1>3, <2>5, <2>10 DEF OnceInv
  <2>11. ASSUME NEW m \in Logins, NEW g \in Approving(m)'
         PROVE  AwaitsCode(m)' /\ Approving(m)' = {g}
    BY <1>3, <2>5, <2>11 DEF OnceInv
  <2> QED BY <2>6, <2>7, <2>8, <2>9, <2>10, <2>11 DEF OnceInv
<1> QED BY <1>4, <1>5

(* The handler that shows the page is the one that took the request off.   *)
LEMMA OnceParkConsent ==
  ASSUME TypeOK, OnceInv, NEW h \in Handlers, ParkConsent(h)
  PROVE  OnceInv'
<1>1. handler[h].at \in Procs /\ handler[h].login \in Logins /\ handler[h].pc = "park"
  BY HandlerTypes DEF ParkConsent, Requests
<1>2. PICK p \in Procs, l \in Logins : handler[h].at = p /\ handler[h].login = l
  BY <1>1
<1>3. h \in SigningIn(l)
  BY <1>1, <1>2 DEF SigningIn
<1>4. /\ UNCHANGED <<asked, codes>>
      /\ \A q \in Procs : q # p => pending'[q] = pending[q] /\ consents'[q] = consents[q]
      /\ pending'[p] = Live(pending[p]) /\ consents'[p] = Live(consents[p]) \cup {Entry(l)}
      /\ \A m \in Logins : pages'[m] = IF m = l THEN pages[m] + 1 ELSE pages[m]
      /\ \A g \in Handlers : handler'[g] = IF g = h THEN Idle ELSE handler[g]
  BY <1>2 DEF ParkConsent, TypeOK
<1>5. AwaitsPage(l) /\ SigningIn(l) = {h}
  BY <1>3 DEF OnceInv
<1>6. /\ l \in asked /\ pages[l] = 0 /\ codes[l] = 0 /\ pages'[l] = 1 /\ codes'[l] = 0
  BY <1>3, <1>4, <1>5 DEF AwaitsPage, OnceInv, EachUsedOnce, TypeOK
<1>7. /\ \A q \in Procs : ~ In(pending[q], l) /\ ~ In(consents[q], l)
      /\ Approving(l) = {}
  BY <1>3, <1>5, <1>6 DEF OnceInv, AwaitsCode
<1>8. \A m \in Logins, q \in Procs : In(pending'[q], m) => In(pending[q], m)
  BY <1>4, InParked
<1>9. \A m \in Logins, q \in Procs : In(consents'[q], m) => In(consents[q], m) \/ (m = l /\ q = p)
  BY <1>4, InParked
<1>10. \A m \in Logins : /\ SigningIn(m)' \subseteq SigningIn(m)
                         /\ Approving(m)' \subseteq Approving(m)
  BY <1>4 DEF SigningIn, Approving, Idle
<1>11. SigningIn(l)' = {}
  BY <1>4, <1>5, <1>10, WithHandler DEF Idle
<1>12. \A m \in Logins : m # l => /\ AwaitsPage(m)' <=> AwaitsPage(m)
                                  /\ AwaitsCode(m)' <=> AwaitsCode(m)
  BY <1>4 DEF AwaitsPage, AwaitsCode
<1>13. AwaitsCode(l)'
  BY <1>6 DEF AwaitsCode
<1>14. EachUsedOnce' /\ \A m \in Logins : pages'[m] > 0 => m \in asked'
  BY <1>4, <1>6 DEF OnceInv, EachUsedOnce
<1>15. \A m \in Logins, q \in Procs : /\ In(pending[q], m)' <=> In(pending'[q], m)
                                      /\ In(consents[q], m)' <=> In(consents'[q], m)
  BY DEF In
<1>16. ASSUME NEW m \in Logins, NEW q \in Procs, In(pending'[q], m)
       PROVE  /\ AwaitsPage(m)' /\ SigningIn(m)' = {}
              /\ \A r \in Procs : In(pending'[r], m) => r = q
  <2>1. In(pending[q], m) /\ m # l
    BY <1>7, <1>8, <1>16
  <2>2. AwaitsPage(m) /\ SigningIn(m) = {} /\ \A r \in Procs : In(pending[r], m) => r = q
    BY <2>1 DEF OnceInv
  <2> QED BY <1>8, <1>10, <1>12, <2>1, <2>2
<1>17. ASSUME NEW m \in Logins, NEW g \in SigningIn(m)'
       PROVE  AwaitsPage(m)' /\ SigningIn(m)' = {g}
  <2>1. g \in SigningIn(m) /\ m # l
    BY <1>10, <1>11, <1>17
  <2>2. AwaitsPage(m) /\ SigningIn(m) = {g}
    BY <2>1 DEF OnceInv
  <2> QED BY <1>10, <1>12, <1>17, <2>1, <2>2
<1>18. ASSUME NEW m \in Logins, NEW q \in Procs, In(consents'[q], m)
       PROVE  /\ AwaitsCode(m)' /\ Approving(m)' = {}
              /\ \A r \in Procs : In(consents'[r], m) => r = q
  <2>1. CASE m = l
    <3>1. Approving(l)' = {}
      BY <1>7, <1>10
    <3> QED BY <1>7, <1>9, <1>13, <1>18, <2>1, <3>1
  <2>2. CASE m # l
    <3>1. In(consents[q], m)
      BY <1>9, <1>18, <2>2
    <3>2. AwaitsCode(m) /\ Approving(m) = {} /\ \A r \in Procs : In(consents[r], m) => r = q
      BY <3>1 DEF OnceInv
    <3> QED BY <1>9, <1>10, <1>12, <2>2, <3>2
  <2> QED BY <2>1, <2>2
<1>19. ASSUME NEW m \in Logins, NEW g \in Approving(m)'
       PROVE  AwaitsCode(m)' /\ Approving(m)' = {g}
  <2>1. g \in Approving(m) /\ m # l
    BY <1>7, <1>10, <1>19
  <2>2. AwaitsCode(m) /\ Approving(m) = {g}
    BY <2>1 DEF OnceInv
  <2> QED BY <1>10, <1>12, <1>19, <2>1, <2>2
<1> QED BY <1>14, <1>15, <1>16, <1>17, <1>18, <1>19 DEF OnceInv

(* The answer that finds the consent takes it off for all others. *)
LEMMA OnceConsent ==
  ASSUME TypeOK, OnceInv, NEW h \in Handlers, NEW p \in Procs, NEW l \in Logins,
         Consent(h, p, l)
  PROVE  OnceInv'
<1>1. /\ handler[h].pc = "idle" /\ UNCHANGED <<asked, codes, pages, pending>>
      /\ \A q \in Procs : q # p => consents'[q] = consents[q]
      /\ consents'[p] = Without(consents[p], l)
      /\ \A g \in Handlers : g # h => handler'[g] = handler[g]
      /\ \/ handler'[h] = Idle
         \/ Holds(consents[p], l) /\ handler'[h] = [pc |-> "issue", login |-> l, at |-> p]
  BY DEF Consent, TypeOK, past
<1>2. \A m \in Logins, q \in Procs : In(consents'[q], m) => In(consents[q], m)
  BY <1>1, InWithout
<1>3. \A m \in Logins : SigningIn(m)' \subseteq SigningIn(m)
  BY <1>1 DEF SigningIn, Idle
<1>4. CASE handler'[h] = Idle
  <2>1. \A m \in Logins : Approving(m)' \subseteq Approving(m)
    BY <1>1, <1>4 DEF Approving, Idle
  <2> QED BY <1>1, <1>2, <1>3, <2>1, OnceShrinks
<1>5. CASE Holds(consents[p], l) /\ handler'[h] = [pc |-> "issue", login |-> l, at |-> p]
  <2>1. AwaitsCode(l) /\ Approving(l) = {} /\ \A q \in Procs : In(consents[q], l) => q = p
    BY <1>5, InParked DEF OnceInv
  <2>2. \A q \in Procs : ~ In(consents'[q], l)
    BY <1>1, <1>2, <2>1, InWithout
  <2>3. Approving(l)' = {h}
    BY <1>1, <1>5, <2>1 DEF Approving
  <2>4. \A m \in Logins : m # l => Approving(m)' \subseteq Approving(m)
    BY <1>1, <1>5 DEF Approving
  <2>5. \A m \in Logins : /\ AwaitsPage(m)' <=> AwaitsPage(m)
                          /\ AwaitsCode(m)' <=> AwaitsCode(m)
    BY <1>1 DEF AwaitsPage, AwaitsCode
  <2>6. EachUsedOnce' /\ \A m \in Logins : pages'[m] > 0 => m \in asked'
    BY <1>1 DEF OnceInv, EachUsedOnce
  <2>7. \A m \in Logins, q \in Procs : /\ In(consents[q], m)' <=> In(consents'[q], m)
                                       /\ In(pending[q], m)' <=> In(pending[q], m)
    BY <1>1 DEF In
  <2>8. ASSUME NEW m \in Logins, NEW q \in Procs, In(consents'[q], m)
        PROVE  /\ AwaitsCode(m)' /\ Approving(m)' = {}
               /\ \A r \in Procs : In(consents'[r], m) => r = q
    BY <1>2, <2>2, <2>4, <2>5, <2>8 DEF OnceInv
  <2>9. ASSUME NEW m \in Logins, NEW g \in Approving(m)'
        PROVE  AwaitsCode(m)' /\ Approving(m)' = {g}
    BY <2>1, <2>3, <2>4, <2>5, <2>9 DEF OnceInv
  <2>10. ASSUME NEW m \in Logins, NEW q \in Procs, In(pending[q], m)
         PROVE  /\ AwaitsPage(m)' /\ SigningIn(m)' = {}
                /\ \A r \in Procs : In(pending[r], m) => r = q
    BY <1>3, <2>5, <2>10 DEF OnceInv
  <2>11. ASSUME NEW m \in Logins, NEW g \in SigningIn(m)'
         PROVE  AwaitsPage(m)' /\ SigningIn(m)' = {g}
    BY <1>3, <2>5, <2>11 DEF OnceInv
  <2> QED BY <2>6, <2>7, <2>8, <2>9, <2>10, <2>11 DEF OnceInv
<1> QED BY <1>1, <1>4, <1>5

(* The handler that issues the code is the one that took the consent off.  *)
LEMMA OnceIssueCode ==
  ASSUME TypeOK, OnceInv, NEW h \in Handlers, IssueCode(h)
  PROVE  OnceInv'
<1>1. handler[h].login \in Logins /\ handler[h].pc = "issue"
  BY HandlerTypes DEF IssueCode, Requests
<1>2. PICK l \in Logins : handler[h].login = l
  BY <1>1
<1>3. /\ UNCHANGED <<asked, pages, pending, consents>>
      /\ \A m \in Logins : codes'[m] = IF m = l THEN codes[m] + 1 ELSE codes[m]
      /\ \A g \in Handlers : handler'[g] = IF g = h THEN Idle ELSE handler[g]
  BY <1>2 DEF IssueCode, TypeOK
<1>4. h \in Approving(l)
  BY <1>1, <1>2 DEF Approving
<1>5. AwaitsCode(l) /\ Approving(l) = {h}
  BY <1>4 DEF OnceInv
<1>6. \A q \in Procs : ~ In(consents[q], l)
  BY <1>4 DEF OnceInv
<1>7. codes'[l] <= pages'[l]
  BY <1>3, <1>5 DEF AwaitsCode, TypeOK
<1>8. \A m \in Logins : /\ SigningIn(m)' \subseteq SigningIn(m)
                        /\ Approving(m)' \subseteq Approving(m)
  BY <1>3 DEF SigningIn, Approving, Idle
<1>9. Approving(l)' = {}
  BY <1>3, <1>5, <1>8, WithHandler DEF Idle
<1>10. \A m \in Logins : /\ AwaitsPage(m)' <=> AwaitsPage(m)
                         /\ m # l => (AwaitsCode(m)' <=> AwaitsCode(m))
  BY <1>3 DEF AwaitsPage, AwaitsCode
<1>11. EachUsedOnce' /\ \A m \in Logins : pages'[m] > 0 => m \in asked'
  BY <1>3, <1>7 DEF OnceInv, EachUsedOnce
<1>12. \A m \in Logins, q \in Procs : /\ In(pending[q], m)' <=> In(pending[q], m)
                                      /\ In(consents[q], m)' <=> In(consents[q], m)
  BY <1>3 DEF In
<1>13. ASSUME NEW m \in Logins, NEW q \in Procs, In(pending[q], m)
       PROVE  /\ AwaitsPage(m)' /\ SigningIn(m)' = {}
              /\ \A r \in Procs : In(pending[r], m) => r = q
  BY <1>8, <1>10, <1>13 DEF OnceInv
<1>14. ASSUME NEW m \in Logins, NEW g \in SigningIn(m)'
       PROVE  AwaitsPage(m)' /\ SigningIn(m)' = {g}
  BY <1>8, <1>10, <1>14 DEF OnceInv
<1>15. ASSUME NEW m \in Logins, NEW q \in Procs, In(consents[q], m)
       PROVE  /\ AwaitsCode(m)' /\ Approving(m)' = {}
              /\ \A r \in Procs : In(consents[r], m) => r = q
  BY <1>6, <1>8, <1>10, <1>15 DEF OnceInv
<1>16. ASSUME NEW m \in Logins, NEW g \in Approving(m)'
       PROVE  AwaitsCode(m)' /\ Approving(m)' = {g}
  BY <1>8, <1>9, <1>10, <1>16 DEF OnceInv
<1> QED BY <1>11, <1>12, <1>13, <1>14, <1>15, <1>16 DEF OnceInv

LEMMA OnceStep ==
  ASSUME TypeOK, OnceInv, [Next]_vars PROVE OnceInv'
<1>1. ASSUME NEW p \in Procs, Run(p) PROVE OnceInv'
  <2>1. UNCHANGED <<pending, consents, handler, asked, codes, pages>>
    BY <1>1, RunKeeps DEF past
  <2> QED BY <2>1, OnceShrinks DEF SigningIn, Approving
<1>2. ASSUME NEW p \in Procs, CutOff(p) PROVE OnceInv'
  <2>1. UNCHANGED <<pending, consents, asked, codes, pages>>
    BY <1>2 DEF CutOff, past
  <2>2. \A m \in Logins : SigningIn(m)' \subseteq SigningIn(m) /\ Approving(m)' \subseteq Approving(m)
    <3>1. \A h \in Handlers : handler'[h] = handler[h] \/ handler'[h].pc = "cut"
      BY <1>2, WereCut
    <3> QED BY <3>1 DEF SigningIn, Approving
  <2> QED BY <2>1, <2>2, OnceShrinks
<1>3. ASSUME NEW p \in Procs, Crash(p) PROVE OnceInv'
  <2>1. /\ UNCHANGED <<asked, codes, pages>>
        /\ \A q \in Procs : /\ pending'[q] = IF q = p THEN {} ELSE pending[q]
                            /\ consents'[q] = IF q = p THEN {} ELSE consents[q]
        /\ \A h \in Handlers : handler'[h] \in {Idle, handler[h]}
    BY <1>3 DEF Crash, past, TypeOK
  <2>2. \A m \in Logins, q \in Procs : /\ In(pending'[q], m) => In(pending[q], m)
                                       /\ In(consents'[q], m) => In(consents[q], m)
    BY <2>1 DEF In
  <2>3. \A m \in Logins : SigningIn(m)' \subseteq SigningIn(m) /\ Approving(m)' \subseteq Approving(m)
    BY <2>1 DEF SigningIn, Approving, Idle
  <2> QED BY <2>1, <2>2, <2>3, OnceShrinks
<1>4. ASSUME NEW p \in Procs, Refuse(p), UNCHANGED <<asked, codes, pages>>,
             \A h \in Handlers : handler'[h] \in {Idle, handler[h]}
      PROVE  OnceInv'
  <2>1. \A q \in Procs : /\ pending'[q] = IF q = p THEN Live(pending[q]) ELSE pending[q]
                         /\ consents'[q] = IF q = p THEN Live(consents[q]) ELSE consents[q]
    BY <1>4 DEF Refuse, TypeOK
  <2>2. \A m \in Logins, q \in Procs : /\ In(pending'[q], m) => In(pending[q], m)
                                       /\ In(consents'[q], m) => In(consents[q], m)
    BY <2>1, InParked
  <2>3. \A m \in Logins : SigningIn(m)' \subseteq SigningIn(m) /\ Approving(m)' \subseteq Approving(m)
    BY <1>4 DEF SigningIn, Approving, Idle
  <2> QED BY <1>4, <2>2, <2>3, OnceShrinks
<1>5. ASSUME NEW p \in Procs, RefuseAuthorize(p) PROVE OnceInv'
  BY <1>4, <1>5 DEF RefuseAuthorize
<1>6. ASSUME NEW h \in Handlers, RefuseConsent(h) PROVE OnceInv'
  <2>1. handler[h].at \in Procs
    BY <1>6, HandlerTypes DEF RefuseConsent, Requests
  <2>2. \A g \in Handlers : handler'[g] \in {Idle, handler[g]}
    BY <1>6 DEF RefuseConsent, TypeOK
  <2> QED BY <1>4, <1>6, <2>1, <2>2 DEF RefuseConsent
<1>7. ASSUME NEW h \in Handlers, Exchange(h) \/ Admit(h) \/ Fail(h) PROVE OnceInv'
  <2>1. UNCHANGED <<pending, consents, asked, codes, pages>>
    BY <1>7 DEF Exchange, Admit, Fail, past
  <2>2. \A g \in Handlers : g # h => handler'[g] = handler[g]
    BY <1>7 DEF Exchange, Admit, Fail, TypeOK
  <2>3. \/ handler'[h] = Idle
        \/ /\ handler'[h].pc \in {"admit", "park"} /\ handler'[h].login = handler[h].login
           /\ handler[h].pc \in {"exchange", "admit"}
    <3>1. CASE Fail(h)
      BY <3>1 DEF Fail, TypeOK
    <3>2. CASE Exchange(h) \/ Admit(h)
      BY <3>2, Advanced DEF Exchange, Admit, TypeOK
    <3> QED BY <1>7, <3>1, <3>2
  <2>4. \A m \in Logins : SigningIn(m)' \subseteq SigningIn(m) /\ Approving(m)' \subseteq Approving(m)
    BY <2>2, <2>3 DEF SigningIn, Approving, Idle
  <2> QED BY <2>1, <2>4, OnceShrinks
<1>8. ASSUME NEW p \in Procs, NEW l \in Logins, Age(p, l) PROVE OnceInv'
  <2>1. /\ UNCHANGED <<handler, asked, codes, pages>>
        /\ \A q \in Procs : /\ pending'[q] = IF q = p THEN Aged(pending[q], l) ELSE pending[q]
                            /\ consents'[q] = IF q = p THEN Aged(consents[q], l) ELSE consents[q]
    BY <1>8 DEF Age, past, TypeOK
  <2>2. \A m \in Logins, q \in Procs : /\ In(pending'[q], m) => In(pending[q], m)
                                       /\ In(consents'[q], m) => In(consents[q], m)
    BY <2>1, InAged
  <2> QED BY <2>1, <2>2, OnceShrinks DEF SigningIn, Approving
<1>9. CASE UNCHANGED vars
  BY <1>9, OnceShrinks DEF vars, past, SigningIn, Approving
<1> QED BY <1>1, <1>2, <1>3, <1>5, <1>6, <1>7, <1>8, <1>9, OnceAuthorize, OnceCallback,
           OnceParkConsent, OnceConsent, OnceIssueCode
        DEF Next, Run

-----------------------------------------------------------------------------
(* The theorems *)

LEMMA SignInInit == Init => TypeOK /\ SignInInv
<1> SUFFICES ASSUME Init PROVE TypeOK /\ SignInInv
  OBVIOUS
<1> USE DEF Init
<1>1. TypeOK
  BY DEF TypeOK, Down, Entries
<1>2. SecretInv
  BY DEF SecretInv, OneSecret, Down
<1>3. ShutdownInv
  BY DEF ShutdownInv, DatabaseOutlivesItsUsers
<1>4. RoomInv
  BY FS_EmptySet DEF RoomInv, CapIsForTheLiving
<1>5. OnceInv
  <2>1. \A l : SigningIn(l) = {} /\ Approving(l) = {}
    BY DEF SigningIn, Approving, Idle
  <2> QED BY <2>1 DEF OnceInv, EachUsedOnce, In
<1> QED BY <1>1, <1>2, <1>3, <1>4, <1>5 DEF SignInInv

(* TypeOK is an invariant, and with it the invariant behind the theorems   *)
(* that follow: a login is at one place, the secret is never replaced, and *)
(* nobody is at a closed database.                                         *)
THEOREM SignInInvariant == Spec => [](TypeOK /\ SignInInv)
<1>1. TypeOK /\ SignInInv /\ [Next]_vars => (TypeOK /\ SignInInv)'
  BY TypeStep, SecretStep, ShutdownStep, RoomStep, OnceStep DEF SignInInv
<1> QED BY <1>1, SignInInit, PTL DEF Spec

(* Callbacks and consent forms may race and repeat: a login is shown one   *)
(* page and gets one code.                                                 *)
THEOREM UsedOnce == Spec => []EachUsedOnce
<1>1. SignInInv => EachUsedOnce
  BY DEF SignInInv, OnceInv
<1> QED BY <1>1, SignInInvariant, PTL

(* The cap holds at every process, and refuses only for the living.        *)
THEOREM CapHolds == Spec => []CapIsForTheLiving
<1>1. SignInInv => CapIsForTheLiving
  BY DEF SignInInv, RoomInv
<1> QED BY <1>1, SignInInvariant, PTL

(* All processes that serve sign with the stored secret, whoever made it.  *)
THEOREM SecretIsShared == Spec => []OneSecret
<1>1. SignInInv => OneSecret
  BY DEF SignInInv, SecretInv
<1> QED BY <1>1, SignInInvariant, PTL

(* No handler and no buildMCP is left at a database serve has closed.      *)
THEOREM DatabaseClosesLast == Spec => []DatabaseOutlivesItsUsers
<1>1. SignInInv => DatabaseOutlivesItsUsers
  BY DEF SignInInv, ShutdownInv
<1> QED BY <1>1, SignInInvariant, PTL
=============================================================================
