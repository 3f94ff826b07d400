---------------------------- MODULE GrantsProofs ----------------------------
(* What Grants guarantees for any number of requests, grants, clients and   *)
(* users, and for any cap on the clients.                                   *)
EXTENDS Grants, FiniteSetTheorems, TLAPS

(* A revoke counter and the two that make a generation are in range.        *)
LEMMA GenerationType ==
    ASSUME TypeOK, NEW g \in Grants
    PROVE  /\ generation[UserOf[g]] \in 0 .. MaxRevokes
           /\ generation[AllUsers] \in 0 .. MaxRevokes
           /\ CurrentGeneration(UserOf[g]) \in Generations
BY GrantsAssumption DEF TypeOK, CurrentGeneration, Generations

(* TypeOK, with the foreign key of every row: no step of the storage leaves *)
(* a row whose client is gone.                                              *)
LEMMA TypeInit == Init => TypeOK
BY GrantsAssumption DEF Init, TypeOK, Idle, Generations, Pairs, RequestState

(* What a request's end or next step leaves of it.                          *)
LEMMA EndType ==
    ASSUME TypeOK, NEW r \in Requests, End(r)
    PROVE  /\ req' \in [Requests -> RequestState]
           /\ \A q \in Requests : req'[q].pc # "idle" => req'[q].grant \in Grants
<1>1. Idle \in RequestState
  BY GrantsAssumption DEF Idle, RequestState, Generations
<1> QED BY <1>1 DEF TypeOK, End, Idle

LEMMA GoType ==
    ASSUME TypeOK, NEW r \in Requests, NEW pc, Go(r, pc), req[r].pc # "idle",
           pc \in {"deletePKCE", "check", "redeem", "replayRefresh", "revokeAccess"}
    PROVE  /\ req' \in [Requests -> RequestState]
           /\ \A q \in Requests : req'[q].pc # "idle" => req'[q].grant \in Grants
<1>1. [req[r] EXCEPT !.pc = pc] \in RequestState /\ [req[r] EXCEPT !.pc = pc].grant = req[r].grant
  BY DEF TypeOK, RequestState
<1>2. req' = [req EXCEPT ![r] = [req[r] EXCEPT !.pc = pc]]
  BY DEF Go
<1> QED BY <1>1, <1>2 DEF TypeOK

(* Retiring refresh tokens changes nothing else of their rows.              *)
LEMMA RetiredRows ==
    ASSUME TypeOK, NEW g \in Grants
    PROVE  /\ \A row \in Retired(g) :
                /\ row \in RefreshRow
                /\ \E t \in refresh : /\ row.grant = t.grant /\ row.n = t.n /\ row.gen = t.gen
                                    /\ row.expired = t.expired
           /\ \A row \in Retired(g) : row.active => row \in refresh /\ row.grant # g
<1> SUFFICES ASSUME NEW row \in Retired(g)
             PROVE  /\ row \in RefreshRow
                    /\ \E t \in refresh : /\ row.grant = t.grant /\ row.n = t.n
                                        /\ row.gen = t.gen /\ row.expired = t.expired
                    /\ row.active => row \in refresh /\ row.grant # g
  OBVIOUS
<1>1. PICK t \in refresh : row = IF t.grant = g THEN [t EXCEPT !.active = FALSE] ELSE t
  BY DEF Retired
<1>2. t \in RefreshRow
  BY DEF TypeOK
<1>3. CASE t.grant = g
  BY <1>1, <1>2, <1>3 DEF RefreshRow
<1>4. CASE t.grant # g
  BY <1>1, <1>2, <1>4 DEF RefreshRow
<1> QED BY <1>3, <1>4

(* Using a code changes nothing else of its row.                            *)
LEMMA UsedRows ==
    ASSUME TypeOK, NEW g \in Grants
    PROVE  \A row \in Used(g) :
             /\ row \in CodeRow
             /\ \E c \in codes : row.grant = c.grant /\ row.gen = c.gen
             /\ row.grant = g => ~ row.active
             /\ row.grant # g => row \in codes
<1> TAKE row \in Used(g)
<1>1. PICK c \in codes : row = IF c.grant = g THEN [c EXCEPT !.active = FALSE] ELSE c
  BY DEF Used
<1>2. c \in CodeRow
  BY DEF TypeOK
<1>3. CASE c.grant = g
  BY <1>1, <1>2, <1>3 DEF CodeRow
<1>4. CASE c.grant # g
  BY <1>1, <1>2, <1>4 DEF CodeRow
<1> QED BY <1>3, <1>4

(* The next pair of a grant.                                                *)
LEMMA NewPair ==
    ASSUME TypeOK, NEW r \in Requests, req[r].pc # "idle", Issue(r)
    PROVE  /\ req[r].grant \in Grants /\ req[r].gen \in Generations
           /\ NewAccess(r) \in AccessRow /\ NewRefresh(r) \in RefreshRow
           /\ issued' \in [Grants -> 0 .. MaxPairs]
           /\ issued'[req[r].grant] = issued[req[r].grant] + 1
           /\ \A g \in Grants \ {req[r].grant} : issued'[g] = issued[g]
<1>1. req[r].grant \in Grants /\ req[r].gen \in Generations
  BY DEF TypeOK, RequestState
<1>2. issued[req[r].grant] + 1 \in Pairs
  BY <1>1, GrantsAssumption DEF TypeOK, Issue, Pairs
<1> QED BY <1>1, <1>2, GrantsAssumption DEF TypeOK, Issue, NewAccess, NewRefresh, AccessRow, RefreshRow, Pairs

LEMMA TypeRegister ==
    ASSUME TypeOK, NEW c \in Clients, Register(c)
    PROVE  TypeOK'
<1>1. PICK evicted \in SUBSET Evictable :
         /\ registry' = [d \in Clients |->
                CASE d = c        -> 1 + Cardinality({k \in Clients : registry[k] # 0})
                  [] d \in evicted -> -1
                  [] OTHER         -> registry[d]]
         /\ codes'   = codes \ Of(codes, evicted)
         /\ access'  = access \ Of(access, evicted)
         /\ refresh' = refresh \ Of(refresh, evicted)
         /\ pkce'    = {g \in pkce : ClientOf[g] \notin evicted}
  BY Zenon DEF Register
<1>2. Cardinality({k \in Clients : registry[k] # 0}) \in Nat
  <2>1. IsFiniteSet({k \in Clients : registry[k] # 0})
    BY GrantsAssumption, FS_Subset
  <2> QED BY <2>1, FS_CardinalityType
<1>3. registry' \in [Clients -> Int]
  <2>1. ASSUME NEW d \in Clients PROVE registry'[d] \in Int
    BY <1>1, <1>2 DEF TypeOK
  <2>2. registry' = [d \in Clients |-> registry'[d]]
    BY <1>1
  <2> QED BY <2>1, <2>2
<1>4. UNCHANGED <<generation, signin, req, past>> /\ registry[c] = 0
  BY DEF Register
<1>5. ASSUME NEW row \in codes' \cup access' \cup refresh'
      PROVE  ClientOf[row.grant] \in Registered'
  <2>1. ClientOf[row.grant] \in Registered /\ ClientOf[row.grant] \notin evicted
    BY <1>1 DEF TypeOK, Of
  <2>2. ClientOf[row.grant] # c
    BY <2>1, <1>4 DEF Registered
  <2>3. registry'[ClientOf[row.grant]] = registry[ClientOf[row.grant]]
    BY <1>1, <2>1, <2>2 DEF Registered
  <2> QED BY <2>1, <2>3 DEF Registered
<1> QED
  BY <1>1, <1>3, <1>4, <1>5 DEF TypeOK, past, Of

LEMMA TypeNext == TypeOK /\ [Next]_vars => TypeOK'
<1> SUFFICES ASSUME TypeOK, [Next]_vars PROVE TypeOK'
  OBVIOUS
<1> USE GrantsAssumption
<1>1. ASSUME NEW u \in Users \cup {AllUsers}, Revoke(u) PROVE TypeOK'
  BY <1>1 DEF TypeOK, Revoke, rows, Registered
<1>2. ASSUME NEW c \in Clients, Register(c) PROVE TypeOK'
  BY <1>2, TypeRegister
<1>3. ASSUME NEW g \in Grants, SignIn(g) PROVE TypeOK'
  BY <1>3, GenerationType DEF TypeOK, SignIn, Stage, rows, past, Registered
<1>4. ASSUME NEW g \in Grants, Approve(g) PROVE TypeOK'
  BY <1>4 DEF TypeOK, Approve, Stage, rows, past, Registered
<1>5. ASSUME NEW g \in Grants, StoreCode(g) PROVE TypeOK'
  <2>1. Code(g) \in CodeRow /\ Code(g).grant = g
    BY DEF TypeOK, Code, CodeRow
  <2> QED BY <1>5, <2>1 DEF TypeOK, StoreCode, Stage, past, Registered
<1>6. ASSUME NEW g \in Grants, StorePKCE(g) PROVE TypeOK'
  BY <1>6 DEF TypeOK, StorePKCE, Stage, past, Registered
<1>7. ASSUME NEW g \in Grants, GiveUp(g) PROVE TypeOK'
  BY <1>7 DEF TypeOK, GiveUp, Stage, rows, past, Registered
<1>8. ASSUME NEW r \in Requests, Step(r) PROVE TypeOK'
  <2>1. CASE PresentCode(r)
    BY <2>1 DEF TypeOK, PresentCode, Unchanged, rows, past, Registered, CodeRow, RequestState
  <2>2. CASE GetPKCE(r)
    BY <2>2, EndType, GoType DEF TypeOK, GetPKCE, Unchanged, rows, past, Registered
  <2>3. CASE DeletePKCE(r)
    BY <2>3, GoType DEF TypeOK, DeletePKCE, Unchanged, past, Registered
  <2>4. CASE Check(r)
    BY <2>4, EndType, GoType DEF TypeOK, Check, Unchanged, rows, past, Registered
  <2>5. CASE Redeem(r)
    <3>1. /\ req[r].pc # "idle" /\ Issue(r) /\ End(r) /\ Unchanged /\ pkce' = pkce
          /\ codes' = Used(req[r].grant)
          /\ access' = access \cup {NewAccess(r)} /\ refresh' = refresh \cup {NewRefresh(r)}
      BY <2>5 DEF Redeem
    <3>2. codes' \subseteq CodeRow /\ \A row \in codes' : \E c \in codes : row.grant = c.grant
      BY <3>1, NewPair, UsedRows
    <3>3. ClientOf[req[r].grant] \in Registered
      BY <2>5 DEF Redeem, Redeemable, TypeOK
    <3>4. ASSUME NEW row \in codes' \cup access' \cup refresh'
          PROVE  ClientOf[row.grant] \in Registered'
      <4>1. Registered' = Registered
        BY <3>1 DEF Unchanged, Registered
      <4> QED BY <3>1, <3>2, <3>3, <4>1 DEF TypeOK, NewAccess, NewRefresh
    <3>5. access' \subseteq AccessRow /\ refresh' \subseteq RefreshRow
      BY <3>1, NewPair DEF TypeOK
    <3> QED BY <3>1, <3>2, <3>4, <3>5, NewPair, EndType DEF TypeOK, Unchanged, Issue
  <2>6. CASE ReplayAccess(r)
    BY <2>6, GoType DEF TypeOK, ReplayAccess, RevokeAccessToken, Unchanged, past, Registered
  <2>7. CASE ReplayRefresh(r)
    <3>1. req[r].grant \in Grants
      BY <2>7 DEF TypeOK, ReplayRefresh
    <3>2. refresh' \subseteq RefreshRow /\ \A row \in refresh' : \E t \in refresh : row.grant = t.grant
      BY <2>7, <3>1, RetiredRows DEF ReplayRefresh, RevokeRefreshToken
    <3> QED BY <2>7, <3>1, <3>2, EndType DEF TypeOK, ReplayRefresh, Unchanged, Registered
  <2>8. CASE PresentRefresh(r)
    BY <2>8 DEF TypeOK, PresentRefresh, Arrive, Unchanged, rows, past, Registered, Pairs, RefreshRow,
                RequestState
  <2>9. CASE Rotate(r)
    <3>1. /\ req[r].pc # "idle" /\ Issue(r) /\ End(r) /\ Unchanged
          /\ access' = {row \in access : row.grant # req[r].grant} \cup {NewAccess(r)}
          /\ refresh' = Retired(req[r].grant) \cup {NewRefresh(r)}
          /\ UNCHANGED <<codes, pkce>>
      BY <2>9 DEF Rotate
    <3>2. /\ Retired(req[r].grant) \subseteq RefreshRow
          /\ \A row \in Retired(req[r].grant) : \E t \in refresh : row.grant = t.grant
      BY <3>1, NewPair, RetiredRows
    <3>3. ClientOf[req[r].grant] \in Registered
      BY <2>9 DEF Rotate, Rotatable, TypeOK
    <3>4. ASSUME NEW row \in codes' \cup access' \cup refresh'
          PROVE  ClientOf[row.grant] \in Registered'
      <4>1. Registered' = Registered
        BY <3>1 DEF Unchanged, Registered
      <4> QED BY <3>1, <3>2, <3>3, <4>1 DEF TypeOK, NewAccess, NewRefresh
    <3>5. access' \subseteq AccessRow /\ refresh' \subseteq RefreshRow
      BY <3>1, <3>2, NewPair DEF TypeOK
    <3> QED BY <3>1, <3>4, <3>5, NewPair, EndType DEF TypeOK, Unchanged, Issue
  <2>10. CASE Reuse(r)
    <3>1. req[r].grant \in Grants
      BY <2>10 DEF TypeOK, Reuse
    <3>2. refresh' \subseteq RefreshRow /\ \A row \in refresh' : \E t \in refresh : row.grant = t.grant
      BY <2>10, <3>1, RetiredRows DEF Reuse, RevokeRefreshToken
    <3> QED BY <2>10, <3>1, <3>2, EndType DEF TypeOK, Reuse, RevokeAccessToken, Unchanged, Registered
  <2>11. CASE PresentRevoked(r)
    BY <2>11 DEF TypeOK, PresentRevoked, Arrive, Unchanged, rows, past, Registered, Pairs, RefreshRow,
                 AccessRow, RequestState
  <2>12. CASE RevokeRefresh(r)
    <3>1. req[r].grant \in Grants
      BY <2>12 DEF TypeOK, RevokeRefresh
    <3>2. refresh' \subseteq RefreshRow /\ \A row \in refresh' : \E t \in refresh : row.grant = t.grant
      BY <2>12, <3>1, RetiredRows DEF RevokeRefresh, RevokeRefreshToken
    <3> QED BY <2>12, <3>1, <3>2, GoType DEF TypeOK, RevokeRefresh, Unchanged, Registered
  <2>13. CASE RevokeAccess(r)
    BY <2>13, EndType DEF TypeOK, RevokeAccess, RevokeAccessToken, Unchanged, Registered
  <2>14. CASE Fail(r)
    BY <2>14, EndType DEF TypeOK, Fail, Unchanged, rows, past, Registered
  <2> QED BY <1>8, <2>1, <2>2, <2>3, <2>4, <2>5, <2>6, <2>7, <2>8, <2>9, <2>10, <2>11, <2>12,
             <2>13, <2>14 DEF Step
<1>9. CASE ExpireCode
  BY <1>9 DEF TypeOK, ExpireCode, Unchanged, past, Registered, CodeRow
<1>10. CASE ExpireAccess
  BY <1>10 DEF TypeOK, ExpireAccess, Unchanged, past, Registered, AccessRow
<1>11. CASE ExpireRefresh
  BY <1>11 DEF TypeOK, ExpireRefresh, Unchanged, Registered, RefreshRow
<1>12. CASE Prune
  BY <1>12 DEF TypeOK, Prune, Unchanged, past, Registered
<1>13. CASE UNCHANGED vars
  BY <1>13 DEF TypeOK, vars, rows, past, Registered
<1> QED
  BY <1>1, <1>2, <1>3, <1>4, <1>5, <1>6, <1>7, <1>8, <1>9, <1>10, <1>11, <1>12, <1>13 DEF Next

(* Every row is well formed and its client is registered.                   *)
THEOREM TypeCorrect == Spec => []TypeOK
BY TypeInit, TypeNext, PTL DEF Spec

-----------------------------------------------------------------------------
(* Rows and requests keep the generation of their grant's sign-in: no step  *)
(* of a request makes a row or a request of a generation it did not find.   *)
Kept(row) == /\ row.gen = signin[row.grant].gen
             /\ signin[row.grant].stage \in {"code", "done", "over"}

LEMMA StepKeeps ==
    ASSUME TypeOK, GenerationsInv, NEW r \in Requests, Step(r)
    PROVE  /\ UNCHANGED <<registry, generation, signin, revoked>>
           /\ \A row \in codes' \cup access' \cup refresh' : Kept(row)
           /\ \A q \in Requests : req'[q].pc # "idle" => Kept(req'[q])
<1> USE DEF GenerationsInv, Kept
<1>1. ASSUME End(r) PROVE \A q \in Requests : req'[q].pc # "idle" => Kept(req'[q])
  BY <1>1 DEF End, Idle, TypeOK
<1>2. ASSUME NEW pc, Go(r, pc), req[r].pc # "idle"
      PROVE  \A q \in Requests : req'[q].pc # "idle" => Kept(req'[q])
  BY <1>2 DEF Go, TypeOK, RequestState
<1>3. ASSUME NEW row \in access \cup refresh, NEW pc, Arrive(r, row, pc)
      PROVE  \A q \in Requests : req'[q].pc # "idle" => Kept(req'[q])
  BY <1>3 DEF Arrive, TypeOK
<1>4. ASSUME req[r].pc # "idle" PROVE Kept(NewAccess(r)) /\ Kept(NewRefresh(r))
  BY <1>4 DEF NewAccess, NewRefresh
<1>5. ASSUME NEW g \in Grants
      PROVE  /\ \A row \in Used(g) : Kept(row)
             /\ \A row \in Retired(g) : Kept(row)
  BY UsedRows, RetiredRows
<1>6. ASSUME req[r].pc # "idle" PROVE req[r].grant \in Grants
  BY <1>6 DEF TypeOK
<1>7. CASE PresentCode(r)
  BY <1>7 DEF PresentCode, TypeOK, Unchanged, rows, past
<1>8. CASE GetPKCE(r)
  BY <1>8, <1>1, <1>2 DEF GetPKCE, Unchanged, rows, past
<1>9. CASE DeletePKCE(r)
  BY <1>9, <1>2 DEF DeletePKCE, Unchanged, past
<1>10. CASE Check(r)
  BY <1>10, <1>1, <1>2 DEF Check, Unchanged, rows, past
<1>11. CASE Redeem(r)
  BY <1>11, <1>1, <1>4, <1>5, <1>6 DEF Redeem, Issue, Unchanged
<1>12. CASE ReplayAccess(r)
  BY <1>12, <1>2 DEF ReplayAccess, RevokeAccessToken, Unchanged, past
<1>13. CASE ReplayRefresh(r)
  BY <1>13, <1>1, <1>5, <1>6 DEF ReplayRefresh, RevokeRefreshToken, Unchanged
<1>14. CASE PresentRefresh(r)
  BY <1>14, <1>3 DEF PresentRefresh, Unchanged, rows, past
<1>15. CASE Rotate(r)
  BY <1>15, <1>1, <1>4, <1>5, <1>6 DEF Rotate, Issue, Unchanged
<1>16. CASE Reuse(r)
  BY <1>16, <1>1, <1>5, <1>6 DEF Reuse, RevokeRefreshToken, RevokeAccessToken, Unchanged
<1>17. CASE PresentRevoked(r)
  BY <1>17, <1>3 DEF PresentRevoked, Unchanged, rows, past
<1>18. CASE RevokeRefresh(r)
  BY <1>18, <1>2, <1>5, <1>6 DEF RevokeRefresh, RevokeRefreshToken, Unchanged
<1>19. CASE RevokeAccess(r)
  BY <1>19, <1>1 DEF RevokeAccess, RevokeAccessToken, Unchanged
<1>20. CASE Fail(r)
  BY <1>20, <1>1 DEF Fail, Unchanged, rows, past
<1> QED BY <1>7, <1>8, <1>9, <1>10, <1>11, <1>12, <1>13, <1>14, <1>15, <1>16, <1>17, <1>18,
           <1>19, <1>20 DEF Step

LEMMA GenerationsNext ==
    ASSUME TypeOK, GenerationsInv, [Next]_vars
    PROVE  GenerationsInv'
<1> USE GrantsAssumption
<1>1. ASSUME NEW u \in Users \cup {AllUsers}, Revoke(u) PROVE GenerationsInv'
  <2>1. /\ generation' = [generation EXCEPT ![u] = @ + 1]
        /\ revoked' = revoked \cup {g \in Grants : signin[g].stage # "none"
                                                  /\ u \in {UserOf[g], AllUsers}}
        /\ UNCHANGED <<registry, signin, codes, access, refresh, req>>
    BY <1>1 DEF Revoke, rows
  <2>2. ASSUME NEW g \in Grants
        PROVE  CurrentGeneration(UserOf[g])'
                 = CurrentGeneration(UserOf[g]) + IF u \in {UserOf[g], AllUsers} THEN 1 ELSE 0
    BY <2>1, GenerationType DEF CurrentGeneration, TypeOK
  <2>3. ASSUME NEW g \in Grants, signin[g].stage # "none"
        PROVE  IF g \in revoked' THEN signin[g].gen < CurrentGeneration(UserOf[g])'
               ELSE signin[g].gen = CurrentGeneration(UserOf[g])'
    <3>1. signin[g].gen \in Int /\ CurrentGeneration(UserOf[g]) \in Int
      BY GenerationType DEF TypeOK, Generations
    <3> QED BY <2>1, <2>2, <2>3, <3>1 DEF GenerationsInv
  <2> QED BY <2>1, <2>3 DEF GenerationsInv
<1>2. ASSUME NEW c \in Clients, Register(c) PROVE GenerationsInv'
  <2>1. /\ codes' \subseteq codes /\ access' \subseteq access /\ refresh' \subseteq refresh
        /\ UNCHANGED <<generation, signin, req, revoked>>
    BY <1>2 DEF Register, past
  <2> QED BY <2>1 DEF GenerationsInv, CurrentGeneration
<1>3. ASSUME NEW g \in Grants, SignIn(g) PROVE GenerationsInv'
  BY <1>3 DEF GenerationsInv, CurrentGeneration, TypeOK, SignIn, Stage, rows, past, CodeRow,
              AccessRow, RefreshRow
<1>4. ASSUME NEW g \in Grants, Approve(g) PROVE GenerationsInv'
  BY <1>4 DEF GenerationsInv, CurrentGeneration, TypeOK, Approve, Stage, rows, past, CodeRow,
              AccessRow, RefreshRow
<1>5. ASSUME NEW g \in Grants, StoreCode(g) PROVE GenerationsInv'
  BY <1>5 DEF GenerationsInv, CurrentGeneration, TypeOK, StoreCode, Code, Stage, past, CodeRow,
              AccessRow, RefreshRow
<1>6. ASSUME NEW g \in Grants, StorePKCE(g) PROVE GenerationsInv'
  BY <1>6 DEF GenerationsInv, CurrentGeneration, TypeOK, StorePKCE, Stage, past, CodeRow,
              AccessRow, RefreshRow
<1>7. ASSUME NEW g \in Grants, GiveUp(g) PROVE GenerationsInv'
  BY <1>7 DEF GenerationsInv, CurrentGeneration, TypeOK, GiveUp, Stage, rows, past, CodeRow,
              AccessRow, RefreshRow
<1>8. ASSUME NEW r \in Requests, Step(r) PROVE GenerationsInv'
  BY <1>8, StepKeeps DEF GenerationsInv, Kept, CurrentGeneration
<1>9. CASE ExpireCode
  BY <1>9 DEF GenerationsInv, CurrentGeneration, TypeOK, ExpireCode, Unchanged, past, CodeRow
<1>10. CASE ExpireAccess
  BY <1>10 DEF GenerationsInv, CurrentGeneration, TypeOK, ExpireAccess, Unchanged, past, AccessRow
<1>11. CASE ExpireRefresh
  BY <1>11 DEF GenerationsInv, CurrentGeneration, TypeOK, ExpireRefresh, Unchanged, RefreshRow
<1>12. CASE Prune
  BY <1>12 DEF GenerationsInv, CurrentGeneration, Prune, Unchanged, past
<1>13. CASE UNCHANGED vars
  BY <1>13 DEF GenerationsInv, CurrentGeneration, vars, rows, past
<1> QED
  BY <1>1, <1>2, <1>3, <1>4, <1>5, <1>6, <1>7, <1>8, <1>9, <1>10, <1>11, <1>12, <1>13 DEF Next

-----------------------------------------------------------------------------
(* A grant's tokens are of its last pair, and an ended grant gets no more:  *)
(* only a live code or a live refresh token leads to a pair.                *)
LEMMA Numbers ==
    ASSUME TypeOK
    PROVE  /\ \A g \in Grants : issued[g] \in Int /\ issued[g] >= 0
           /\ \A row \in access : row.grant \in Grants /\ row.n \in Int /\ row.n > 0
           /\ \A row \in refresh : row.grant \in Grants /\ row.n \in Int /\ row.n > 0
           /\ \A row \in codes : row.grant \in Grants
           /\ \A r \in Requests : req[r].pc # "idle" => req[r].grant \in Grants
BY GrantsAssumption DEF TypeOK, AccessRow, RefreshRow, CodeRow, Pairs

LEMMA TokensNumbers ==
    ASSUME TypeOK, PairsInv
    PROVE  \A row \in access \cup refresh : issued[row.grant] > 0
<1>1. ASSUME NEW row \in access PROVE issued[row.grant] > 0
  <2>1. row.n = issued[row.grant]
    BY DEF PairsInv
  <2> QED BY <2>1, Numbers
<1>2. ASSUME NEW row \in refresh PROVE issued[row.grant] > 0
  <2>1. row.n <= issued[row.grant]
    BY DEF PairsInv
  <2>2. issued[row.grant] \in Int /\ row.n \in Int /\ row.n > 0
    BY Numbers
  <2> QED BY <2>1, <2>2
<1> QED BY <1>1, <1>2

LEMMA RedeemFirst ==
    ASSUME TypeOK, PairsInv, NEW r \in Requests, Redeem(r)
    PROVE  /\ req[r].grant \in Grants /\ req[r].grant \notin ended
           /\ issued[req[r].grant] = 0 /\ issued'[req[r].grant] = 1
           /\ \A g \in Grants \ {req[r].grant} : issued'[g] = issued[g]
           /\ \A row \in access \cup refresh : row.grant # req[r].grant
           /\ NewAccess(r).grant = req[r].grant /\ NewAccess(r).n = 1
           /\ NewRefresh(r).grant = req[r].grant /\ NewRefresh(r).n = 1
<1>1. req[r].pc # "idle" /\ Issue(r) /\ \E row \in codes : row.grant = req[r].grant /\ row.active
  BY DEF Redeem, Redeemable
<1>2. req[r].grant \in Grants /\ issued[req[r].grant] = 0
  BY <1>1, Numbers DEF PairsInv
<1>3. \A row \in access \cup refresh : row.grant # req[r].grant
  BY <1>2, TokensNumbers
<1>4. req[r].grant \notin ended
  BY <1>2 DEF PairsInv
<1>5. /\ issued'[req[r].grant] = 1
      /\ \A g \in Grants \ {req[r].grant} : issued'[g] = issued[g]
  <2>1. /\ issued'[req[r].grant] = issued[req[r].grant] + 1
        /\ \A g \in Grants \ {req[r].grant} : issued'[g] = issued[g]
    BY <1>1, NewPair
  <2> QED BY <1>2, <2>1
<1>6. /\ NewAccess(r).grant = req[r].grant /\ NewAccess(r).n = 1
      /\ NewRefresh(r).grant = req[r].grant /\ NewRefresh(r).n = 1
  BY <1>2 DEF NewAccess, NewRefresh
<1> QED BY <1>2, <1>3, <1>4, <1>5, <1>6

LEMMA RotateNext ==
    ASSUME TypeOK, PairsInv, EndedStaysEnded, NEW r \in Requests, Rotate(r)
    PROVE  /\ req[r].grant \in Grants /\ req[r].grant \notin ended
           /\ issued[req[r].grant] > 0 /\ issued'[req[r].grant] = issued[req[r].grant] + 1
           /\ \A g \in Grants \ {req[r].grant} : issued'[g] = issued[g]
           /\ NewAccess(r).grant = req[r].grant /\ NewAccess(r).n = issued[req[r].grant] + 1
           /\ NewRefresh(r).grant = req[r].grant /\ NewRefresh(r).n = issued[req[r].grant] + 1
<1>1. req[r].pc # "idle" /\ Issue(r) /\ \E row \in refresh : row.grant = req[r].grant /\ row.active
  BY DEF Rotate, Rotatable
<1>2. req[r].grant \in Grants /\ issued[req[r].grant] > 0
  BY <1>1, Numbers, TokensNumbers
<1>3. req[r].grant \notin ended
  BY <1>1 DEF EndedStaysEnded
<1> QED BY <1>1, <1>2, <1>3, NewPair DEF NewAccess, NewRefresh

(* Pairs are only ever added, and an end is final.                          *)
LEMMA StepGrows ==
    ASSUME TypeOK, PairsInv, EndedStaysEnded, NEW r \in Requests, Step(r)
    PROVE  /\ \A g \in Grants : issued[g] > 0 => issued'[g] > 0
           /\ ended \subseteq ended'
<1>1. CASE Redeem(r)
  <2>1. \A g \in Grants : issued[g] > 0 => issued'[g] > 0
    BY <1>1, RedeemFirst
  <2> QED BY <1>1, <2>1 DEF Redeem, Issue
<1>2. CASE Rotate(r)
  BY <1>2, RotateNext, Numbers DEF Rotate, Issue
<1>3. CASE ~ Redeem(r) /\ ~ Rotate(r)
  <2>1. UNCHANGED issued /\ ended \subseteq ended'
    BY <1>3 DEF Step, PresentCode, GetPKCE, DeletePKCE, Check, ReplayAccess, ReplayRefresh,
                PresentRefresh, Reuse, PresentRevoked, RevokeRefresh, RevokeAccess, Fail, past
  <2> QED BY <2>1
<1> QED BY <1>1, <1>2, <1>3

LEMMA RequestsStep ==
    ASSUME TypeOK, PairsInv, RequestsInv, EndedStaysEnded, NEW r \in Requests, Step(r)
    PROVE  RequestsInv'
<1>1. \A q \in Requests : req[q].pc \in Ending => issued'[req[q].grant] > 0
  <2>1. \A q \in Requests : req[q].pc \in Ending => req[q].grant \in Grants
    BY Numbers DEF Ending
  <2> QED BY <2>1, StepGrows DEF RequestsInv
<1>2. \A q \in Requests : req[q].pc = "revokeAccess" => req[q].grant \in ended'
  BY StepGrows DEF RequestsInv
<1>3. req \in [Requests -> RequestState]
  BY DEF TypeOK
<1>4. ASSUME End(r) PROVE RequestsInv'
  BY <1>1, <1>2, <1>3, <1>4 DEF End, Idle, RequestsInv, Ending
<1>5. ASSUME NEW pc, Go(r, pc), pc \in Ending => req[r].pc \in Ending,
             pc = "revokeAccess" => req[r].grant \in ended'
      PROVE  RequestsInv'
  <2>1. /\ req'[r].pc = pc /\ req'[r].grant = req[r].grant
        /\ \A q \in Requests \ {r} : req'[q] = req[q]
    BY <1>3, <1>5 DEF Go, RequestState
  <2> QED BY <1>1, <1>2, <1>5, <2>1 DEF RequestsInv
<1>6. ASSUME NEW row, NEW pc, Arrive(r, row, pc), pc # "revokeAccess", issued'[row.grant] > 0
      PROVE  RequestsInv'
  <2>1. /\ req'[r].pc = pc /\ req'[r].grant = row.grant
        /\ \A q \in Requests \ {r} : req'[q] = req[q]
    BY <1>3, <1>6 DEF Arrive
  <2> QED BY <1>1, <1>2, <1>6, <2>1 DEF RequestsInv
<1>7. CASE PresentCode(r)
  <2>1. PICK row \in codes :
           req' = [req EXCEPT ![r] = [pc |-> IF row.active THEN "pkce" ELSE "replayAccess",
                                      grant |-> row.grant, n |-> 0, gen |-> row.gen]]
    BY <1>7 DEF PresentCode
  <2>2. ~ row.active => issued[row.grant] > 0
    BY Numbers DEF PairsInv
  <2>3. ~ row.active => issued'[row.grant] > 0
    BY <2>2, StepGrows, Numbers
  <2>4. /\ req'[r].pc = IF row.active THEN "pkce" ELSE "replayAccess"
        /\ req'[r].grant = row.grant
        /\ \A q \in Requests \ {r} : req'[q] = req[q]
    BY <1>3, <2>1
  <2> QED BY <1>1, <1>2, <2>3, <2>4 DEF RequestsInv, Ending
<1>8. CASE PresentRefresh(r)
  <2>1. PICK row \in refresh : Arrive(r, row, IF row.active THEN "rotate" ELSE "reuse")
    BY <1>8 DEF PresentRefresh
  <2>2. issued'[row.grant] > 0
    BY StepGrows, Numbers, TokensNumbers
  <2> QED BY <2>1, <2>2, <1>6
<1>9. CASE PresentRevoked(r)
  <2>1. PICK row \in access \cup refresh : Arrive(r, row, "revokeRefresh")
    BY <1>9 DEF PresentRevoked
  <2>2. issued'[row.grant] > 0
    BY StepGrows, Numbers, TokensNumbers
  <2> QED BY <2>1, <2>2, <1>6
<1>10. CASE GetPKCE(r) \/ Check(r) \/ DeletePKCE(r)
  BY <1>10, <1>4, <1>5 DEF GetPKCE, Check, DeletePKCE, Ending
<1>11. CASE ReplayAccess(r)
  BY <1>11, <1>5 DEF ReplayAccess, Ending
<1>12. CASE RevokeRefresh(r)
  BY <1>12, <1>5 DEF RevokeRefresh, Ending
<1>13. CASE Redeem(r) \/ ReplayRefresh(r) \/ Rotate(r) \/ Reuse(r) \/ RevokeAccess(r) \/ Fail(r)
  BY <1>13, <1>4 DEF Redeem, ReplayRefresh, Rotate, Reuse, RevokeAccess, Fail
<1> QED BY <1>7, <1>8, <1>9, <1>10, <1>11, <1>12, <1>13 DEF Step

LEMMA PairsStep ==
    ASSUME TypeOK, GenerationsInv, PairsInv, RequestsInv, EndedStaysEnded,
           NEW r \in Requests, Step(r)
    PROVE  PairsInv' /\ EndedStaysEnded'
<1> DEFINE g == req[r].grant
<1>1. CASE Redeem(r)
  <2>1. /\ codes' = Used(g) /\ UNCHANGED <<signin, ended, dead>> /\ req[r].pc # "idle"
        /\ access' = access \cup {NewAccess(r)} /\ refresh' = refresh \cup {NewRefresh(r)}
    BY <1>1 DEF Redeem, Issue, Unchanged
  <2>2. \A row \in codes' : row.active <=> issued'[row.grant] = 0
    <3> TAKE row \in codes'
    <3>1. CASE row.grant = g
      BY <1>1, <2>1, <3>1, UsedRows, RedeemFirst
    <3>2. CASE row.grant # g
      BY <1>1, <2>1, <3>2, UsedRows, RedeemFirst, Numbers DEF PairsInv
    <3> QED BY <3>1, <3>2
  <2>3. \A row \in access' : row.n = issued'[row.grant]
    BY <1>1, <2>1, RedeemFirst, Numbers DEF PairsInv
  <2>4. /\ \A row \in refresh' : row.n <= issued'[row.grant]
        /\ \A row \in refresh' : row.active => row.n = issued'[row.grant]
    BY <1>1, <2>1, RedeemFirst, Numbers DEF PairsInv
  <2>5. \A h \in Grants : issued'[h] > 0 => signin[h].stage \in {"code", "done", "over"}
    BY <1>1, <2>1, RedeemFirst DEF GenerationsInv, PairsInv
  <2>6. \A h \in ended : issued'[h] > 0
    BY <1>1, StepGrows DEF PairsInv, TypeOK
  <2>7. PairsInv'
    BY <2>1, <2>2, <2>3, <2>4, <2>5, <2>6 DEF PairsInv
  <2>8. EndedStaysEnded'
    BY <1>1, <2>1, RedeemFirst DEF EndedStaysEnded, PairsInv
  <2> QED BY <2>7, <2>8
<1>2. CASE Rotate(r)
  <2>1. /\ UNCHANGED <<signin, codes, ended, dead>> /\ req[r].pc # "idle"
        /\ access' = {row \in access : row.grant # g} \cup {NewAccess(r)}
        /\ refresh' = Retired(g) \cup {NewRefresh(r)}
    BY <1>2 DEF Rotate, Issue, Unchanged
  <2>2. \A row \in codes' : row.active <=> issued'[row.grant] = 0
    BY <1>2, <2>1, RotateNext, Numbers DEF PairsInv
  <2>3. \A row \in access' : row.n = issued'[row.grant]
    BY <1>2, <2>1, RotateNext, Numbers DEF PairsInv
  <2>4. /\ \A row \in Retired(g) : /\ row.n <= issued[row.grant] /\ row.grant \in Grants
                                  /\ row.n \in Int
        /\ \A row \in Retired(g) : row.active => row \in refresh /\ row.grant # g
    BY <1>2, RotateNext, RetiredRows, Numbers DEF PairsInv
  <2>5. /\ \A row \in refresh' : row.n <= issued'[row.grant]
        /\ \A row \in refresh' : row.active => row.n = issued'[row.grant]
    <3> SUFFICES ASSUME NEW row \in refresh'
                 PROVE  /\ row.n <= issued'[row.grant]
                        /\ row.active => row.n = issued'[row.grant]
      OBVIOUS
    <3>1. CASE row \in Retired(g)
      <4>1. /\ row.n <= issued[row.grant] /\ row.grant \in Grants /\ row.n \in Int
            /\ row.active => row \in refresh /\ row.grant # g
        BY <2>4, <3>1
      <4>2. issued[row.grant] \in Int /\ issued'[row.grant] >= issued[row.grant]
        BY <1>2, <4>1, RotateNext, Numbers
      <4>3. row.n <= issued'[row.grant]
        BY <4>1, <4>2, <1>2, RotateNext
      <4>4. row.active => row.n = issued'[row.grant]
        BY <4>1, <1>2, RotateNext DEF PairsInv
      <4> QED BY <4>3, <4>4
    <3>2. CASE row = NewRefresh(r)
      BY <1>2, <3>2, RotateNext, Numbers
    <3> QED BY <2>1, <3>1, <3>2
  <2>6. \A h \in Grants : issued'[h] > 0 => signin[h].stage \in {"code", "done", "over"}
    BY <1>2, <2>1, RotateNext DEF PairsInv
  <2>7. \A h \in ended : issued'[h] > 0
    BY <1>2, StepGrows DEF PairsInv, TypeOK
  <2>8. PairsInv'
    BY <2>1, <2>2, <2>3, <2>5, <2>6, <2>7 DEF PairsInv
  <2>9. EndedStaysEnded'
    <3>1. g \notin ended /\ g \notin dead /\ NewAccess(r).grant = g /\ NewRefresh(r).grant = g
      BY <1>2, RotateNext DEF PairsInv
    <3>2. \A row \in refresh' : row.grant \in ended => ~ row.active
      BY <2>1, <2>4, <3>1 DEF EndedStaysEnded
    <3>3. \A row \in access' : row.grant \notin dead
      BY <2>1, <3>1 DEF EndedStaysEnded
    <3> QED BY <2>1, <3>2, <3>3 DEF EndedStaysEnded
  <2> QED BY <2>8, <2>9
<1>3. ASSUME g \in Grants, issued[g] > 0, refresh' = Retired(g), ended' = ended \cup {g},
             access' \subseteq access, dead' \subseteq dead \cup {g},
             g \in dead' \ dead => \A row \in access' : row.grant # g,
             UNCHANGED <<signin, codes, issued>>
      PROVE  PairsInv' /\ EndedStaysEnded'
  <2>1. /\ \A row \in refresh' : row.n <= issued[row.grant]
        /\ \A row \in refresh' : row.active => row \in refresh /\ row.grant # g
    BY <1>3, RetiredRows DEF PairsInv
  <2>2. PairsInv'
    BY <1>3, <2>1 DEF PairsInv
  <2>3. \A row \in refresh' : row.grant \in ended' => ~ row.active
    BY <1>3, <2>1 DEF EndedStaysEnded
  <2>4. \A row \in access' : row.grant \notin dead'
    BY <1>3 DEF EndedStaysEnded
  <2>5. EndedStaysEnded'
    BY <2>3, <2>4 DEF EndedStaysEnded
  <2> QED BY <2>2, <2>5
<1>4. CASE ReplayRefresh(r)
  BY <1>3, <1>4, Numbers DEF ReplayRefresh, RevokeRefreshToken, RequestsInv, Ending, Unchanged
<1>5. CASE Reuse(r)
  BY <1>3, <1>5, Numbers DEF Reuse, RevokeRefreshToken, RevokeAccessToken, RequestsInv, Ending,
                             Unchanged
<1>6. CASE RevokeRefresh(r)
  BY <1>3, <1>6, Numbers DEF RevokeRefresh, RevokeRefreshToken, RequestsInv, Ending, Unchanged
<1>7. CASE RevokeAccess(r)
  <2>1. /\ g \in ended /\ access' = {row \in access : row.grant # g} /\ dead' = dead \cup {g}
        /\ UNCHANGED <<signin, codes, refresh, issued, ended>>
    BY <1>7 DEF RevokeAccess, RevokeAccessToken, RequestsInv, Unchanged
  <2> QED BY <2>1 DEF PairsInv, EndedStaysEnded
<1>8. CASE ReplayAccess(r)
  <2>1. access' \subseteq access /\ UNCHANGED <<signin, codes, refresh, past>>
    BY <1>8 DEF ReplayAccess, RevokeAccessToken, Unchanged
  <2> QED BY <2>1 DEF PairsInv, EndedStaysEnded, past
<1>9. CASE \/ PresentCode(r) \/ GetPKCE(r) \/ DeletePKCE(r) \/ Check(r) \/ PresentRefresh(r)
           \/ PresentRevoked(r) \/ Fail(r)
  <2>1. UNCHANGED <<signin, codes, access, refresh, issued, ended, dead>>
    BY <1>9 DEF PresentCode, GetPKCE, DeletePKCE, Check, PresentRefresh, PresentRevoked, Fail,
                Unchanged, rows, past
  <2> QED BY <2>1 DEF PairsInv, EndedStaysEnded
<1> QED BY <1>1, <1>2, <1>4, <1>5, <1>6, <1>7, <1>8, <1>9 DEF Step

LEMMA PairsNext ==
    ASSUME TypeOK, GenerationsInv, PairsInv, RequestsInv, EndedStaysEnded, [Next]_vars
    PROVE  PairsInv' /\ RequestsInv' /\ EndedStaysEnded'
<1>1. ASSUME NEW g \in Grants, StoreCode(g) PROVE PairsInv'
  <2>1. /\ issued[g] = 0 /\ Code(g).grant = g /\ Code(g).active
        /\ \A h \in Grants : signin'[h].stage = IF h = g THEN "code" ELSE signin[h].stage
        /\ codes' = codes \cup {Code(g)} /\ UNCHANGED <<access, refresh, past>>
    BY <1>1, Numbers DEF StoreCode, Stage, Code, PairsInv, TypeOK
  <2>2. \A row \in codes' : row.active <=> issued[row.grant] = 0
    BY <2>1 DEF PairsInv
  <2> QED BY <2>1, <2>2 DEF PairsInv, past
<1>2. ASSUME NEW g \in Grants, SignIn(g) \/ Approve(g) \/ StorePKCE(g) \/ GiveUp(g) PROVE PairsInv'
  <2>1. /\ UNCHANGED <<codes, access, refresh, past>>
        /\ \A h \in Grants : signin[h].stage \in {"code", "done", "over"}
                            => signin'[h].stage \in {"code", "done", "over"}
    BY <1>2 DEF SignIn, Approve, StorePKCE, GiveUp, Stage, rows, TypeOK
  <2> QED BY <2>1 DEF PairsInv, past
<1>3. ASSUME NEW g \in Grants,
             SignIn(g) \/ Approve(g) \/ StoreCode(g) \/ StorePKCE(g) \/ GiveUp(g)
      PROVE  RequestsInv' /\ EndedStaysEnded'
  BY <1>3 DEF SignIn, Approve, StoreCode, StorePKCE, GiveUp, rows, past, RequestsInv, EndedStaysEnded
<1>4. ASSUME codes' \subseteq codes, access' \subseteq access, refresh' \subseteq refresh,
             UNCHANGED <<signin, req, issued, ended, dead>>
      PROVE  PairsInv' /\ RequestsInv' /\ EndedStaysEnded'
  BY <1>4 DEF PairsInv, RequestsInv, EndedStaysEnded
<1>5. ASSUME NEW u \in Users \cup {AllUsers}, Revoke(u)
      PROVE  PairsInv' /\ RequestsInv' /\ EndedStaysEnded'
  BY <1>4, <1>5 DEF Revoke, rows
<1>6. ASSUME NEW c \in Clients, Register(c) PROVE PairsInv' /\ RequestsInv' /\ EndedStaysEnded'
  BY <1>4, <1>6 DEF Register, past
<1>7. ASSUME NEW r \in Requests, Step(r) PROVE PairsInv' /\ RequestsInv' /\ EndedStaysEnded'
  BY <1>7, PairsStep, RequestsStep
<1>8. CASE ExpireCode
  BY <1>8 DEF ExpireCode, TypeOK, CodeRow, PairsInv, RequestsInv, EndedStaysEnded, Unchanged, past
<1>9. CASE ExpireAccess
  BY <1>9 DEF ExpireAccess, TypeOK, AccessRow, PairsInv, RequestsInv, EndedStaysEnded, Unchanged, past
<1>10. CASE ExpireRefresh
  BY <1>10 DEF ExpireRefresh, TypeOK, RefreshRow, PairsInv, RequestsInv, EndedStaysEnded, Unchanged
<1>11. CASE Prune
  BY <1>4, <1>11 DEF Prune, Unchanged, past
<1>12. CASE UNCHANGED vars
  BY <1>4, <1>12 DEF vars, rows, past
<1> QED
  BY <1>1, <1>2, <1>3, <1>5, <1>6, <1>7, <1>8, <1>9, <1>10, <1>11, <1>12 DEF Next

-----------------------------------------------------------------------------
(* The refresh token issued last works.                                     *)
Works(g, row) == /\ row \in refresh /\ Loads(row) /\ ~ row.expired
                 /\ row.grant = g /\ row.n = issued[g] /\ row.active

Fine(g) == g \notin revoked \cup ended \cup lapsed /\ issued[g] > 0

LEMMA WorksIsLatest ==
    LatestRefreshWorks <=> \A g \in Grants : Fine(g) => \E row : Works(g, row)
BY DEF LatestRefreshWorks, Works, Fine, Usable

(* A new pair works, for its grant's sign-in is current.                    *)
LEMMA NewWorks ==
    ASSUME TypeOK, TypeOK', GenerationsInv, NEW r \in Requests, req[r].pc # "idle",
           Issue(r), Unchanged, NEW g, g = req[r].grant, g \notin revoked,
           NEW row, row = NewRefresh(r), row \in refresh'
    PROVE  Works(g, row)'
<1>1. g \in Grants /\ issued'[g] = issued[g] + 1
  BY NewPair
<1>2. req[r].gen = CurrentGeneration(UserOf[g])
  BY <1>1 DEF GenerationsInv
<1>3. row = [grant |-> g, n |-> issued[g] + 1, gen |-> req[r].gen, expired |-> FALSE, active |-> TRUE]
  BY DEF NewRefresh
<1>4. ClientOf[g] \in Registered'
  BY <1>3 DEF TypeOK
<1>5. Loads(row)'
  BY <1>2, <1>3, <1>4 DEF Loads, Current, CurrentGeneration, Unchanged
<1> QED BY <1>1, <1>3, <1>5 DEF Works

(* What works goes on working while its row, client and generation stay.    *)
LEMMA StillWorks ==
    ASSUME LatestRefreshWorks, NEW g \in Grants, Fine(g), issued'[g] = issued[g],
           \A row : Works(g, row) =>
               /\ row \in refresh'
               /\ ClientOf[row.grant] \in Registered'
               /\ CurrentGeneration(UserOf[row.grant])' = CurrentGeneration(UserOf[row.grant])
    PROVE  \E row : Works(g, row)'
<1>1. PICK row : Works(g, row)
  BY WorksIsLatest
<1>2. Loads(row)'
  BY <1>1 DEF Works, Loads, Current
<1> QED BY <1>1, <1>2 DEF Works

LEMMA LatestStep ==
    ASSUME TypeOK, TypeOK', GenerationsInv, PairsInv, EndedStaysEnded, LatestRefreshWorks,
           NEW r \in Requests, Step(r)
    PROVE  LatestRefreshWorks'
<1> SUFFICES ASSUME NEW g \in Grants, Fine(g)' PROVE \E row : Works(g, row)'
  BY DEF LatestRefreshWorks, Works, Fine, Usable
<1>1. UNCHANGED <<registry, generation, revoked>>
  BY StepKeeps
<1>2. ASSUME issued'[g] = issued[g], g \notin lapsed, g \notin ended,
             \A row \in refresh : row.grant = g => row \in refresh'
      PROVE  \E row : Works(g, row)'
  <2>1. Fine(g)
    BY <1>1, <1>2 DEF Fine
  <2>2. ASSUME NEW row, Works(g, row)
        PROVE  /\ row \in refresh'
               /\ ClientOf[row.grant] \in Registered'
               /\ CurrentGeneration(UserOf[row.grant])' = CurrentGeneration(UserOf[row.grant])
    BY <1>1, <1>2, <2>2 DEF Works, Loads, Registered, CurrentGeneration
  <2> QED BY <1>2, <2>1, <2>2, StillWorks
<1>3. CASE Redeem(r)
  <2>1. CASE g = req[r].grant
    BY <1>1, <1>3, <2>1, NewWorks DEF Redeem, Fine
  <2>2. CASE g # req[r].grant
    <3>1. g \notin lapsed /\ g \notin ended /\ refresh \subseteq refresh'
      BY <1>3, <2>2 DEF Redeem, Issue, Fine
    <3>2. issued'[g] = issued[g]
      BY <1>3, <2>2, RedeemFirst
    <3> QED BY <1>2, <3>1, <3>2
  <2> QED BY <2>1, <2>2
<1>4. CASE Rotate(r)
  <2>1. CASE g = req[r].grant
    BY <1>1, <1>4, <2>1, NewWorks DEF Rotate, Fine
  <2>2. CASE g # req[r].grant
    <3>1. g \notin lapsed /\ g \notin ended /\ Retired(req[r].grant) \subseteq refresh'
      BY <1>4, <2>2 DEF Rotate, Issue, Fine
    <3>2. \A row \in refresh : row.grant = g => row \in refresh'
      BY <2>2, <3>1 DEF Retired
    <3>3. issued'[g] = issued[g]
      BY <1>4, <2>2, RotateNext
    <3> QED BY <1>2, <3>1, <3>2, <3>3
  <2> QED BY <2>1, <2>2
<1>5. CASE ReplayRefresh(r) \/ Reuse(r) \/ RevokeRefresh(r)
  <2>1. /\ refresh' = Retired(req[r].grant) /\ ended' = ended \cup {req[r].grant}
        /\ UNCHANGED <<issued, lapsed>>
    BY <1>5 DEF ReplayRefresh, Reuse, RevokeRefresh, RevokeRefreshToken
  <2>2. g # req[r].grant /\ g \notin ended /\ g \notin lapsed
    BY <2>1 DEF Fine
  <2>3. \A row \in refresh : row.grant = g => row \in refresh'
    BY <2>1, <2>2 DEF Retired
  <2> QED BY <1>2, <2>1, <2>2, <2>3
<1>6. CASE \/ PresentCode(r) \/ GetPKCE(r) \/ DeletePKCE(r) \/ Check(r) \/ ReplayAccess(r)
           \/ PresentRefresh(r) \/ PresentRevoked(r) \/ RevokeAccess(r) \/ Fail(r)
  <2>1. UNCHANGED <<refresh, issued, ended, lapsed>>
    BY <1>6 DEF PresentCode, GetPKCE, DeletePKCE, Check, ReplayAccess, PresentRefresh,
                PresentRevoked, RevokeAccess, Fail, Unchanged, rows, past
  <2> QED BY <1>2, <2>1 DEF Fine
<1> QED BY <1>3, <1>4, <1>5, <1>6 DEF Step

LEMMA LatestNext ==
    ASSUME TypeOK, TypeOK', GenerationsInv, PairsInv, EndedStaysEnded, LatestRefreshWorks,
           [Next]_vars
    PROVE  LatestRefreshWorks'
<1> USE GrantsAssumption
<1>1. ASSUME NEW r \in Requests, Step(r) PROVE LatestRefreshWorks'
  BY <1>1, LatestStep
<1> SUFFICES ASSUME NEW g \in Grants, Fine(g)', \A r \in Requests : ~ Step(r)
             PROVE  \E row : Works(g, row)'
  BY <1>1 DEF LatestRefreshWorks, Works, Fine, Usable
<1>2. ASSUME UNCHANGED <<registry, generation, issued, revoked, ended>>, lapsed \subseteq lapsed',
             \A row : Works(g, row) => row \in refresh'
      PROVE  \E row : Works(g, row)'
  <2>1. Fine(g)
    BY <1>2 DEF Fine
  <2>2. ASSUME NEW row, Works(g, row)
        PROVE  /\ row \in refresh'
               /\ ClientOf[row.grant] \in Registered'
               /\ CurrentGeneration(UserOf[row.grant])' = CurrentGeneration(UserOf[row.grant])
    BY <1>2, <2>2 DEF Works, Loads, Registered, CurrentGeneration
  <2> QED BY <1>2, <2>1, <2>2, StillWorks
<1>3. ASSUME NEW u \in Users \cup {AllUsers}, Revoke(u) PROVE \E row : Works(g, row)'
  <2>1. /\ generation' = [generation EXCEPT ![u] = @ + 1]
        /\ revoked' = revoked \cup {h \in Grants : signin[h].stage # "none"
                                                  /\ u \in {UserOf[h], AllUsers}}
        /\ UNCHANGED <<registry, refresh, issued, ended, lapsed>>
    BY <1>3 DEF Revoke, rows
  <2>2. Fine(g)
    BY <2>1 DEF Fine
  <2>3. u # UserOf[g] /\ u # AllUsers
    BY <2>1 DEF Fine, PairsInv
  <2>4. CurrentGeneration(UserOf[g])' = CurrentGeneration(UserOf[g])
    BY <2>1, <2>3 DEF CurrentGeneration, TypeOK
  <2>5. ASSUME NEW row, Works(g, row)
        PROVE  /\ row \in refresh'
               /\ ClientOf[row.grant] \in Registered'
               /\ CurrentGeneration(UserOf[row.grant])' = CurrentGeneration(UserOf[row.grant])
    BY <2>1, <2>4, <2>5 DEF Works, Loads, Registered
  <2> QED BY <2>1, <2>2, <2>5, StillWorks
<1>4. ASSUME NEW c \in Clients, Register(c) PROVE \E row : Works(g, row)'
  <2>1. PICK evicted \in SUBSET Evictable :
           /\ registry' = [d \in Clients |->
                  CASE d = c        -> 1 + Cardinality({k \in Clients : registry[k] # 0})
                    [] d \in evicted -> -1
                    [] OTHER         -> registry[d]]
           /\ refresh' = refresh \ Of(refresh, evicted)
    BY <1>4, Zenon DEF Register
  <2>2. UNCHANGED <<generation, past>> /\ registry[c] = 0
    BY <1>4 DEF Register
  <2>3. Fine(g)
    BY <2>2 DEF Fine, past
  <2>4. ASSUME NEW row, Works(g, row)
        PROVE  /\ row \in refresh'
               /\ ClientOf[row.grant] \in Registered'
               /\ CurrentGeneration(UserOf[row.grant])' = CurrentGeneration(UserOf[row.grant])
    <3>1. row \in refresh /\ ClientOf[row.grant] \in Registered /\ row.active /\ ~ row.expired
      BY <2>4 DEF Works, Loads
    <3>2. ClientOf[row.grant] \notin evicted
      BY <3>1 DEF Evictable, Of
    <3>3. ClientOf[row.grant] # c
      BY <2>2, <3>1 DEF Registered
    <3>4. registry'[ClientOf[row.grant]] = registry[ClientOf[row.grant]]
      BY <2>1, <3>1, <3>2, <3>3 DEF Registered
    <3> QED BY <2>1, <2>2, <3>1, <3>2, <3>4 DEF Of, Registered, CurrentGeneration
  <2> QED BY <2>2, <2>3, <2>4, StillWorks DEF past
<1>5. ASSUME NEW h \in Grants,
             SignIn(h) \/ Approve(h) \/ StoreCode(h) \/ StorePKCE(h) \/ GiveUp(h)
      PROVE  \E row : Works(g, row)'
  BY <1>2, <1>5 DEF SignIn, Approve, StoreCode, StorePKCE, GiveUp, rows, past, Works
<1>6. CASE ExpireCode \/ ExpireAccess
  BY <1>2, <1>6 DEF ExpireCode, ExpireAccess, Unchanged, past, Works
<1>7. CASE ExpireRefresh
  <2>1. PICK row \in refresh :
           /\ refresh' = (refresh \ {row}) \cup {[row EXCEPT !.expired = TRUE]}
           /\ lapsed' = IF row.n = issued[row.grant] THEN lapsed \cup {row.grant} ELSE lapsed
    BY <1>7 DEF ExpireRefresh
  <2>2. UNCHANGED <<registry, generation, issued, revoked, ended>> /\ lapsed \subseteq lapsed'
    BY <1>7 DEF ExpireRefresh, Unchanged
  <2>3. g \notin lapsed'
    BY DEF Fine
  <2>4. ASSUME NEW t, Works(g, t) PROVE t \in refresh'
    BY <2>1, <2>3, <2>4 DEF Works
  <2> QED BY <1>2, <2>2, <2>4
<1>8. CASE Prune
  BY <1>2, <1>8 DEF Prune, Unchanged, past, Works
<1>9. CASE UNCHANGED vars
  BY <1>2, <1>9 DEF vars, rows, past, Works
<1> QED BY <1>3, <1>4, <1>5, <1>6, <1>7, <1>8, <1>9 DEF Next

-----------------------------------------------------------------------------
LEMMA GrantInit == Init => GrantInv
BY GrantsAssumption DEF Init, GrantInv, GenerationsInv, PairsInv, RequestsInv, EndedStaysEnded,
   LatestRefreshWorks, Idle, Ending

(* The invariant, for any number of racing requests.                        *)
THEOREM GrantInvariant == Spec => []GrantInv
<1>1. TypeOK /\ TypeOK' /\ GrantInv /\ [Next]_vars => GrantInv'
  BY GenerationsNext, PairsNext, LatestNext DEF GrantInv
<1> QED BY <1>1, GrantInit, TypeCorrect, PTL DEF Spec

(* A grant has one live code, or one pair of tokens: however exchanges,     *)
(* refreshes and replays of it race.                                        *)
THEOREM OnePairPerGrant == Spec => []OneGrantOnePair
<1>1. TypeOK /\ GrantInv => OneGrantOnePair
  <2> SUFFICES ASSUME TypeOK, GrantInv PROVE OneGrantOnePair
    OBVIOUS
  <2>1. ASSUME NEW g \in Grants, NEW t \in access, t.grant = g PROVE t.n = issued[g]
    BY <2>1 DEF GrantInv, PairsInv
  <2>2. ASSUME NEW g \in Grants, NEW t \in refresh, t.grant = g, t.active PROVE t.n = issued[g]
    BY <2>2 DEF GrantInv, PairsInv
  <2>3. ASSUME NEW g \in Grants, issued[g] > 0
        PROVE  ~ \E row \in codes : row.grant = g /\ row.active
    BY <2>3 DEF GrantInv, PairsInv
  <2> QED BY <2>1, <2>2, <2>3 DEF OneGrantOnePair
<1> QED BY <1>1, GrantInvariant, TypeCorrect, PTL

(* Nothing signed in before a revoke works after it.                        *)
THEOREM RevocationWins == Spec => []RevokeWins
<1>1. TypeOK /\ GrantInv => RevokeWins
  <2> SUFFICES ASSUME TypeOK, GrantInv,
                      NEW row \in Usable(codes) \cup Usable(access) \cup Usable(refresh),
                      row.grant \in revoked
               PROVE  FALSE
    BY DEF RevokeWins
  <2>1. row \in codes \cup access \cup refresh /\ row.gen = CurrentGeneration(UserOf[row.grant])
    BY DEF Usable, Loads, Current
  <2>2. row.grant \in Grants /\ row.gen = signin[row.grant].gen
    BY <2>1, Numbers DEF GrantInv, GenerationsInv
  <2>3. signin[row.grant].gen < CurrentGeneration(UserOf[row.grant])
    BY <2>2 DEF GrantInv, GenerationsInv
  <2>4. CurrentGeneration(UserOf[row.grant]) \in Int
    BY <2>2, GenerationType, GrantsAssumption DEF Generations
  <2> QED BY <2>1, <2>2, <2>3, <2>4
<1> QED BY <1>1, GrantInvariant, TypeCorrect, PTL

(* A replay or a revocation ends a grant for good.                          *)
THEOREM EndIsFinal == Spec => []EndedStaysEnded
<1>1. GrantInv => EndedStaysEnded
  BY DEF GrantInv
<1> QED BY <1>1, GrantInvariant, PTL

(* Nobody is signed out without cause.                                      *)
THEOREM LatestAlwaysWorks == Spec => []LatestRefreshWorks
<1>1. GrantInv => LatestRefreshWorks
  BY DEF GrantInv
<1> QED BY <1>1, GrantInvariant, PTL
=============================================================================
