------------------------------- MODULE Grants -------------------------------
(***************************************************************************)
(* finbot's OAuth grants (auth/storage.go, auth/generations.go,            *)
(* auth/clients.go, and the endpoints of auth/server.go that use them):    *)
(* a sign-in becomes a code, the code a pair of tokens, a refresh token    *)
(* the next pair; replays, revocations, expiry and eviction end a grant.   *)
(*                                                                         *)
(* Requests run concurrently, and another process may revoke.  Every call  *)
(* of the storage is a step of its own; a transaction (BeginTX to Commit)  *)
(* is one step, for it holds the only writer and readers see what is       *)
(* committed.  fosite, the library that calls the storage, is external.    *)
(*                                                                         *)
(* A grant is fosite's request id.  Time is only what has expired.         *)
(***************************************************************************)
EXTENDS Integers, FiniteSets

CONSTANTS
    Requests,   \* requests to the token and revocation endpoints at a time
    Grants,     \* authorization requests
    Clients,    \* client ids
    Users,      \* subjects
    AllUsers,   \* the user of revoke --all
    ClientOf, UserOf, \* who a grant is for
    MaxClients, \* the cap on registered clients
    MaxPairs,   \* bound: token pairs per grant
    MaxRevokes  \* bound: revokes per user, and of everyone

ASSUME GrantsAssumption ==
    /\ IsFiniteSet(Clients)
    /\ ClientOf \in [Grants -> Clients] /\ UserOf \in [Grants -> Users]
    /\ AllUsers \notin Users
    /\ MaxClients \in Nat \ {0} /\ MaxPairs \in Nat /\ MaxRevokes \in Nat

VARIABLES
    registry,   \* oauth_clients: 0 never registered, else its order; -1 evicted
    generation, \* token_generations
    signin,     \* each grant's sign-in, and the generation it captured
    codes,      \* oauth_auth_codes
    pkce,       \* oauth_pkce_sessions: the grants that have one
    access,     \* oauth_access_tokens
    refresh,    \* oauth_refresh_tokens
    req,        \* what each request is about to do
    issued,     \* history: token pairs issued per grant
    revoked,    \* history: the grants signed in before a revoke of their user
    ended,      \* history: the grants whose refresh tokens were revoked
    dead,       \* history: and whose access tokens were revoked after that
    lapsed      \* history: the grants whose latest refresh token expired

rows == <<codes, pkce, access, refresh>>
past == <<issued, revoked, ended, dead, lapsed>>
vars == <<registry, generation, signin, rows, req, past>>

Pairs       == 1 .. MaxPairs
Generations == 0 .. 2 * MaxRevokes
Registered  == {c \in Clients : registry[c] > 0}

Idle == [pc |-> "idle", grant |-> "none", n |-> 0, gen |-> 0]

-----------------------------------------------------------------------------
(* Generations *)

CurrentGeneration(u) == generation[u] + generation[AllUsers]

(* CheckSession *)
Current(row) == row.gen = CurrentGeneration(UserOf[row.grant])

(* load: a row can be used if its session is current and its client there. *)
Loads(row) == Current(row) /\ ClientOf[row.grant] \in Registered

Usable(table) == {row \in table : Loads(row) /\ ~ row.expired}

(* BumpGeneration, by the server or by `finbot revoke`.                    *)
Revoke(u) ==
    /\ generation[u] < MaxRevokes
    /\ generation' = [generation EXCEPT ![u] = @ + 1]
    /\ revoked' = revoked \cup {g \in Grants : signin[g].stage # "none"
                                               /\ u \in {UserOf[g], AllUsers}}
    /\ UNCHANGED <<registry, signin, rows, req, issued, ended, dead, lapsed>>

-----------------------------------------------------------------------------
(* Clients *)

Of(table, cs) == {row \in table : ClientOf[row.grant] \in cs}

Evictable_noRefresh ==
    {c \in Registered :
        /\ \A row \in Of(codes, {c}) : ~ row.active \/ row.expired
        /\ \A row \in Of(access, {c}) : row.expired}

Evictable ==
    {c \in Registered :
        /\ \A row \in Of(codes, {c}) \cup Of(refresh, {c}) : ~ row.active \/ row.expired
        /\ \A row \in Of(access, {c}) : row.expired}

(* RegisterClient: at the cap, the oldest clients without a live grant make*)
(* room, and their rows go with them; or there is no room.                 *)
Register(c) ==
    /\ registry[c] = 0
    /\ \E evicted \in SUBSET Evictable :
         /\ LET excess == Cardinality(Registered) - MaxClients + 1
            IN Cardinality(evicted) = IF excess > 0 THEN excess ELSE 0
         /\ \A e \in evicted, k \in Evictable \ evicted : registry[e] < registry[k]
         /\ registry' = [d \in Clients |->
                CASE d = c        -> 1 + Cardinality({k \in Clients : registry[k] # 0})
                  [] d \in evicted -> -1
                  [] OTHER         -> registry[d]]
         /\ codes'   = codes \ Of(codes, evicted)
         /\ access'  = access \ Of(access, evicted)
         /\ refresh' = refresh \ Of(refresh, evicted)
         /\ pkce'    = {g \in pkce : ClientOf[g] \notin evicted}
    /\ UNCHANGED <<generation, signin, req, past>>

-----------------------------------------------------------------------------
(* Sign-in *)

Stage(g, stage, gen) == signin' = [signin EXCEPT ![g] = [stage |-> stage, gen |-> gen]]

(* The callback: the generation is the one at sign-in.                     *)
SignIn(g) ==
    /\ signin[g].stage = "none"
    /\ ClientOf[g] \in Registered
    /\ Stage(g, "consent", CurrentGeneration(UserOf[g]))
    /\ UNCHANGED <<registry, generation, rows, req, past>>

(* handleConsent: refused if revoked since.                                *)
Approve(g) ==
    /\ signin[g].stage = "consent"
    /\ Stage(g, IF signin[g].gen = CurrentGeneration(UserOf[g]) THEN "approved" ELSE "over",
             signin[g].gen)
    /\ UNCHANGED <<registry, generation, rows, req, past>>

Code_freshGeneration(g) ==
    [grant |-> g, active |-> TRUE, expired |-> FALSE, gen |-> CurrentGeneration(UserOf[g])]

Code(g) == [grant |-> g, active |-> TRUE, expired |-> FALSE, gen |-> signin[g].gen]

(* NewAuthorizeResponse stores the code, then its PKCE challenge.  A row   *)
(* without a client breaks its foreign key.                                *)
StoreCode(g) ==
    /\ signin[g].stage = "approved"
    /\ ClientOf[g] \in Registered
    /\ codes' = codes \cup {Code(g)}
    /\ Stage(g, "code", signin[g].gen)
    /\ UNCHANGED <<registry, generation, pkce, access, refresh, req, past>>

StorePKCE(g) ==
    /\ signin[g].stage = "code"
    /\ ClientOf[g] \in Registered
    /\ pkce' = pkce \cup {g}
    /\ Stage(g, "done", signin[g].gen)
    /\ UNCHANGED <<registry, generation, codes, access, refresh, req, past>>

(* Denied, failed, expired on the consent page, or lost with the process.  *)
GiveUp(g) ==
    /\ signin[g].stage \in {"consent", "approved", "code"}
    /\ Stage(g, "over", signin[g].gen)
    /\ UNCHANGED <<registry, generation, rows, req, past>>

-----------------------------------------------------------------------------
(* Requests *)

Go(r, pc) == req' = [req EXCEPT ![r].pc = pc]
End(r)    == req' = [req EXCEPT ![r] = Idle]

Arrive(r, row, pc) ==
    req' = [req EXCEPT ![r] = [pc |-> pc, grant |-> row.grant, n |-> row.n, gen |-> row.gen]]

Unchanged == UNCHANGED <<registry, generation, signin>>

(* The writes to one table. *)
Retired(g) ==
    {IF row.grant = g THEN [row EXCEPT !.active = FALSE] ELSE row : row \in refresh}

RevokeRefreshToken(g) == refresh' = Retired(g)

RevokeAccessToken(g) == access' = {row \in access : row.grant # g}

NewAccess(r)  == [grant |-> req[r].grant, n |-> issued[req[r].grant] + 1,
                  gen |-> req[r].gen, expired |-> FALSE]
NewRefresh(r) == [grant |-> req[r].grant, n |-> issued[req[r].grant] + 1,
                  gen |-> req[r].gen, expired |-> FALSE, active |-> TRUE]

Issue(r) ==
    /\ issued[req[r].grant] < MaxPairs
    /\ issued' = [issued EXCEPT ![req[r].grant] = @ + 1]
    /\ lapsed' = lapsed \ {req[r].grant}
    /\ UNCHANGED <<revoked, ended, dead>>

(* A code arrives: GetAuthorizeCodeSession.  A used one ends its grant.    *)
PresentCode(r) ==
    /\ req[r].pc = "idle"
    /\ \E row \in codes :
         /\ signin[row.grant].stage = "done"
         /\ Loads(row)
         /\ row.active => ~ row.expired
         /\ req' = [req EXCEPT ![r] = [pc |-> IF row.active THEN "pkce" ELSE "replayAccess",
                                       grant |-> row.grant, n |-> 0, gen |-> row.gen]]
    /\ Unchanged /\ UNCHANGED <<rows, past>>

(* GetPKCERequestSession, then DeletePKCERequestSession.                   *)
GetPKCE(r) ==
    /\ req[r].pc = "pkce"
    /\ IF req[r].grant \in pkce /\ Current(req[r])
       THEN Go(r, "deletePKCE") ELSE End(r)
    /\ Unchanged /\ UNCHANGED <<rows, past>>

DeletePKCE(r) ==
    /\ req[r].pc = "deletePKCE"
    /\ pkce' = pkce \ {req[r].grant}
    /\ Go(r, "check")
    /\ Unchanged /\ UNCHANGED <<codes, access, refresh, past>>

(* handleToken's own check of the session; then the code is read again.    *)
Check(r) ==
    /\ req[r].pc = "check"
    /\ IF \E row \in codes : row.grant = req[r].grant /\ row.active /\ Loads(row)
       THEN Go(r, "redeem") ELSE End(r)
    /\ Unchanged /\ UNCHANGED <<rows, past>>

Redeemable_anyTime(g) == {row \in codes : row.grant = g}

(* InvalidateAuthorizeCodeSession: only one caller can use a code.         *)
Redeemable(g) == {row \in codes : row.grant = g /\ row.active}

Used(g) == {IF row.grant = g THEN [row EXCEPT !.active = FALSE] ELSE row : row \in codes}

(* One transaction: the code is used, and a first pair of tokens stored.   *)
Redeem(r) ==
    /\ req[r].pc = "redeem"
    /\ Redeemable(req[r].grant) # {}
    /\ codes' = Used(req[r].grant)
    /\ access' = access \cup {NewAccess(r)}
    /\ refresh' = refresh \cup {NewRefresh(r)}
    /\ Issue(r)
    /\ End(r)
    /\ Unchanged /\ UNCHANGED pkce

ReplayAccess(r) ==
    /\ req[r].pc = "replayAccess"
    /\ RevokeAccessToken(req[r].grant)
    /\ Go(r, "replayRefresh")
    /\ Unchanged /\ UNCHANGED <<codes, pkce, refresh, past>>

ReplayRefresh(r) ==
    /\ req[r].pc = "replayRefresh"
    /\ RevokeRefreshToken(req[r].grant)
    /\ ended' = ended \cup {req[r].grant}
    /\ End(r)
    /\ Unchanged /\ UNCHANGED <<codes, pkce, access, issued, revoked, dead, lapsed>>

(* A refresh token arrives: GetRefreshTokenSession.                        *)
PresentRefresh(r) ==
    /\ req[r].pc = "idle"
    /\ \E row \in refresh :
         /\ Loads(row)
         /\ row.active => ~ row.expired
         /\ Arrive(r, row, IF row.active THEN "rotate" ELSE "reuse")
    /\ Unchanged /\ UNCHANGED <<rows, past>>

Rotatable_inactive(r) ==
    \E row \in refresh : row.grant = req[r].grant /\ row.n = req[r].n

(* RotateRefreshToken: only one caller can rotate a given token.           *)
Rotatable(r) ==
    \E row \in refresh : row.grant = req[r].grant /\ row.n = req[r].n /\ row.active

(* One transaction: the old pair is retired and the next one stored.       *)
Rotate(r) ==
    /\ req[r].pc = "rotate"
    /\ Rotatable(r)
    /\ refresh' = Retired(req[r].grant) \cup {NewRefresh(r)}
    /\ access' = {row \in access : row.grant # req[r].grant} \cup {NewAccess(r)}
    /\ Issue(r)
    /\ End(r)
    /\ Unchanged /\ UNCHANGED <<codes, pkce>>

(* One transaction: an old refresh token came back, and its grant ends.    *)
Reuse(r) ==
    /\ req[r].pc = "reuse"
    /\ RevokeRefreshToken(req[r].grant)
    /\ RevokeAccessToken(req[r].grant)
    /\ ended' = ended \cup {req[r].grant}
    /\ dead' = dead \cup {req[r].grant}
    /\ End(r)
    /\ Unchanged /\ UNCHANGED <<codes, pkce, issued, revoked, lapsed>>

(* handleRevoke: a client gives up a token, and so its grant.              *)
PresentRevoked(r) ==
    /\ req[r].pc = "idle"
    /\ \E row \in access \cup {t \in refresh : t.active} :
         /\ Loads(row)
         /\ Arrive(r, row, "revokeRefresh")
    /\ Unchanged /\ UNCHANGED <<rows, past>>

RevokeRefresh(r) ==
    /\ req[r].pc = "revokeRefresh"
    /\ RevokeRefreshToken(req[r].grant)
    /\ ended' = ended \cup {req[r].grant}
    /\ Go(r, "revokeAccess")
    /\ Unchanged /\ UNCHANGED <<codes, pkce, access, issued, revoked, dead, lapsed>>

RevokeAccess(r) ==
    /\ req[r].pc = "revokeAccess"
    /\ RevokeAccessToken(req[r].grant)
    /\ dead' = dead \cup {req[r].grant}
    /\ End(r)
    /\ Unchanged /\ UNCHANGED <<codes, pkce, refresh, issued, revoked, ended, lapsed>>

(* A statement fails, the transaction rolls back, the token is not there,  *)
(* or the process dies.                                                    *)
Fail(r) ==
    /\ req[r].pc # "idle"
    /\ End(r)
    /\ Unchanged /\ UNCHANGED <<rows, past>>

-----------------------------------------------------------------------------
(* Time: what was stored first expires first, and a code (5 minutes), an   *)
(* access token (an hour) and a refresh token (30 days) in this order.     *)
ExpireCode ==
    /\ \E row \in codes :
         ~ row.expired /\ codes' = (codes \ {row}) \cup {[row EXCEPT !.expired = TRUE]}
    /\ Unchanged /\ UNCHANGED <<pkce, access, refresh, req, past>>

ExpireAccess ==
    /\ \E row \in access :
         /\ ~ row.expired
         /\ \A c \in codes : c.grant = row.grant => c.expired
         /\ access' = (access \ {row}) \cup {[row EXCEPT !.expired = TRUE]}
    /\ Unchanged /\ UNCHANGED <<codes, pkce, refresh, req, past>>

ExpireRefresh ==
    /\ \E row \in refresh :
         /\ ~ row.expired
         /\ \A c \in codes : c.grant = row.grant => c.expired
         /\ \A t \in access : t.grant = row.grant => t.expired \/ t.n > row.n
         /\ \A t \in refresh : t.grant = row.grant /\ t.n < row.n => t.expired
         /\ refresh' = (refresh \ {row}) \cup {[row EXCEPT !.expired = TRUE]}
         /\ lapsed' = IF row.n = issued[row.grant] THEN lapsed \cup {row.grant} ELSE lapsed
    /\ Unchanged /\ UNCHANGED <<codes, pkce, access, req, issued, revoked, ended, dead>>

(* Prune: one transaction.  A PKCE session expires with its code.          *)
Prune ==
    /\ codes' = {row \in codes : ~ row.expired}
    /\ access' = {row \in access : ~ row.expired}
    /\ refresh' = {row \in refresh : ~ row.expired}
    /\ pkce' = {g \in pkce : \E row \in codes' : row.grant = g}
    /\ Unchanged /\ UNCHANGED <<req, past>>

-----------------------------------------------------------------------------
Init ==
    /\ registry = [c \in Clients |-> 0]
    /\ generation = [u \in Users \cup {AllUsers} |-> 0]
    /\ signin = [g \in Grants |-> [stage |-> "none", gen |-> 0]]
    /\ codes = {} /\ pkce = {} /\ access = {} /\ refresh = {}
    /\ req = [r \in Requests |-> Idle]
    /\ issued = [g \in Grants |-> 0]
    /\ revoked = {} /\ ended = {} /\ dead = {} /\ lapsed = {}

Step(r) ==
    \/ PresentCode(r) \/ GetPKCE(r) \/ DeletePKCE(r) \/ Check(r) \/ Redeem(r)
    \/ ReplayAccess(r) \/ ReplayRefresh(r)
    \/ PresentRefresh(r) \/ Rotate(r) \/ Reuse(r)
    \/ PresentRevoked(r) \/ RevokeRefresh(r) \/ RevokeAccess(r)
    \/ Fail(r)

Next ==
    \/ \E u \in Users \cup {AllUsers} : Revoke(u)
    \/ \E c \in Clients : Register(c)
    \/ \E g \in Grants : SignIn(g) \/ Approve(g) \/ StoreCode(g) \/ StorePKCE(g) \/ GiveUp(g)
    \/ \E r \in Requests : Step(r)
    \/ ExpireCode \/ ExpireAccess \/ ExpireRefresh \/ Prune

Spec == Init /\ [][Next]_vars

-----------------------------------------------------------------------------
(* Properties *)

CodeRow    == [grant : Grants, active : BOOLEAN, expired : BOOLEAN, gen : Generations]
AccessRow  == [grant : Grants, n : Pairs, gen : Generations, expired : BOOLEAN]
RefreshRow == [grant : Grants, n : Pairs, gen : Generations, expired : BOOLEAN, active : BOOLEAN]

RequestState == [pc : {"idle", "pkce", "deletePKCE", "check", "redeem", "replayAccess",
                       "replayRefresh", "rotate", "reuse", "revokeRefresh", "revokeAccess"},
                 grant : Grants \cup {"none"}, n : 0 .. MaxPairs, gen : Generations]

TypeOK ==
    /\ registry \in [Clients -> Int]
    /\ generation \in [Users \cup {AllUsers} -> 0 .. MaxRevokes]
    /\ signin \in [Grants -> [stage : {"none", "consent", "approved", "code", "done", "over"},
                              gen : Generations]]
    /\ codes \subseteq CodeRow /\ pkce \subseteq Grants
    /\ access \subseteq AccessRow /\ refresh \subseteq RefreshRow
    /\ req \in [Requests -> RequestState]
    /\ \A r \in Requests : req[r].pc # "idle" => req[r].grant \in Grants
    /\ issued \in [Grants -> 0 .. MaxPairs]
    /\ revoked \subseteq Grants /\ ended \subseteq Grants
    /\ dead \subseteq Grants /\ lapsed \subseteq Grants
    /\ \A row \in codes \cup access \cup refresh : ClientOf[row.grant] \in Registered

(* "Only one caller can do that to a code", "to a given token": however    *)
(* exchanges, refreshes and replays interleave, a grant has one live code, *)
(* or one access token and one refresh token, issued together last.        *)
OneGrantOnePair ==
    \A g \in Grants :
        /\ \A t \in {x \in access : x.grant = g} \cup {x \in refresh : x.grant = g /\ x.active} :
              t.n = issued[g]
        /\ issued[g] > 0 => ~ \E row \in codes : row.grant = g /\ row.active

(* "RevokeUser invalidates all of a user's access and refresh tokens at    *)
(* once": nothing that goes back to a sign-in before a revoke of its user, *)
(* or of everyone, works after it; at whatever step the sign-in was.       *)
RevokeWins ==
    \A row \in Usable(codes) \cup Usable(access) \cup Usable(refresh) :
        row.grant \notin revoked

(* A replay or a revocation request ends the grant for good, although      *)
(* others may be refreshing it: no refresh token is live and, but for one  *)
(* issued in the middle of a code's replay, no access token is.            *)
EndedStaysEnded ==
    /\ \A row \in refresh : row.grant \in ended => ~ row.active
    /\ \A row \in access : row.grant \notin dead

(* Nobody is signed out without cause: the refresh token issued last works *)
(* until it expires, its grant ends or its user is revoked, whatever       *)
(* fails, is pruned, evicted or attempted in between.                      *)
LatestRefreshWorks ==
    \A g \in Grants \ (revoked \cup ended \cup lapsed) :
        issued[g] > 0 =>
            \E row \in Usable(refresh) : row.grant = g /\ row.n = issued[g] /\ row.active

-----------------------------------------------------------------------------
(* The inductive invariant (GrantsProofs).                                 *)

(* Whatever a sign-in leads to carries the generation it captured.         *)
GenerationsInv ==
    /\ \A row \in codes \cup access \cup refresh :
          /\ row.gen = signin[row.grant].gen
          /\ signin[row.grant].stage \in {"code", "done", "over"}
    /\ \A r \in Requests : req[r].pc # "idle" =>
          /\ req[r].gen = signin[req[r].grant].gen
          /\ signin[req[r].grant].stage \in {"code", "done", "over"}
    /\ \A g \in Grants : signin[g].stage # "none" =>
          IF g \in revoked THEN signin[g].gen < CurrentGeneration(UserOf[g])
          ELSE signin[g].gen = CurrentGeneration(UserOf[g])
    /\ \A g \in revoked : signin[g].stage # "none"

(* A code is used by the first pair, and only what was issued can end.     *)
PairsInv ==
    /\ \A row \in access : row.n = issued[row.grant]
    /\ \A row \in refresh : row.n <= issued[row.grant]
    /\ \A row \in refresh : row.active => row.n = issued[row.grant]
    /\ \A row \in codes : row.active <=> issued[row.grant] = 0
    /\ \A g \in Grants : issued[g] > 0 => signin[g].stage \in {"code", "done", "over"}
    /\ \A g \in ended : issued[g] > 0
    /\ dead \subseteq ended

(* A request that may end a grant found one with tokens.                   *)
Ending == {"replayAccess", "replayRefresh", "reuse", "revokeRefresh", "revokeAccess"}

RequestsInv ==
    \A r \in Requests :
        /\ req[r].pc \in Ending => issued[req[r].grant] > 0
        /\ req[r].pc = "revokeAccess" => req[r].grant \in ended

GrantInv == GenerationsInv /\ PairsInv /\ RequestsInv /\ EndedStaysEnded /\ LatestRefreshWorks
=============================================================================
