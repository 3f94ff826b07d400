------------------------------- MODULE Logins -------------------------------
(***************************************************************************)
(* A sign-in before it is a grant (auth/server.go): the request parked     *)
(* while the browser is at Google, the consent parked while the user reads *)
(* the page, both in one process's memory and under one cap; the HMAC      *)
(* secret every process of finbot signs with (auth/generations.go); and    *)
(* how a process brings its MCP routes up in the background, and stops     *)
(* (cmd/mcp.go, cmd/app.go).                                               *)
(*                                                                         *)
(* Browsers may send a callback or a consent form twice, to either process *)
(* if a deployment has two for a while, and never at all.  What is between *)
(* two uses of the mutex, or two statements, is a step.                    *)
(***************************************************************************)
EXTENDS Integers, FiniteSets

CONSTANTS
    Procs,      \* server processes that share the database
    Logins,     \* authorization requests, each with a state and a consent id
    Handlers,   \* requests being handled at a time
    MaxPending, \* the cap on what a process parks
    None        \* no secret, no process

ASSUME LoginsAssumption ==
    /\ MaxPending \in Nat \ {0}
    /\ None \notin Procs

VARIABLES
    secret,    \* oauth_hmac_secret: the process whose random bytes it is
    proc,      \* each process: its routes, the secret they sign with
    main,      \* each process: what its main goroutine is at
    pending,   \* each process's parked requests: login, and if it is old
    consents,  \* each process's parked consents
    handler,   \* what each request is about to do
    asked,     \* history: the logins that were sent to Google
    codes,     \* history: codes issued for each login
    pages,     \* history: consent pages shown for each login
    full       \* history: live entries at the last refusal for want of room

vars == <<secret, proc, main, pending, consents, handler, asked, codes, pages, full>>
served == <<secret, proc, main>>
past == <<asked, codes, pages, full>>

Down == [pc |-> "down", secret |-> None]
Idle == [pc |-> "idle", login |-> None, at |-> None]

Parked(p) == pending[p] \cup consents[p]

Live(entries) == {e \in entries : ~ e.old}

Entry(l) == [login |-> l, old |-> FALSE]

-----------------------------------------------------------------------------
(* Start *)

(* The listener is bound, and the routes answer 503 until buildMCP is done.*)
Start(p) ==
    /\ main[p] = "down"
    /\ main' = [main EXCEPT ![p] = "serve"]
    /\ proc' = [proc EXCEPT ![p] = [pc |-> "discover", secret |-> None]]
    /\ UNCHANGED <<secret, pending, consents, handler, past>>

(* Google's discovery answers at last.                                     *)
Discover(p) ==
    /\ proc[p].pc = "discover"
    /\ proc' = [proc EXCEPT ![p].pc = "read"]
    /\ UNCHANGED <<secret, main, pending, consents, handler, past>>

Building(p) == proc[p].pc \in {"read", "insert", "reread"}

(* ctx ended between two tries; or the database says no, which is not      *)
(* tried again: the routes stay 503.                                       *)
BuildFails(p) ==
    /\ \/ Building(p)
       \/ proc[p].pc = "discover" /\ main[p] = "stopping"
    /\ proc' = [proc EXCEPT ![p] = [pc |-> "off", secret |-> None]]
    /\ UNCHANGED <<secret, main, pending, consents, handler, past>>

(* NewServer asks for the secret.                                          *)
ReadSecret(p) ==
    /\ proc[p].pc = "read"
    /\ proc' = [proc EXCEPT ![p] = [pc |-> IF secret = None THEN "insert" ELSE "up",
                                    secret |-> secret]]
    /\ UNCHANGED <<secret, main, pending, consents, handler, past>>

OnConflict_update(p) == p

(* The first process's bytes stay.                                         *)
OnConflict(p) == IF secret = None THEN p ELSE secret

InsertSecret(p) ==
    /\ proc[p].pc = "insert"
    /\ secret' = OnConflict(p)
    /\ proc' = [proc EXCEPT ![p].pc = "reread"]
    /\ UNCHANGED <<main, pending, consents, handler, past>>

RereadSecret(p) ==
    /\ proc[p].pc = "reread"
    /\ proc' = [proc EXCEPT ![p] = [pc |-> "up", secret |-> secret]]
    /\ UNCHANGED <<secret, main, pending, consents, handler, past>>

-----------------------------------------------------------------------------
(* Stop *)

(* A signal, or a listener's error: ctx ends for everything but requests.  *)
Stop(p) ==
    /\ main[p] = "serve"
    /\ main' = [main EXCEPT ![p] = "stopping"]
    /\ UNCHANGED <<secret, proc, pending, consents, handler, past>>

Built_notAwaited(p) == TRUE

(* mcpDone is closed.                                                      *)
Built(p) == proc[p].pc \in {"up", "off"}

(* The jobs and buildMCP have returned: no more connections.               *)
Drain(p) ==
    /\ main[p] = "stopping"
    /\ Built(p)
    /\ main' = [main EXCEPT ![p] = "draining"]
    /\ UNCHANGED <<secret, proc, pending, consents, handler, past>>

Handling(p) == {h \in Handlers : handler[h].at = p}

(* shutdownTimeout: the connections left are closed, which ends the        *)
(* contexts of their requests.                                             *)
CutOff(p) ==
    /\ main[p] = "draining" /\ Handling(p) # {}
    /\ handler' = [h \in Handlers |-> IF h \in Handling(p) THEN [handler[h] EXCEPT !.pc = "cut"]
                                      ELSE handler[h]]
    /\ main' = [main EXCEPT ![p] = "closed"]
    /\ UNCHANGED <<secret, proc, pending, consents, past>>

(* serve returns, and the database closes.                                 *)
CloseDatabase(p) ==
    /\ main[p] = "draining" /\ Handling(p) = {}
    /\ main' = [main EXCEPT ![p] = "closed"]
    /\ UNCHANGED <<secret, proc, pending, consents, handler, past>>

(* The process goes, with all it parked and handled: after serve, or by    *)
(* dying at any time.                                                      *)
Crash(p) ==
    /\ main[p] # "down"
    /\ main' = [main EXCEPT ![p] = "down"]
    /\ proc' = [proc EXCEPT ![p] = Down]
    /\ pending' = [pending EXCEPT ![p] = {}]
    /\ consents' = [consents EXCEPT ![p] = {}]
    /\ handler' = [h \in Handlers |-> IF h \in Handling(p) THEN Idle ELSE handler[h]]
    /\ UNCHANGED <<secret, past>>

Serving(p) == proc[p].pc = "up" /\ main[p] \in {"serve", "stopping"}

-----------------------------------------------------------------------------
(* Parking *)

HasRoom_countsOld(p) == Cardinality(Parked(p)) < MaxPending

(* Old entries are dropped first.                                          *)
HasRoom(p) == Cardinality(Live(pending[p])) + Cardinality(Live(consents[p])) < MaxPending

Refuse(p) ==
    /\ ~ HasRoom(p)
    /\ pending' = [pending EXCEPT ![p] = Live(@)]
    /\ consents' = [consents EXCEPT ![p] = Live(@)]
    /\ full' = Cardinality(Live(pending[p])) + Cardinality(Live(consents[p]))

(* handleAuthorize: a valid request is parked and its browser redirected.  *)
Authorize(p, l) ==
    /\ Serving(p)
    /\ l \notin asked
    /\ HasRoom(p)
    /\ pending' = [pending EXCEPT ![p] = Live(@) \cup {Entry(l)}]
    /\ consents' = [consents EXCEPT ![p] = Live(@)]
    /\ asked' = asked \cup {l}
    /\ UNCHANGED <<served, handler, codes, pages, full>>

RefuseAuthorize(p) ==
    /\ Serving(p)
    /\ Refuse(p)
    /\ UNCHANGED <<served, handler, asked, codes, pages>>

Without_kept(entries, l) == entries

Without(entries, l) == {e \in entries : e.login # l}

Holds(entries, l) == \E e \in entries : e.login = l /\ ~ e.old

(* handleGoogleCallback takes the request off, and keeps it if it is not   *)
(* old and Google reports no error.                                        *)
Callback(h, p, l) ==
    /\ handler[h].pc = "idle"
    /\ Serving(p)
    /\ l \in asked
    /\ pending' = [pending EXCEPT ![p] = Without(@, l)]
    /\ handler' = [handler EXCEPT ![h] =
                     IF Holds(pending[p], l)
                     THEN [pc |-> "exchange", login |-> l, at |-> p] ELSE Idle]
    /\ UNCHANGED <<served, consents, past>>

(* Google takes the code, and its ID token is the one asked for.           *)
Exchange(h) ==
    /\ handler[h].pc = "exchange"
    /\ handler' = [handler EXCEPT ![h].pc = "admit"]
    /\ UNCHANGED <<served, pending, consents, past>>

(* The user is on the list, the client is there, the generation is read.   *)
Admit(h) ==
    /\ handler[h].pc = "admit"
    /\ handler' = [handler EXCEPT ![h].pc = "park"]
    /\ UNCHANGED <<served, pending, consents, past>>

ParkConsent(h) ==
    LET p == handler[h].at
        l == handler[h].login
    IN /\ handler[h].pc = "park"
       /\ HasRoom(p)
       /\ pending' = [pending EXCEPT ![p] = Live(@)]
       /\ consents' = [consents EXCEPT ![p] = Live(@) \cup {Entry(l)}]
       /\ pages' = [pages EXCEPT ![l] = @ + 1]
       /\ handler' = [handler EXCEPT ![h] = Idle]
       /\ UNCHANGED <<served, asked, codes, full>>

RefuseConsent(h) ==
    /\ handler[h].pc = "park"
    /\ Refuse(handler[h].at)
    /\ handler' = [handler EXCEPT ![h] = Idle]
    /\ UNCHANGED <<served, asked, codes, pages>>

(* handleConsent takes the consent off whatever the form says, and goes on *)
(* if it is not old, the form is this page's and says approve.             *)
Consent(h, p, l) ==
    /\ handler[h].pc = "idle"
    /\ Serving(p)
    /\ pages[l] > 0
    /\ consents' = [consents EXCEPT ![p] = Without(@, l)]
    /\ \E approves \in BOOLEAN :
        handler' = [handler EXCEPT ![h] =
                      IF approves /\ Holds(consents[p], l)
                      THEN [pc |-> "issue", login |-> l, at |-> p] ELSE Idle]
    /\ UNCHANGED <<served, pending, past>>

(* The session is current and fosite stores a code.                        *)
IssueCode(h) ==
    /\ handler[h].pc = "issue"
    /\ codes' = [codes EXCEPT ![handler[h].login] = @ + 1]
    /\ handler' = [handler EXCEPT ![h] = Idle]
    /\ UNCHANGED <<served, pending, consents, asked, pages, full>>

(* Google, the allowlist, the database or fosite says no.                  *)
Fail(h) ==
    /\ handler[h].pc \in {"exchange", "admit", "issue", "cut"}
    /\ handler' = [handler EXCEPT ![h] = Idle]
    /\ UNCHANGED <<served, pending, consents, past>>

Aged(entries, l) == {[login |-> e.login, old |-> e.old \/ e.login = l] : e \in entries}

(* pendingLoginTTL passes.                                                 *)
Age(p, l) ==
    /\ Holds(Parked(p), l)
    /\ pending' = [pending EXCEPT ![p] = Aged(@, l)]
    /\ consents' = [consents EXCEPT ![p] = Aged(@, l)]
    /\ UNCHANGED <<served, handler, past>>

-----------------------------------------------------------------------------

Init ==
    /\ secret = None
    /\ proc = [p \in Procs |-> Down]
    /\ main = [p \in Procs |-> "down"]
    /\ pending = [p \in Procs |-> {}]
    /\ consents = [p \in Procs |-> {}]
    /\ handler = [h \in Handlers |-> Idle]
    /\ asked = {}
    /\ codes = [l \in Logins |-> 0]
    /\ pages = [l \in Logins |-> 0]
    /\ full = MaxPending

Next ==
    \/ \E p \in Procs :
        \/ Start(p) \/ Discover(p) \/ BuildFails(p)
        \/ ReadSecret(p) \/ InsertSecret(p) \/ RereadSecret(p)
        \/ Stop(p) \/ Drain(p) \/ CutOff(p) \/ CloseDatabase(p) \/ Crash(p)
        \/ RefuseAuthorize(p)
    \/ \E p \in Procs, l \in Logins : Authorize(p, l) \/ Age(p, l)
    \/ \E h \in Handlers, p \in Procs, l \in Logins : Callback(h, p, l) \/ Consent(h, p, l)
    \/ \E h \in Handlers : Exchange(h) \/ Admit(h) \/ ParkConsent(h)
                           \/ RefuseConsent(h) \/ IssueCode(h) \/ Fail(h)

Spec == Init /\ [][Next]_vars

-----------------------------------------------------------------------------
(* Properties *)

Entries == [login : Logins, old : BOOLEAN]
Requests == [pc : {"exchange", "admit", "park", "issue", "cut"}, login : Logins, at : Procs]

TypeOK ==
    /\ secret \in Procs \cup {None}
    /\ proc \in [Procs -> [pc : {"down", "discover", "read", "insert", "reread", "up", "off"},
                       secret : Procs \cup {None}]]
    /\ main \in [Procs -> {"down", "serve", "stopping", "draining", "closed"}]
    /\ pending \in [Procs -> SUBSET Entries]
    /\ consents \in [Procs -> SUBSET Entries]
    /\ handler \in [Handlers -> Requests \cup {Idle}]
    /\ asked \subseteq Logins
    /\ codes \in [Logins -> Nat] /\ pages \in [Logins -> Nat]
    /\ full \in 0 .. MaxPending

(* Whatever parks, expires and is used at once, a process never holds more *)
(* than MaxPending entries, and refuses nobody for entries that are old or *)
(* were used: MaxPending live ones were there (park).                      *)
CapIsForTheLiving ==
    /\ \A p \in Procs : Cardinality(pending[p]) + Cardinality(consents[p]) <= MaxPending
    /\ full >= MaxPending

(* Two callbacks with one state, two answers to one page, sent to the same *)
(* process or to both: a login is shown one page and gets one code.        *)
EachUsedOnce == \A l \in Logins : codes[l] <= pages[l] /\ pages[l] <= 1

(* Whoever starts first, and however often one restarts in the middle, all *)
(* processes sign with one secret and it is the stored one, for a token of *)
(* one is to be good at the other and after a restart (HMACSecret).        *)
OneSecret == \A p \in Procs : proc[p].pc = "up" => proc[p].secret = secret /\ secret # None

(* shutdown: "every handler's ctx has ended by the time this returns, and  *)
(* the DB closes after"; nor is it closed under a buildMCP that a slow     *)
(* Google let begin as late as this.                                       *)
DatabaseOutlivesItsUsers ==
    \A p \in Procs : main[p] = "closed" =>
        ~ Building(p) /\ \A h \in Handling(p) : handler[h].pc = "cut"

-----------------------------------------------------------------------------
(* Why they hold, whatever the number of processes, logins and handlers:   *)
(* an inductive invariant (LoginsProofs).                                  *)

(* A secret that was inserted or read is there, and is not replaced.       *)
SecretInv ==
    /\ OneSecret
    /\ \A p \in Procs : proc[p].pc = "reread" => secret # None

(* serve drains only after buildMCP, and closes only what has ended.       *)
ShutdownInv ==
    /\ \A p \in Procs : main[p] \in {"draining", "closed"} => Built(p)
    /\ DatabaseOutlivesItsUsers

RoomInv ==
    /\ CapIsForTheLiving
    /\ \A p \in Procs : IsFiniteSet(pending[p]) /\ IsFiniteSet(consents[p])

(* A login that may still get a page is at one place: parked at one        *)
(* process, or with the one handler that took it off; and so is one that   *)
(* may still get a code.                                                   *)
In(entries, l) == \E e \in entries : e.login = l
SigningIn(l) == {h \in Handlers : handler[h].login = l /\ handler[h].pc \in {"exchange", "admit", "park"}}
Approving(l) == {h \in Handlers : handler[h].login = l /\ handler[h].pc = "issue"}

AwaitsPage(l) == l \in asked /\ pages[l] = 0
AwaitsCode(l) == codes[l] < pages[l]

OnceInv ==
    /\ EachUsedOnce
    /\ \A l \in Logins : pages[l] > 0 => l \in asked
    /\ \A l \in Logins, p \in Procs : In(pending[p], l) =>
          AwaitsPage(l) /\ SigningIn(l) = {} /\ \A q \in Procs : In(pending[q], l) => q = p
    /\ \A l \in Logins : \A h \in SigningIn(l) : AwaitsPage(l) /\ SigningIn(l) = {h}
    /\ \A l \in Logins, p \in Procs : In(consents[p], l) =>
          AwaitsCode(l) /\ Approving(l) = {} /\ \A q \in Procs : In(consents[q], l) => q = p
    /\ \A l \in Logins : \A h \in Approving(l) : AwaitsCode(l) /\ Approving(l) = {h}

SignInInv == SecretInv /\ ShutdownInv /\ RoomInv /\ OnceInv
=============================================================================
