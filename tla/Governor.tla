------------------------------ MODULE Governor ------------------------------
(***************************************************************************)
(* The rate governor (ynab/governor.go) under the YNAB clients that share  *)
(* it (ynab/client.go, ynab/transport.go): a token bucket sized to the     *)
(* hourly limit and refilled continuously, whose last tokens only writes   *)
(* may take.  A call asks Allow first (preflight), then takes a token for  *)
(* every attempt the library makes.  The governor lets its clients call at *)
(* any time; the program's jobs happen to call one after the other, which  *)
(* is one of the model's interleavings.                                    *)
(*                                                                         *)
(* Time is counted in seconds, and the bucket in Hour-ths of a token, so   *)
(* that a second refills exactly Limit of them: perSec without fractions.  *)
(***************************************************************************)
EXTENDS Integers

CONSTANTS
    Clients,      \* plan clients sharing the governor (ynab.WithGovernor)
    Limit,        \* hourlyLimit, at least 1
    Reserve,      \* reserve, clamped to 0 .. Limit
    Hour,         \* seconds in an hour
    MaxAttempts,  \* attempts the library makes for one call
    MaxClock      \* bound: the model ends then

ASSUME LimitAssumption == Limit \in Nat \ {0} /\ Reserve \in 0 .. Limit
ASSUME HourAssumption == Hour \in Nat \ {0}
ASSUME AttemptsAssumption == MaxAttempts \in Nat \ {0} /\ MaxClock \in Nat

VARIABLES
    clock,    \* now, in seconds
    tokens,   \* the level of the bucket when it was last looked at
    last,     \* when that was
    call,     \* what each client is doing
    sent,     \* history: attempts sent so far, in all and by writes
    sentAt,   \* history: sent, as it was when the clock got to each second
    hint      \* history: the last "next ... in ..." of Take's error

vars == <<clock, tokens, last, call, sent, sentAt, hint>>

Capacity == Limit * Hour
Idle     == [pc |-> "idle", write |-> FALSE, tries |-> 0]
NoHint   == [at |-> -1, write |-> FALSE, all |-> 0]

-----------------------------------------------------------------------------
(* The bucket *)

(* refill: the level now.                                                  *)
Capped(level) == IF level > Capacity THEN Capacity ELSE level

Refilled_restarts == IF clock > last THEN Capacity ELSE tokens

Refilled == Capped(tokens + (clock - last) * Limit)

Looked(level) == tokens' = level /\ last' = clock

Floor_shared(write) == 0

Floor(write) == IF write THEN 0 ELSE Reserve * Hour

Allow(write) == Refilled >= Floor(write) + Hour

(* Take's hint: whole seconds until a token is free, rounded up.           *)
Wait(write) == (Floor(write) + Hour - Refilled + Limit - 1) \div Limit

-----------------------------------------------------------------------------
(* Calls *)

(* preflight *)
Admit(c, write) ==
    /\ call[c].pc = "idle"
    /\ Allow(write)
    /\ Looked(Refilled)
    /\ call' = [call EXCEPT ![c] = [pc |-> "sending", write |-> write, tries |-> 0]]
    /\ UNCHANGED <<clock, sent, sentAt, hint>>

RefuseEarly(c, write) ==
    /\ call[c].pc = "idle"
    /\ ~ Allow(write)
    /\ Looked(Refilled)
    /\ UNCHANGED <<clock, call, sent, sentAt, hint>>

(* One attempt: the library asks the limiter, then sends.                  *)
Send(c) ==
    /\ call[c].pc = "sending"
    /\ Allow(call[c].write)
    /\ Looked(Refilled - Hour)
    /\ call' = [call EXCEPT ![c].pc = "waiting", ![c].tries = @ + 1]
    /\ sent' = [all |-> sent.all + 1,
                writes |-> IF call[c].write THEN sent.writes + 1 ELSE sent.writes]
    /\ UNCHANGED <<clock, sentAt, hint>>

(* A refused attempt ends its call: a limiter error is fatal.              *)
Refuse(c) ==
    /\ call[c].pc = "sending"
    /\ ~ Allow(call[c].write)
    /\ Looked(Refilled)
    /\ call' = [call EXCEPT ![c] = Idle]
    /\ hint' = [at |-> clock + Wait(call[c].write), write |-> call[c].write,
                all |-> sent.all]
    /\ UNCHANGED <<clock, sent, sentAt>>

(* YNAB answers, with a result, a 429 or an error the library gives up on. *)
Answer(c) ==
    /\ call[c].pc = "waiting"
    /\ call' = [call EXCEPT ![c] = Idle]
    /\ UNCHANGED <<clock, tokens, last, sent, sentAt, hint>>

(* An error the library tries again after.                                 *)
Retry(c) ==
    /\ call[c].pc = "waiting"
    /\ call[c].tries < MaxAttempts
    /\ call' = [call EXCEPT ![c].pc = "sending"]
    /\ UNCHANGED <<clock, tokens, last, sent, sentAt, hint>>

SecondPasses ==
    /\ clock < MaxClock
    /\ clock' = clock + 1
    /\ sentAt' = [s \in 0 .. clock + 1 |-> IF s <= clock THEN sentAt[s] ELSE sent]
    /\ UNCHANGED <<tokens, last, call, sent, hint>>

-----------------------------------------------------------------------------
Init ==
    /\ clock = 0
    /\ tokens = Capacity
    /\ last = 0
    /\ call = [c \in Clients |-> Idle]
    /\ sent = [all |-> 0, writes |-> 0]
    /\ sentAt = [s \in {0} |-> [all |-> 0, writes |-> 0]]
    /\ hint = NoHint

Next ==
    \/ SecondPasses
    \/ \E c \in Clients :
          \/ \E write \in BOOLEAN : Admit(c, write) \/ RefuseEarly(c, write)
          \/ Send(c) \/ Refuse(c) \/ Answer(c) \/ Retry(c)

Spec == Init /\ [][Next]_vars

-----------------------------------------------------------------------------
(* Properties *)

Counts == [all : Nat, writes : Nat]
Calls  == [pc : {"idle", "sending", "waiting"}, write : BOOLEAN,
           tries : 0 .. MaxAttempts]

TypeOK ==
    /\ clock \in 0 .. MaxClock
    /\ tokens \in 0 .. Capacity
    /\ last \in 0 .. clock
    /\ call \in [Clients -> Calls]
    /\ \A c \in Clients : call[c].pc = "sending" => call[c].tries < MaxAttempts
    /\ sent \in Counts
    /\ sentAt \in [0 .. clock -> Counts]
    /\ hint \in [at : Int, write : BOOLEAN, all : Nat]

SentSince(s)   == sent.all - sentAt[s].all
WritesSince(s) == sent.writes - sentAt[s].writes

(* However the clients interleave, what is sent in any stretch of time is  *)
(* at most a full bucket and what that time refilled.                      *)
SpendingIsBounded ==
    \A s \in 0 .. clock : SentSince(s) * Hour <= Capacity + (clock - s) * Limit

(* No token is lost: a read is refused only when, since some moment, the   *)
(* attempts sent used up all that a bucket full at that moment held above  *)
(* the reserve, and all that was refilled since.                           *)
ReadsRefusedOnlyWhenSpent ==
    ~ Allow(FALSE) =>
        \E s \in 0 .. clock :
            (SentSince(s) + 1 + Reserve) * Hour > Capacity + (clock - s) * Limit

(* "The last WriteReserve tokens are kept for writes" (Governor): a write  *)
(* is refused only when, since some moment, the writes alone used up the   *)
(* reserve and all that was refilled since; reads can never starve it.     *)
ReserveIsForWrites ==
    ~ Allow(TRUE) =>
        \E s \in 0 .. clock :
            (WritesSince(s) + 1) * Hour > Reserve * Hour + (clock - s) * Limit

(* "says how long until one is free" (Take): once the time in the error    *)
(* has passed, and if nobody else took a token, the same request passes.   *)
HintIsEnough ==
    /\ hint # NoHint
    /\ clock >= hint.at
    /\ sent.all = hint.all
    /\ Floor(hint.write) + Hour <= Capacity
    => Allow(hint.write)

(* "YNAB allows 200 requests per rolling hour per access token ... so the  *)
(* client counts its own requests" (governor.go): no rolling hour sees     *)
(* more than the limit.                                                    *)
RollingHourLimit ==
    \A s \in 0 .. clock : clock - s < Hour => SentSince(s) <= Limit

-----------------------------------------------------------------------------
(* The inductive invariant (GovernorProofs): the level is what every past  *)
(* moment allows at most and what some past moment allows at least.        *)

LevelAtMost ==
    \A s \in 0 .. clock :
        SentSince(s) * Hour + Refilled <= Capacity + (clock - s) * Limit

LevelAtLeast ==
    \E s \in 0 .. clock :
        SentSince(s) * Hour + Refilled >= Capacity + (clock - s) * Limit

ReserveAtLeast ==
    \E s \in 0 .. clock :
        WritesSince(s) * Hour + Refilled >= Reserve * Hour + (clock - s) * Limit

HintKept ==
    hint # NoHint =>
        /\ hint.all <= sent.all
        /\ sent.all = hint.all =>
              \/ Refilled = Capacity
              \/ Refilled >= Floor(hint.write) + Hour - (hint.at - clock) * Limit

CountsGrow ==
    \A s \in 0 .. clock :
        sentAt[s].all <= sent.all /\ sentAt[s].writes <= sent.writes

BucketInv == CountsGrow /\ LevelAtMost /\ LevelAtLeast /\ ReserveAtLeast /\ HintKept
=============================================================================
