--------------------------- MODULE GovernorProofs ---------------------------
(***************************************************************************)
(* Proofs about the rate governor, for every limit, reserve and number of  *)
(* clients.                                                                *)
(***************************************************************************)
EXTENDS Governor, TLAPS

-----------------------------------------------------------------------------
(* Arithmetic *)

LEMMA ProductNat == \A a, b \in Nat : a * b \in Nat
  OBVIOUS

LEMMA ProductInt == \A a, b \in Int : a * b \in Int
  OBVIOUS

LEMMA OneMore == \A a, b \in Int : (a + 1) * b = a * b + b
  OBVIOUS

LEMMA SumTimes == \A a, b, c \in Int : (a + b) * c = a * c + b * c
  OBVIOUS

LEMMA CapacityNat ==
  /\ Capacity \in Nat
  /\ \A w \in BOOLEAN : Floor(w) \in Nat
  /\ Reserve * Hour <= Capacity
<1>1. Capacity \in Nat
  BY LimitAssumption, HourAssumption, ProductNat DEF Capacity
<1>2. Reserve * Hour \in Nat /\ (Limit - Reserve) * Hour \in Nat
  BY LimitAssumption, HourAssumption, ProductNat
<1>3. Limit * Hour = Reserve * Hour + (Limit - Reserve) * Hour
  <2>1. Reserve \in Int /\ Limit - Reserve \in Int /\ Hour \in Int
    BY LimitAssumption, HourAssumption
  <2>2. (Reserve + (Limit - Reserve)) * Hour = Reserve * Hour + (Limit - Reserve) * Hour
    BY <2>1, SumTimes
  <2>3. Reserve + (Limit - Reserve) = Limit
    BY LimitAssumption
  <2> QED BY <2>2, <2>3
<1> QED BY <1>1, <1>2, <1>3 DEF Capacity, Floor

-----------------------------------------------------------------------------
(* What each step does to the level of the bucket *)

(* The level is never above what the bucket holds nor below what was in it.*)
LEMMA LevelType ==
  ASSUME TypeOK PROVE Refilled \in Nat /\ Refilled <= Capacity /\ tokens <= Refilled
<1>1. (clock - last) * Limit \in Nat
  BY LimitAssumption, ProductNat DEF TypeOK
<1> QED BY <1>1, CapacityNat DEF TypeOK, Refilled, Capped

(* A look at the bucket leaves the level it wrote down.                    *)
LEMMA LookedLevel ==
  ASSUME TypeOK, NEW level \in Nat, level <= Capacity, Looked(level), UNCHANGED clock
  PROVE  Refilled' = level
<1>1. clock' - last' = 0
  BY DEF TypeOK, Looked
<1>2. (clock' - last') * Limit = 0
  BY <1>1, LimitAssumption
<1> QED BY <1>2, CapacityNat DEF Refilled, Capped, Looked, Capacity

(* A second refills Limit, up to the capacity.                             *)
LEMMA SecondLevel ==
  ASSUME TypeOK, SecondPasses PROVE Refilled' = Capped(Refilled + Limit)
<1>1. clock' - last' = (clock - last) + 1
  BY DEF TypeOK, SecondPasses
<1>2. (clock' - last') * Limit = (clock - last) * Limit + Limit
  BY <1>1, LimitAssumption, OneMore DEF TypeOK
<1>3. (clock - last) * Limit \in Nat
  BY LimitAssumption, ProductNat DEF TypeOK
<1> QED
  BY <1>2, <1>3, CapacityNat, LimitAssumption
  DEF TypeOK, SecondPasses, Refilled, Capped, Capacity

(* A token the bucket allows is there to take.                             *)
LEMMA SpentLevel ==
  ASSUME TypeOK, NEW c \in Clients, Allow(call[c].write)
  PROVE  Refilled - Hour \in 0 .. Capacity
<1>1. Floor(call[c].write) \in Nat
  BY CapacityNat DEF TypeOK, Calls
<1> QED BY <1>1, LevelType, CapacityNat, HourAssumption DEF Allow

-----------------------------------------------------------------------------
(* Type correctness: every refused or admitted request leaves a level that *)
(* fits the bucket.                                                        *)
LEMMA TypeStep ==
  ASSUME TypeOK, [Next]_vars PROVE TypeOK'
<1>0. /\ Refilled \in 0 .. Capacity /\ Capacity \in Nat /\ clock \in Nat
      /\ clock \in 0 .. clock
      /\ Idle \in Calls
  BY LevelType, CapacityNat, AttemptsAssumption DEF Idle, TypeOK, Calls
<1>a. TypeOK
  OBVIOUS
<1>b. Capacity' = Capacity
  BY DEF Capacity
<1>1. CASE SecondPasses
  <2>1. clock' \in 0 .. MaxClock /\ clock' = clock + 1
    BY <1>1, <1>a, AttemptsAssumption DEF SecondPasses, TypeOK
  <2>2. last' \in 0 .. clock'
    BY <1>1, <1>a, <1>0, <2>1 DEF SecondPasses, TypeOK
  <2>3. sentAt' \in [0 .. clock' -> Counts]
    <3>1. ASSUME NEW s \in 0 .. clock + 1
          PROVE  (IF s <= clock THEN sentAt[s] ELSE sent) \in Counts
      <4>1. s <= clock => s \in 0 .. clock
        BY <1>0
      <4> QED BY <4>1, <1>a DEF TypeOK
    <3> QED BY <1>1, <2>1, <3>1 DEF SecondPasses
  <2>4. UNCHANGED <<tokens, call, sent, hint>>
    BY <1>1 DEF SecondPasses
  <2> QED BY <1>a, <1>b, <2>1, <2>2, <2>3, <2>4 DEF TypeOK
<1>2. ASSUME NEW c \in Clients, NEW write \in BOOLEAN, Admit(c, write)
      PROVE  TypeOK'
  <2>1. [pc |-> "sending", write |-> write, tries |-> 0] \in Calls
    BY AttemptsAssumption DEF Calls
  <2>2. /\ call' \in [Clients -> Calls]
        /\ \A d \in Clients : call'[d].pc = "sending" => call'[d].tries < MaxAttempts
    BY <1>2, <1>a, <2>1, AttemptsAssumption DEF Admit, TypeOK
  <2> QED BY <1>2, <1>a, <1>b, <1>0, <2>2 DEF TypeOK, Admit, Looked
<1>3. ASSUME NEW c \in Clients, NEW write \in BOOLEAN, RefuseEarly(c, write)
      PROVE  TypeOK'
  BY <1>3, <1>a, <1>b, <1>0 DEF TypeOK, RefuseEarly, Looked
<1>4. ASSUME NEW c \in Clients, Send(c) PROVE TypeOK'
  <2>1. Refilled - Hour \in 0 .. Capacity
    BY <1>4, <1>a, SpentLevel DEF Send
  <2>2. /\ call' \in [Clients -> Calls]
        /\ \A d \in Clients : call'[d].pc = "sending" => call'[d].tries < MaxAttempts
    <3>1. call[c] \in Calls /\ call[c].tries + 1 \in 0 .. MaxAttempts
      BY <1>4, <1>a, AttemptsAssumption DEF Send, TypeOK, Calls
    <3>2. [[call[c] EXCEPT !.pc = "waiting"] EXCEPT !.tries = @ + 1] \in Calls
      BY <3>1 DEF Calls
    <3> QED BY <1>4, <1>a, <3>2 DEF Send, TypeOK
  <2>3. sent' \in Counts
    BY <1>4, <1>a DEF Send, TypeOK, Counts
  <2> QED BY <1>4, <1>a, <1>b, <1>0, <2>1, <2>2, <2>3 DEF TypeOK, Send, Looked
<1>5. ASSUME NEW c \in Clients, Refuse(c) PROVE TypeOK'
  <2>1. call[c].write \in BOOLEAN
    BY <1>a DEF TypeOK, Calls
  <2>2. clock + Wait(call[c].write) \in Int
    BY <1>0, <2>1, CapacityNat, LimitAssumption, HourAssumption DEF Wait
  <2>3. hint' \in [at : Int, write : BOOLEAN, all : Nat]
    BY <1>5, <1>a, <2>1, <2>2 DEF Refuse, TypeOK, Counts
  <2>4. /\ call' \in [Clients -> Calls]
        /\ \A d \in Clients : call'[d].pc = "sending" => call'[d].tries < MaxAttempts
    BY <1>5, <1>a, <1>0 DEF Refuse, TypeOK, Idle
  <2> QED BY <1>5, <1>a, <1>b, <1>0, <2>3, <2>4 DEF TypeOK, Refuse, Looked
<1>6. ASSUME NEW c \in Clients, Answer(c) PROVE TypeOK'
  BY <1>6, <1>a, <1>b, <1>0 DEF TypeOK, Answer, Idle
<1>7. ASSUME NEW c \in Clients, Retry(c) PROVE TypeOK'
  BY <1>7, <1>a, <1>b DEF TypeOK, Retry, Calls
<1>8. CASE UNCHANGED vars
  BY <1>8, <1>a, <1>b DEF TypeOK, vars
<1> QED BY <1>1, <1>2, <1>3, <1>4, <1>5, <1>6, <1>7, <1>8 DEF Next

(* Type correctness.                                                       *)
THEOREM TypeCorrect == Spec => []TypeOK
<1>1. Init => TypeOK
  BY CapacityNat, AttemptsAssumption
  DEF Init, TypeOK, Idle, Calls, Counts, NoHint
<1>2. TypeOK /\ [Next]_vars => TypeOK'
  BY TypeStep
<1> QED BY <1>1, <1>2, PTL DEF Spec

-----------------------------------------------------------------------------
(* The inductive invariant *)

(* The wait in the error, times what a second refills, covers what is      *)
(* missing.                                                                *)
LEMMA CeilingCovers ==
  \A x \in Int, d \in Nat \ {0} : ((x + d - 1) \div d) * d >= x
<1>1. \A a \in Int, d \in Nat \ {0} : a = d * (a \div d) + (a % d) /\ a % d < d
  OBVIOUS
<1> QED BY <1>1

LEMMA CountTypes ==
  ASSUME TypeOK
  PROVE  /\ clock \in Nat
         /\ \A s \in 0 .. clock : /\ s \in Nat
                                  /\ SentSince(s) \in Int
                                  /\ WritesSince(s) \in Int
                                  /\ SentSince(s) * Hour \in Int
                                  /\ WritesSince(s) * Hour \in Int
                                  /\ (clock - s) * Limit \in Int
<1>1. clock \in Nat
  BY AttemptsAssumption DEF TypeOK
<1>2. ASSUME NEW s \in 0 .. clock
      PROVE  s \in Nat /\ SentSince(s) \in Int /\ WritesSince(s) \in Int
  BY <1>1 DEF TypeOK, Counts, SentSince, WritesSince
<1> QED BY <1>1, <1>2, ProductInt, LimitAssumption, HourAssumption

(* A step that leaves the level, the clock and the counts alone.           *)
LEMMA QuietStep ==
  ASSUME TypeOK, BucketInv, Refilled' = Refilled, UNCHANGED <<clock, sent, sentAt>>
  PROVE  CountsGrow' /\ LevelAtMost' /\ LevelAtLeast' /\ ReserveAtLeast'
<1>1. \A s : SentSince(s)' = SentSince(s) /\ WritesSince(s)' = WritesSince(s)
  BY DEF SentSince, WritesSince
<1> QED
  BY <1>1 DEF BucketInv, CountsGrow, LevelAtMost, LevelAtLeast, ReserveAtLeast

(* One attempt adds one to every count and takes one token.                *)
LEMMA SendStep ==
  ASSUME TypeOK, BucketInv, NEW c \in Clients, Send(c)
  PROVE  BucketInv'
<1> DEFINE w == call[c].write
<1>0. /\ w \in BOOLEAN /\ Floor(w) \in Nat /\ Refilled \in Nat /\ Capacity \in Nat
      /\ Hour \in Nat /\ Reserve * Hour \in Nat
  BY LevelType, CapacityNat, HourAssumption, LimitAssumption, ProductNat DEF TypeOK, Calls
<1>1. Refilled' = Refilled - Hour
  BY SpentLevel, LookedLevel DEF Send
<1>2. Refilled >= Floor(w) + Hour
  BY DEF Send, Allow
<1>3. UNCHANGED <<clock, sentAt, hint>>
  BY DEF Send
<1>4. /\ sent'.all = sent.all + 1
      /\ sent'.writes = IF w THEN sent.writes + 1 ELSE sent.writes
      /\ sent.all \in Nat /\ sent.writes \in Nat
  BY DEF Send, TypeOK, Counts
<1>5. ASSUME NEW s \in 0 .. clock
      PROVE  /\ SentSince(s)' * Hour = SentSince(s) * Hour + Hour
             /\ w => WritesSince(s)' * Hour = WritesSince(s) * Hour + Hour
  <2>1. sentAt[s] \in Counts /\ sentAt'[s] = sentAt[s]
    BY <1>3 DEF TypeOK
  <2>2. sentAt[s].all \in Nat /\ sentAt[s].writes \in Nat
    BY <2>1 DEF Counts
  <2>3. SentSince(s)' = SentSince(s) + 1
    BY <2>1, <2>2, <1>4 DEF SentSince
  <2>4. SentSince(s) \in Int /\ WritesSince(s) \in Int
    BY CountTypes
  <2>5. SentSince(s)' * Hour = SentSince(s) * Hour + Hour
    BY <2>3, <2>4, <1>0, OneMore
  <2>6. ASSUME w PROVE WritesSince(s)' * Hour = WritesSince(s) * Hour + Hour
    <3>1. sent'.writes = sent.writes + 1
      BY <2>6, <1>4
    <3>2. WritesSince(s)' = WritesSince(s) + 1
      BY <3>1, <2>1, <2>2, <1>4 DEF WritesSince
    <3> QED BY <3>2, <2>4, <1>0, OneMore
  <2> QED BY <2>5, <2>6
<1>6. CountsGrow'
  <2>1. ASSUME NEW s \in 0 .. clock
        PROVE  sentAt[s].all <= sent'.all /\ sentAt[s].writes <= sent'.writes
    <3>1. sentAt[s].all <= sent.all /\ sentAt[s].writes <= sent.writes
      BY DEF BucketInv, CountsGrow
    <3>2. sentAt[s].all \in Nat /\ sentAt[s].writes \in Nat
      BY DEF TypeOK, Counts
    <3>3. sent'.writes = sent.writes + 1 \/ sent'.writes = sent.writes
      BY <1>4
    <3> QED BY <3>1, <3>2, <3>3, <1>4
  <2> QED BY <2>1, <1>3 DEF CountsGrow
<1>7. LevelAtMost'
  BY <1>0, <1>1, <1>3, <1>5, CountTypes DEF BucketInv, LevelAtMost, Capacity
<1>8. LevelAtLeast'
  <2>1. PICK s \in 0 .. clock :
          SentSince(s) * Hour + Refilled >= Capacity + (clock - s) * Limit
    BY DEF BucketInv, LevelAtLeast
  <2>2. SentSince(s)' * Hour + Refilled' >= Capacity + (clock - s) * Limit
    BY <2>1, <1>0, <1>1, <1>5, CountTypes
  <2> QED BY <2>2, <1>3 DEF LevelAtLeast, Capacity
<1>9. ReserveAtLeast'
  <2>1. CASE w
    <3>1. PICK s \in 0 .. clock :
            WritesSince(s) * Hour + Refilled >= Reserve * Hour + (clock - s) * Limit
      BY DEF BucketInv, ReserveAtLeast
    <3>2. WritesSince(s)' * Hour + Refilled' >= Reserve * Hour + (clock - s) * Limit
      BY <3>1, <2>1, <1>0, <1>1, <1>5, CountTypes
    <3> QED BY <3>2, <1>3 DEF ReserveAtLeast
  <2>2. CASE ~ w
    <3>1. Refilled' >= Reserve * Hour
      BY <2>2, <1>0, <1>1, <1>2 DEF Floor
    <3>2. clock \in 0 .. clock /\ (clock - clock) * Limit = 0
      BY CountTypes, LimitAssumption
    <3>3. WritesSince(clock)' = sent.writes - sentAt[clock].writes
      BY <2>2, <1>3, <1>4 DEF WritesSince
    <3>4. WritesSince(clock)' \in Nat
      BY <3>2, <3>3, <1>4 DEF BucketInv, CountsGrow, TypeOK, Counts
    <3>5. WritesSince(clock)' * Hour \in Nat
      BY <3>4, <1>0, ProductNat
    <3>6. WritesSince(clock)' * Hour + Refilled' >= Reserve * Hour + (clock - clock) * Limit
      BY <3>1, <3>2, <3>5, <1>0, <1>1
    <3> QED BY <3>2, <3>6, <1>3 DEF ReserveAtLeast, WritesSince
  <2> QED BY <2>1, <2>2
<1>10. HintKept'
  BY <1>3, <1>4 DEF BucketInv, HintKept, TypeOK
<1> QED BY <1>6, <1>7, <1>8, <1>9, <1>10 DEF BucketInv

(* A second adds what it refills on both sides, or the bucket is full.     *)
LEMMA SecondStep ==
  ASSUME TypeOK, BucketInv, SecondPasses
  PROVE  BucketInv'
<1>0. /\ Refilled \in Nat /\ Capacity \in Nat /\ Limit \in Nat \ {0} /\ clock \in Nat
      /\ Reserve * Hour \in Nat /\ Reserve * Hour <= Capacity
  BY LevelType, CapacityNat, CountTypes, HourAssumption, LimitAssumption, ProductNat
<1>1. Refilled' = IF Refilled + Limit > Capacity THEN Capacity ELSE Refilled + Limit
  BY SecondLevel DEF Capped
<1>2. UNCHANGED <<sent, hint>> /\ clock' = clock + 1
  BY DEF SecondPasses
<1>3. ASSUME NEW s \in 0 .. clock
      PROVE  /\ s \in 0 .. clock'
             /\ sentAt'[s] = sentAt[s]
             /\ SentSince(s)' = SentSince(s) /\ WritesSince(s)' = WritesSince(s)
             /\ (clock' - s) * Limit = (clock - s) * Limit + Limit
  <2>1. s \in 0 .. clock + 1 /\ s <= clock /\ clock' - s = (clock - s) + 1
    BY <1>0, <1>2
  <2>2. sentAt'[s] = sentAt[s]
    BY <2>1 DEF SecondPasses
  <2>3. (clock' - s) * Limit = (clock - s) * Limit + Limit
    BY <2>1, <1>0, OneMore
  <2> QED BY <2>1, <2>2, <2>3, <1>2 DEF SentSince, WritesSince
<1>4. /\ clock' \in 0 .. clock' /\ sentAt'[clock'] = sent
      /\ SentSince(clock)' = 0 /\ WritesSince(clock)' = 0
      /\ (clock' - clock') * Limit = 0
  <2>1. clock + 1 \in 0 .. clock + 1 /\ ~ (clock + 1 <= clock)
    BY <1>0
  <2>2. sentAt'[clock + 1] = sent
    BY <2>1 DEF SecondPasses
  <2>3. (clock' - clock') * Limit = 0
    BY <1>0, <1>2
  <2>4. sent.all \in Int /\ sent.writes \in Int
    BY DEF TypeOK, Counts
  <2> QED
    BY <2>1, <2>2, <2>3, <2>4, <1>2 DEF SentSince, WritesSince
<1>5. \A s \in 0 .. clock' : s \in 0 .. clock \/ s = clock'
  BY <1>0, <1>2
<1>6. 0 * Hour = 0 /\ Capacity' = Capacity
  BY HourAssumption DEF Capacity
<1>7. CountsGrow'
  <2>1. ASSUME NEW s \in 0 .. clock'
        PROVE  sentAt'[s].all <= sent'.all /\ sentAt'[s].writes <= sent'.writes
    <3>1. CASE s \in 0 .. clock
      BY <3>1, <1>2, <1>3 DEF BucketInv, CountsGrow
    <3>2. CASE s = clock'
      BY <3>2, <1>2, <1>4 DEF TypeOK, Counts
    <3> QED BY <3>1, <3>2, <1>5
  <2> QED BY <2>1 DEF CountsGrow
<1>8. LevelAtMost'
  <2>1. ASSUME NEW s \in 0 .. clock'
        PROVE  SentSince(s)' * Hour + Refilled' <= Capacity + (clock' - s) * Limit
    <3>1. CASE s \in 0 .. clock
      <4>1. SentSince(s) * Hour + Refilled <= Capacity + (clock - s) * Limit
        BY <3>1 DEF BucketInv, LevelAtMost
      <4> QED BY <3>1, <4>1, <1>0, <1>1, <1>3, CountTypes
    <3>2. CASE s = clock'
      <4>1. SentSince(s)' = 0 /\ (clock' - s) * Limit = 0
        BY <3>2, <1>4 DEF SentSince
      <4> QED BY <4>1, <1>0, <1>1, <1>6
    <3> QED BY <3>1, <3>2, <1>5
  <2> QED BY <2>1, <1>6 DEF LevelAtMost
<1>9. LevelAtLeast'
  <2>1. CASE Refilled + Limit > Capacity
    <3>1. SentSince(clock)' * Hour + Refilled' >= Capacity + (clock' - clock') * Limit
      BY <2>1, <1>0, <1>1, <1>4, <1>6
    <3> QED BY <3>1, <1>4, <1>6 DEF LevelAtLeast
  <2>2. CASE ~ (Refilled + Limit > Capacity)
    <3>1. PICK s \in 0 .. clock :
            SentSince(s) * Hour + Refilled >= Capacity + (clock - s) * Limit
      BY DEF BucketInv, LevelAtLeast
    <3>2. SentSince(s)' * Hour + Refilled' >= Capacity + (clock' - s) * Limit
      BY <2>2, <3>1, <1>0, <1>1, <1>3, CountTypes
    <3> QED BY <3>2, <1>3, <1>6 DEF LevelAtLeast
  <2> QED BY <2>1, <2>2
<1>10. ReserveAtLeast'
  <2>1. CASE Refilled + Limit > Capacity
    <3>1. WritesSince(clock)' * Hour + Refilled' >= Reserve * Hour + (clock' - clock') * Limit
      BY <2>1, <1>0, <1>1, <1>4, <1>6
    <3> QED BY <3>1, <1>4 DEF ReserveAtLeast
  <2>2. CASE ~ (Refilled + Limit > Capacity)
    <3>1. PICK s \in 0 .. clock :
            WritesSince(s) * Hour + Refilled >= Reserve * Hour + (clock - s) * Limit
      BY DEF BucketInv, ReserveAtLeast
    <3>2. WritesSince(s)' * Hour + Refilled' >= Reserve * Hour + (clock' - s) * Limit
      BY <2>2, <3>1, <1>0, <1>1, <1>3, CountTypes
    <3> QED BY <3>2, <1>3 DEF ReserveAtLeast
  <2> QED BY <2>1, <2>2
<1>11. HintKept'
  <2>1. SUFFICES ASSUME hint # NoHint
                 PROVE  HintKept'
    BY <1>2 DEF HintKept, NoHint
  <2>2. /\ hint.all <= sent.all
        /\ sent.all = hint.all =>
              \/ Refilled = Capacity
              \/ Refilled >= Floor(hint.write) + Hour - (hint.at - clock) * Limit
    BY <2>1 DEF BucketInv, HintKept
  <2>3. hint.at \in Int /\ Floor(hint.write) \in Nat /\ Hour \in Nat
    BY CapacityNat, HourAssumption DEF TypeOK
  <2>4. /\ (hint.at - clock) * Limit \in Int
        /\ (hint.at - clock') * Limit + Limit = (hint.at - clock) * Limit
        /\ (hint.at - clock') * Limit \in Int
    <3>1. hint.at - clock' \in Int /\ (hint.at - clock') + 1 = hint.at - clock
      BY <2>3, <1>0, <1>2
    <3>2. ((hint.at - clock') + 1) * Limit = (hint.at - clock') * Limit + Limit
      BY <3>1, <1>0, OneMore
    <3> QED BY <3>1, <3>2, <1>0, <2>3, ProductInt
  <2>5. sent.all = hint.all =>
              \/ Refilled' = Capacity
              \/ Refilled' >= Floor(hint.write) + Hour - (hint.at - clock') * Limit
    BY <2>2, <2>3, <2>4, <1>0, <1>1
  <2> QED BY <2>2, <2>5, <1>2, <1>6 DEF HintKept, NoHint, Floor
<1> QED BY <1>7, <1>8, <1>9, <1>10, <1>11 DEF BucketInv

(* A refused attempt: the wait in its error covers what is missing.        *)
LEMMA RefuseStep ==
  ASSUME TypeOK, BucketInv, NEW c \in Clients, Refuse(c)
  PROVE  BucketInv'
<1> DEFINE w       == call[c].write
           missing == Floor(w) + Hour - Refilled
<1>0. /\ Refilled \in Nat /\ Refilled <= Capacity /\ Floor(w) \in Nat /\ Hour \in Nat
      /\ Limit \in Nat \ {0} /\ clock \in Int /\ missing \in Int
  <2>1. w \in BOOLEAN
    BY DEF TypeOK, Calls
  <2>2. Floor(w) \in Nat
    BY <2>1, CapacityNat
  <2> QED BY <2>2, LevelType, CountTypes, HourAssumption, LimitAssumption
<1>1. Refilled' = Refilled
  BY <1>0, LookedLevel DEF Refuse
<1>2. UNCHANGED <<clock, sent, sentAt>>
  BY DEF Refuse
<1>3. HintKept'
  <2>1. hint' = [at |-> clock + Wait(w), write |-> w, all |-> sent.all]
    BY DEF Refuse
  <2>2. Wait(w) \in Int /\ Wait(w) * Limit \in Int /\ Wait(w) * Limit >= missing
    <3>1. Wait(w) = (missing + Limit - 1) \div Limit
      BY DEF Wait
    <3>2. (missing + Limit - 1) \div Limit \in Int
      BY <1>0
    <3>3. ((missing + Limit - 1) \div Limit) * Limit >= missing
      BY <1>0, CeilingCovers
    <3> HIDE DEF missing, w
    <3> QED BY <3>1, <3>2, <3>3, <1>0, ProductInt
  <2>3. hint'.at - clock' = Wait(w) /\ hint'.write = w /\ hint'.all = sent'.all
    BY <2>1, <2>2, <1>0, <1>2
  <2>4. hint'.all <= sent'.all
    BY <2>3, <1>2 DEF TypeOK, Counts
  <2>5. Refilled' >= Floor(w) + Hour - (hint'.at - clock') * Limit
    BY <2>2, <2>3, <1>0, <1>1
  <2> QED BY <2>3, <2>4, <2>5 DEF HintKept, Floor
<1> QED BY <1>1, <1>2, <1>3, QuietStep DEF BucketInv

(* The inductive invariant: the level is what every past moment allows at  *)
(* most and what some past moment allows at least.                         *)
THEOREM BucketInvariant == Spec => []BucketInv
<1>1. Init => BucketInv
  <2> SUFFICES ASSUME Init PROVE BucketInv
    OBVIOUS
  <2>1. /\ clock = 0 /\ last = 0 /\ tokens = Capacity /\ hint = NoHint
        /\ sent = [all |-> 0, writes |-> 0]
        /\ sentAt = [s \in {0} |-> [all |-> 0, writes |-> 0]]
    BY DEF Init
  <2>2. Refilled = Capacity
    BY <2>1, CapacityNat, LimitAssumption DEF Refilled, Capped
  <2>3. /\ 0 .. clock = {0} /\ sentAt[0] = sent /\ sent.all = 0 /\ sent.writes = 0
        /\ SentSince(0) = 0 /\ WritesSince(0) = 0
        /\ (clock - 0) * Limit = 0 /\ 0 * Hour = 0
    BY <2>1, LimitAssumption, HourAssumption DEF SentSince, WritesSince
  <2>4. CountsGrow
    BY <2>3 DEF CountsGrow
  <2>5. LevelAtMost
    BY <2>2, <2>3, CapacityNat DEF LevelAtMost
  <2>6. LevelAtLeast
    BY <2>2, <2>3, CapacityNat DEF LevelAtLeast
  <2>7. ReserveAtLeast
    <3>1. Reserve * Hour \in Nat
      BY LimitAssumption, HourAssumption, ProductNat
    <3> QED BY <3>1, <2>2, <2>3, CapacityNat DEF ReserveAtLeast
  <2>8. HintKept
    BY <2>1 DEF HintKept
  <2> QED BY <2>4, <2>5, <2>6, <2>7, <2>8 DEF BucketInv
<1>2. ASSUME TypeOK, BucketInv, [Next]_vars PROVE BucketInv'
  <2> USE <1>2
  <2>1. CASE SecondPasses
    BY <2>1, SecondStep
  <2>2. ASSUME UNCHANGED <<clock, sent, sentAt, hint>>, Refilled' = Refilled
        PROVE  BucketInv'
    <3>1. HintKept'
      BY <2>2 DEF BucketInv, HintKept, Floor, Capacity
    <3> QED BY <2>2, <3>1, QuietStep DEF BucketInv
  <2>3. ASSUME NEW c \in Clients, NEW write \in BOOLEAN, Admit(c, write)
        PROVE  BucketInv'
    BY <2>2, <2>3, LevelType, LookedLevel DEF Admit
  <2>4. ASSUME NEW c \in Clients, NEW write \in BOOLEAN, RefuseEarly(c, write)
        PROVE  BucketInv'
    BY <2>2, <2>4, LevelType, LookedLevel DEF RefuseEarly
  <2>5. ASSUME NEW c \in Clients, Send(c) PROVE BucketInv'
    BY <2>5, SendStep
  <2>6. ASSUME NEW c \in Clients, Refuse(c) PROVE BucketInv'
    BY <2>6, RefuseStep
  <2>7. ASSUME NEW c \in Clients, Answer(c) \/ Retry(c) PROVE BucketInv'
    BY <2>2, <2>7 DEF Answer, Retry, Refilled
  <2>8. CASE UNCHANGED vars
    BY <2>2, <2>8 DEF vars, Refilled
  <2> QED BY <2>1, <2>3, <2>4, <2>5, <2>6, <2>7, <2>8 DEF Next
<1> QED BY <1>1, <1>2, TypeCorrect, PTL DEF Spec

-----------------------------------------------------------------------------
(* What it implies *)

(* In any stretch of time, at most a full bucket and its refill is sent.   *)
THEOREM SpendingBounded == Spec => []SpendingIsBounded
<1>1. TypeOK /\ BucketInv => SpendingIsBounded
  BY LevelType, CountTypes, CapacityNat DEF BucketInv, LevelAtMost, SpendingIsBounded
<1> QED BY <1>1, TypeCorrect, BucketInvariant, PTL

(* A read is refused only when the budget above the reserve is spent.      *)
THEOREM ReadsGetTheirBudget == Spec => []ReadsRefusedOnlyWhenSpent
<1>1. ASSUME TypeOK, BucketInv, ~ Allow(FALSE) PROVE ReadsRefusedOnlyWhenSpent
  <2>1. PICK s \in 0 .. clock :
          SentSince(s) * Hour + Refilled >= Capacity + (clock - s) * Limit
    BY <1>1 DEF BucketInv, LevelAtLeast
  <2>2. Refilled < Reserve * Hour + Hour
    BY <1>1, LevelType, CapacityNat, LimitAssumption, HourAssumption, ProductNat DEF Allow, Floor
  <2>3. /\ (SentSince(s) + 1 + Reserve) * Hour = SentSince(s) * Hour + Hour + Reserve * Hour
        /\ Reserve * Hour \in Nat /\ Hour \in Nat
    <3>1. SentSince(s) \in Int /\ SentSince(s) + 1 \in Int /\ Reserve \in Int /\ Hour \in Int
      BY <1>1, CountTypes, LimitAssumption, HourAssumption
    <3>2. (SentSince(s) + 1 + Reserve) * Hour = (SentSince(s) + 1) * Hour + Reserve * Hour
      BY <3>1, SumTimes
    <3>3. (SentSince(s) + 1) * Hour = SentSince(s) * Hour + Hour
      BY <3>1, OneMore
    <3>4. Reserve * Hour \in Nat
      BY LimitAssumption, HourAssumption, ProductNat
    <3> QED BY <3>2, <3>3, <3>4, HourAssumption
  <2>4. (SentSince(s) + 1 + Reserve) * Hour > Capacity + (clock - s) * Limit
    BY <1>1, <2>1, <2>2, <2>3, CountTypes, LevelType, CapacityNat
  <2> QED BY <2>4 DEF ReadsRefusedOnlyWhenSpent
<1>2. TypeOK /\ BucketInv => ReadsRefusedOnlyWhenSpent
  BY <1>1 DEF ReadsRefusedOnlyWhenSpent
<1> QED BY <1>2, TypeCorrect, BucketInvariant, PTL

(* Reads never starve the write reserve.                                   *)
THEOREM WritesKeepTheirReserve == Spec => []ReserveIsForWrites
<1>1. ASSUME TypeOK, BucketInv, ~ Allow(TRUE) PROVE ReserveIsForWrites
  <2>1. PICK s \in 0 .. clock :
          WritesSince(s) * Hour + Refilled >= Reserve * Hour + (clock - s) * Limit
    BY <1>1 DEF BucketInv, ReserveAtLeast
  <2>2. Refilled < Hour
    BY <1>1, LevelType, HourAssumption DEF Allow, Floor
  <2>3. (WritesSince(s) + 1) * Hour = WritesSince(s) * Hour + Hour
    BY <1>1, CountTypes, HourAssumption, OneMore
  <2>4. Reserve * Hour \in Nat
    BY LimitAssumption, HourAssumption, ProductNat
  <2>5. (WritesSince(s) + 1) * Hour > Reserve * Hour + (clock - s) * Limit
    BY <1>1, <2>1, <2>2, <2>3, <2>4, CountTypes, LevelType, HourAssumption
  <2> QED BY <2>5 DEF ReserveIsForWrites
<1>2. TypeOK /\ BucketInv => ReserveIsForWrites
  BY <1>1 DEF ReserveIsForWrites
<1> QED BY <1>2, TypeCorrect, BucketInvariant, PTL

(* The wait in a refusal is long enough.                                   *)
THEOREM HintsAreEnough == Spec => []HintIsEnough
<1>1. ASSUME TypeOK, BucketInv, hint # NoHint, clock >= hint.at, sent.all = hint.all,
             Floor(hint.write) + Hour <= Capacity
      PROVE  Allow(hint.write)
  <2>1. \/ Refilled = Capacity
        \/ Refilled >= Floor(hint.write) + Hour - (hint.at - clock) * Limit
    BY <1>1 DEF BucketInv, HintKept
  <2>2. clock - hint.at \in Nat /\ hint.at \in Int /\ clock \in Int
    BY <1>1, CountTypes DEF TypeOK
  <2>3. (clock - hint.at) * Limit \in Nat /\ (hint.at - clock) * Limit = - ((clock - hint.at) * Limit)
    BY <2>2, LimitAssumption, ProductNat
  <2>4. Floor(hint.write) \in Nat /\ Refilled \in Nat
    BY <1>1, CapacityNat, LevelType DEF TypeOK
  <2> QED BY <1>1, <2>1, <2>3, <2>4, HourAssumption, CapacityNat DEF Allow
<1>2. TypeOK /\ BucketInv => HintIsEnough
  BY <1>1 DEF HintIsEnough
<1> QED BY <1>2, TypeCorrect, BucketInvariant, PTL
=============================================================================
