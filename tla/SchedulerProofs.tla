-------------------------- MODULE SchedulerProofs --------------------------
(***************************************************************************)
(* What holds of serve's job loop and its reports for every set of jobs,   *)
(* every interval and however long a job takes; what holds if jobs are     *)
(* short beside the intervals; and, at the end, what holds of the status   *)
(* message that the loop updates.                                          *)
(***************************************************************************)
EXTENDS Scheduler, TLAPS

USE JobsAssumption

-----------------------------------------------------------------------------
(* Tickers and the loop's record *)

Tickers == [every : Nat \ {0}, left : Nat \ {0}, due : BOOLEAN]
Pcs     == {"down", "select", "job", "ping", "status", "health"}
Said    == {"none", "ok", "failed", "skipped", "cancelled"}
Loops   == [pc : Pcs, job : Jobs \cup {"none"}, ran : Nat, outcome : Said,
            first : BOOLEAN]

LEMMA Types ==
  ASSUME TypeOK
  PROVE  /\ ticker \in [Jobs -> Tickers] /\ \A j \in Jobs : ticker[j].left <= ticker[j].every
         /\ loop \in Loops /\ (loop.job \in Jobs => loop.ran <= MaxRun[loop.job])
         /\ tod \in 0 .. Day - 1 /\ ctx \in {"live", "ended"}
         /\ health \in 0 .. Stale /\ synced \in 0 .. Stale
         /\ told \in Said /\ ticked \in [Jobs -> BOOLEAN] /\ tonight \in 0 .. 2
         /\ upAllDay \in BOOLEAN /\ smooth \in BOOLEAN
  BY DEF TypeOK, Tickers, Loops, Pcs, Said

LEMMA Units == Every["sync"] \in Nat \ {0} /\ StaleAfter \in Nat /\ Stale \in Nat /\ Stale = StaleAfter + MaxRun["sync"] + 1
  BY DEF StaleAfter, Stale

LEMMA NewTickerIs ==
  ASSUME NEW n \in Nat \ {0}
  PROVE  /\ NewTicker(n) \in Tickers /\ NewTicker(n).left = n /\ NewTicker(n).every = n
         /\ ~ NewTicker(n).due
  BY DEF NewTicker, Tickers

LEMMA Nightly ==
  ASSUME TypeOK
  PROVE  NextDaily(tod) \in Nat \ {0} /\ NextDaily(tod) = Day - tod
  BY DEF TypeOK, NextDaily

LEMMA ArmedIs ==
  ASSUME TypeOK
  PROVE  /\ Armed \in [Jobs -> Tickers]
         /\ \A j \in Jobs : Armed[j].left <= Armed[j].every /\ ~ Armed[j].due
         /\ "backup" \in Jobs => Armed["backup"].left = NextDaily(tod)
<1> DEFINE n(j) == IF j = "backup" THEN NextDaily(tod) ELSE Every[j]
<1>1. \A j \in Jobs : n(j) \in Nat \ {0}
  BY Nightly
<1>2. Armed = [j \in Jobs |-> NewTicker(n(j))] /\ n("backup") = NextDaily(tod)
  BY DEF Armed
<1> HIDE DEF n
<1>3. \A j \in Jobs : /\ NewTicker(n(j)) \in Tickers /\ NewTicker(n(j)).left = n(j)
                      /\ NewTicker(n(j)).every = n(j) /\ ~ NewTicker(n(j)).due
  BY <1>1, NewTickerIs
<1> QED BY <1>1, <1>2, <1>3

LEMMA AdvanceIs ==
  ASSUME NEW t \in Tickers, t.left <= t.every
  PROVE  /\ Advance(t) \in Tickers /\ Advance(t).left <= Advance(t).every
         /\ Advance(t).due <=> (t.due \/ t.left = 1)
         /\ t.left # 1 => Advance(t).left = t.left - 1
<1>1. CASE t.left > 1
  <2>1. Advance(t) = [t EXCEPT !.left = t.left - 1]
    BY <1>1 DEF Advance, Tickers
  <2>2. t.left - 1 \in Nat \ {0} /\ t.left # 1
    BY <1>1 DEF Tickers
  <2>3. /\ Advance(t) \in Tickers /\ Advance(t).left = t.left - 1 /\ Advance(t).every = t.every
        /\ Advance(t).due <=> t.due
    BY <2>1, <2>2 DEF Tickers
  <2> QED BY <2>2, <2>3 DEF Tickers
<1>2. CASE ~ (t.left > 1)
  <2>1. Advance(t) = [t EXCEPT !.left = t.every, !.due = TRUE]
    BY <1>2 DEF Advance
  <2>2. t.left = 1
    BY <1>2 DEF Tickers
  <2>3. /\ Advance(t) \in Tickers /\ Advance(t).left = t.every /\ Advance(t).every = t.every
        /\ Advance(t).due
    BY <2>1 DEF Tickers
  <2> QED BY <2>2, <2>3 DEF Tickers
<1> QED BY <1>1, <1>2

LEMMA LoopPc ==
  ASSUME NEW l \in Loops, NEW pc \in Pcs
  PROVE  /\ [l EXCEPT !.pc = pc] \in Loops
         /\ [l EXCEPT !.pc = pc].pc = pc /\ [l EXCEPT !.pc = pc].job = l.job
         /\ [l EXCEPT !.pc = pc].ran = l.ran /\ [l EXCEPT !.pc = pc].outcome = l.outcome
         /\ [l EXCEPT !.pc = pc].first = l.first
  BY DEF Loops

LEMMA LoopOutcome ==
  ASSUME NEW l \in Loops, NEW outcome \in Said
  PROVE  /\ [l EXCEPT !.outcome = outcome] \in Loops
         /\ [l EXCEPT !.outcome = outcome].pc = l.pc /\ [l EXCEPT !.outcome = outcome].job = l.job
         /\ [l EXCEPT !.outcome = outcome].ran = l.ran
         /\ [l EXCEPT !.outcome = outcome].outcome = outcome
  BY DEF Loops

LEMMA IdleIs ==
  /\ Idle \in Loops /\ Idle.pc = "select" /\ Idle.job = "none" /\ Idle.outcome = "none"
  /\ Idle.ran = 0 /\ Idle.first = FALSE
  /\ Down \in Loops /\ Down.pc = "down" /\ Down.job = "none" /\ Down.outcome = "none"
<1>1. /\ Idle \in Loops /\ Idle.pc = "select" /\ Idle.job = "none" /\ Idle.outcome = "none"
      /\ Idle.ran = 0 /\ Idle.first = FALSE
  BY DEF Idle, Loops, Pcs, Said
<1>2. "down" \in Pcs
  BY DEF Pcs
<1>3. PICK i : i = Idle
  OBVIOUS
<1>4. Down = [i EXCEPT !.pc = "down"]
  BY <1>3 DEF Down
<1> QED BY <1>1, <1>2, <1>3, <1>4, LoopPc

LEMMA RunIs ==
  ASSUME NEW j \in Jobs, NEW first \in BOOLEAN
  PROVE  /\ Run(j, first) \in Loops /\ Run(j, first).pc = "job" /\ Run(j, first).job = j
         /\ Run(j, first).outcome = "none" /\ Run(j, first).ran = 0 /\ Run(j, first).first = first
<1>1. PICK i : i = Idle
  OBVIOUS
<1>2. i \in Loops /\ i.outcome = "none" /\ i.ran = 0 /\ "job" \in Pcs
  BY <1>1, IdleIs DEF Pcs
<1>3. Run(j, first) = [i EXCEPT !.pc = "job", !.job = j, !.first = first]
  BY <1>1 DEF Run
<1> QED BY <1>2, <1>3 DEF Loops

-----------------------------------------------------------------------------
(* The steps *)

(* What is left to show when a job and its reports are done. *)
LEMMA FinishedDoes ==
  ASSUME TypeOK, ScheduleInv, NEW j \in Jobs, loop.job = j, Finished(j),
         UNCHANGED <<tod, ctx, tonight, upAllDay>>,
         told' \in Said \ {"cancelled"}, health' \in 0 .. Stale, synced' \in 0 .. Stale,
         smooth' \in BOOLEAN, health' < Stale => synced' <= health' + MaxRun["sync"]
  PROVE  TypeOK' /\ ScheduleInv'
<1>1. /\ ticker' \in [Jobs -> Tickers]
      /\ ~ ticker'[j].due
      /\ \A k \in Jobs : ticker'[k].left <= ticker'[k].every
      /\ \A k \in Jobs : k # j => ticker'[k] = ticker[k]
      /\ j = "backup" => ticker'[j].left = NextDaily(tod)
  <2>1. CASE j = "backup"
    <3>1. ticker' = [ticker EXCEPT ![j] = NewTicker(NextDaily(tod))]
      BY <2>1 DEF Finished, AfterJob
    <3>2. /\ NewTicker(NextDaily(tod)) \in Tickers /\ NewTicker(NextDaily(tod)).left = NextDaily(tod)
          /\ NewTicker(NextDaily(tod)).every = NextDaily(tod) /\ ~ NewTicker(NextDaily(tod)).due
      BY Nightly, NewTickerIs
    <3> QED BY <3>1, <3>2, Types, Nightly
  <2>2. CASE j # "backup"
    <3>1. ticker' = [ticker EXCEPT ![j].due = FALSE]
      BY <2>2 DEF Finished, AfterJob
    <3>2. PICK t \in Tickers : t = ticker[j]
      BY Types
    <3>3. PICK u : u = [t EXCEPT !.due = FALSE]
      OBVIOUS
    <3>4. u \in Tickers /\ ~ u.due /\ u.left = t.left /\ u.every = t.every
      BY <3>3 DEF Tickers
    <3>5. ticker' = [ticker EXCEPT ![j] = u]
      BY <3>1, <3>2, <3>3
    <3> QED BY <2>2, <3>2, <3>4, <3>5, Types
  <2> QED BY <2>1, <2>2
<1>2. /\ ticked' \in [Jobs -> BOOLEAN]
      /\ \A k \in Jobs : k # j => ticked'[k] = ticked[k]
  BY Types DEF Finished
<1>3. /\ loop' \in Loops /\ loop'.outcome = "none" /\ loop'.ran = 0
      /\ \/ loop'.pc = "select" /\ loop'.job = "none"
         \/ loop'.pc = "job" /\ loop'.job = "sync"
  BY IdleIs, RunIs DEF Finished
<1>4. TypeOK'
  BY <1>1, <1>2, <1>3 DEF TypeOK, Tickers, Loops, Pcs, Said
<1>5. LoopInv'
  <2>1. "sync" # "none" /\ loop'.pc \notin {"down", "ping", "status", "health"}
    BY <1>3
  <2> QED BY <1>3, <2>1 DEF LoopInv, ShutdownReportsNothing
<1>6. TickInv'
  BY <1>1, <1>2 DEF ScheduleInv, TickInv
<1>7. NightInv'
  <2>1. NextDaily(tod)' = NextDaily(tod) /\ OneBackupPerNight'
    BY DEF NextDaily, ScheduleInv, NightInv, OneBackupPerNight
  <2>2. CASE j = "backup"
    BY <1>1, <2>1, <2>2 DEF NightInv
  <2>3. CASE j # "backup"
    <3>1. Serving
      BY DEF ScheduleInv, LoopInv, Serving
    <3> QED BY <1>1, <2>1, <2>3, <3>1 DEF ScheduleInv, NightInv
  <2> QED BY <2>2, <2>3
<1>8. FreshInv'
  BY <1>3 DEF FreshInv, Stale, StaleAfter
<1> QED BY <1>4, <1>5, <1>6, <1>7, <1>8 DEF ScheduleInv

(* And when only the loop has moved on within its job. *)
LEMMA MovedOn ==
  ASSUME TypeOK, ScheduleInv, UNCHANGED <<tod, ticker, ticked, tonight, health, upAllDay, ctx>>,
         loop' \in Loops, loop'.job = loop.job, loop'.ran = loop.ran, loop.job # "none", loop'.pc \notin {"down", "select"},
         loop'.pc \in {"ping", "health"} => loop.job = "sync",
         loop'.pc = "status" => loop.job \in {"sync", "backup"},
         loop'.outcome = "cancelled" => ctx = "ended",
         told' \in Said \ {"cancelled"}, synced' \in 0 .. Stale, smooth' \in BOOLEAN,
         synced' <= synced,
         loop'.job = "sync" /\ loop'.outcome = "ok" => synced' <= loop'.ran
  PROVE  TypeOK' /\ ScheduleInv'
<1>1. TypeOK'
  BY DEF TypeOK, Loops, Pcs, Said
<1>2. LoopInv'
  BY DEF ScheduleInv, LoopInv, ShutdownReportsNothing
<1>3. TickInv'
  BY DEF ScheduleInv, TickInv
<1>4. NightInv'
  <2>1. Serving
    BY DEF ScheduleInv, LoopInv, Serving
  <2> QED BY <2>1 DEF ScheduleInv, NightInv, OneBackupPerNight, NextDaily
<1>5. FreshInv'
  BY Types DEF ScheduleInv, FreshInv, Stale, StaleAfter
<1> QED BY <1>1, <1>2, <1>3, <1>4, <1>5 DEF ScheduleInv

LEMMA BootStep ==
  ASSUME TypeOK, ScheduleInv, Boot PROVE TypeOK' /\ ScheduleInv'
<1>1. /\ UNCHANGED <<tod, health, synced, told, ticked, tonight, upAllDay, smooth>>
      /\ ticker' = Armed /\ ctx' = "live"
  BY DEF Boot
<1>2. /\ loop' \in Loops /\ loop'.pc = "job" /\ loop'.job \in {"prune", "sync"} \cap Jobs
      /\ loop'.outcome = "none" /\ loop'.ran = 0
  <2>1. \A j \in Jobs : /\ Run(j, TRUE) \in Loops /\ Run(j, TRUE).pc = "job" /\ Run(j, TRUE).job = j
                        /\ Run(j, TRUE).outcome = "none" /\ Run(j, TRUE).ran = 0
    BY RunIs
  <2>2. PICK j \in {"prune", "sync"} \cap Jobs : loop' = Run(j, TRUE)
    <3>1. CASE "prune" \in Jobs
      BY <3>1 DEF Boot
    <3>2. CASE "prune" \notin Jobs
      BY <3>2 DEF Boot
    <3> QED BY <3>1, <3>2
  <2>3. PICK l : l = Run(j, TRUE)
    OBVIOUS
  <2>4. l \in Loops /\ l.pc = "job" /\ l.job = j /\ l.outcome = "none" /\ l.ran = 0
    <3>1. j \in Jobs
      OBVIOUS
    <3> QED BY <2>1, <2>3, <3>1
  <2>5. loop' = l
    BY <2>2, <2>3
  <2> HIDE <2>1, <2>2, <2>3
  <2> QED BY <2>4, <2>5
<1>3. TypeOK'
  BY <1>1, <1>2, ArmedIs DEF TypeOK, Tickers, Loops, Pcs, Said
<1>4. LoopInv'
  BY <1>1, <1>2 DEF ScheduleInv, LoopInv, ShutdownReportsNothing
<1>5. TickInv'
  BY <1>1, ArmedIs DEF TickInv
<1>6. NightInv'
  BY <1>1, ArmedIs DEF ScheduleInv, NightInv, OneBackupPerNight, NextDaily
<1>7. FreshInv'
  BY <1>1, <1>2 DEF ScheduleInv, FreshInv, Stale, StaleAfter
<1> QED BY <1>3, <1>4, <1>5, <1>6, <1>7 DEF ScheduleInv

LEMMA GoneStep ==
  ASSUME TypeOK, ScheduleInv, Gone PROVE TypeOK' /\ ScheduleInv'
<1>1. /\ UNCHANGED <<tod, synced, tonight>>
      /\ ticker' = Armed /\ loop' = Down /\ ctx' = "ended" /\ health' = Stale /\ told' = "none"
      /\ ticked' = [j \in Jobs |-> FALSE] /\ upAllDay' = FALSE /\ smooth' = FALSE
  BY DEF Gone
<1>2. TypeOK'
  <2>1. health' \in (0 .. Stale)' /\ synced' \in (0 .. Stale)'
    BY <1>1, Types, Units DEF Stale, StaleAfter
  <2>2. loop' \in Loops /\ ticked' \in [Jobs -> BOOLEAN] /\ upAllDay' \in BOOLEAN /\ smooth' \in BOOLEAN
    BY <1>1, IdleIs
  <2>3. tod' \in 0 .. Day - 1 /\ tonight' \in 0 .. 2
    BY <1>1, Types
  <2>4. ticker' \in [Jobs -> Tickers] /\ \A j \in Jobs : ticker'[j].left <= ticker'[j].every
    BY <1>1, ArmedIs
  <2>5. ctx' \in {"live", "ended"} /\ told' \in Said
    BY <1>1 DEF Said
  <2>6. loop'.job \notin Jobs
    BY <1>1, IdleIs
  <2> QED BY <2>1, <2>2, <2>3, <2>4, <2>5, <2>6 DEF TypeOK, Tickers, Loops, Pcs, Said
<1>3. LoopInv'
  BY <1>1, IdleIs DEF LoopInv, ShutdownReportsNothing
<1>4. TickInv'
  BY <1>1, ArmedIs DEF TickInv
<1>5. NightInv'
  BY <1>1, IdleIs DEF ScheduleInv, NightInv, OneBackupPerNight, Serving
<1>6. FreshInv'
  BY <1>1, IdleIs, Units DEF FreshInv, Stale, StaleAfter
<1> QED BY <1>2, <1>3, <1>4, <1>5, <1>6 DEF ScheduleInv

LEMMA StartStep ==
  ASSUME TypeOK, ScheduleInv, NEW j \in Jobs, Start(j) PROVE TypeOK' /\ ScheduleInv'
<1>1. /\ UNCHANGED <<tod, ctx, health, synced, told, ticked, upAllDay, smooth>>
      /\ loop.pc = "select" /\ ticker[j].due
      /\ ticker' = [ticker EXCEPT ![j].due = FALSE]
      /\ loop' = Run(j, FALSE)
      /\ tonight' = IF j = "backup" /\ tonight < 2 THEN tonight + 1 ELSE tonight
  BY DEF Start
<1>2. loop' \in Loops /\ loop'.pc = "job" /\ loop'.job = j /\ loop'.outcome = "none" /\ loop'.ran = 0
  BY <1>1, RunIs
<1>3. /\ ticker' \in [Jobs -> Tickers]
      /\ ~ ticker'[j].due
      /\ \A k \in Jobs : ticker'[k].left <= ticker'[k].every
      /\ \A k \in Jobs : k # j => ticker'[k] = ticker[k]
  <2>1. PICK t \in Tickers : t = ticker[j] /\ t.left <= t.every
    BY Types
  <2>2. PICK u : u = [t EXCEPT !.due = FALSE]
    OBVIOUS
  <2>3. u \in Tickers /\ ~ u.due /\ u.left = t.left /\ u.every = t.every
    BY <2>2 DEF Tickers
  <2>4. ticker' = [ticker EXCEPT ![j] = u]
    BY <1>1, <2>1, <2>2
  <2>5. /\ ticker' \in [Jobs -> Tickers] /\ ticker'[j] = u
        /\ \A k \in Jobs : k # j => ticker'[k] = ticker[k]
    BY <2>3, <2>4, Types
  <2>6. u.left <= u.every
    BY <2>1, <2>3
  <2>7. ASSUME NEW k \in Jobs PROVE ticker'[k].left <= ticker'[k].every
    <3>1. CASE k = j
      BY <3>1, <2>5, <2>6
    <3>2. CASE k # j
      <4>1. ticker'[k] = ticker[k] /\ ticker[k].left <= ticker[k].every
        BY <3>2, <2>5, Types
      <4> QED BY <4>1
    <3> QED BY <3>1, <3>2
  <2> QED BY <2>3, <2>5, <2>7
<1>4. TypeOK'
  <2>1. tonight' \in 0 .. 2
    BY <1>1, Types
  <2>2. loop'.ran <= MaxRun[j]
    <3>1. \A m \in Nat : 0 <= m
      OBVIOUS
    <3> QED BY <1>2, <3>1
  <2> QED BY <1>1, <1>2, <1>3, <2>1, <2>2 DEF TypeOK, Tickers, Loops, Pcs, Said
<1>5. LoopInv'
  BY <1>1, <1>2 DEF ScheduleInv, LoopInv, ShutdownReportsNothing
<1>6. loop.job = "none" /\ Serving
  BY <1>1 DEF ScheduleInv, LoopInv, Serving
<1>7. TickInv'
  BY <1>1, <1>2, <1>3, <1>6 DEF ScheduleInv, TickInv
<1>8. NightInv'
  <2>1. CASE j = "backup"
    <3>1. tonight = 0
      BY <1>1, <1>6, <2>1 DEF ScheduleInv, NightInv
    <3>2. tonight' = 1
      BY <1>1, <2>1, <3>1
    <3> QED BY <1>2, <2>1, <3>2 DEF NightInv, OneBackupPerNight
  <2>2. CASE j # "backup"
    BY <1>1, <1>3, <1>6, <2>2 DEF ScheduleInv, NightInv, OneBackupPerNight, NextDaily
  <2> QED BY <2>1, <2>2
<1>9. FreshInv'
  BY <1>1, <1>2 DEF ScheduleInv, FreshInv, Stale, StaleAfter
<1> QED BY <1>4, <1>5, <1>7, <1>8, <1>9 DEF ScheduleInv

LEMMA FinishStep ==
  ASSUME TypeOK, ScheduleInv, NEW j \in Jobs, NEW o \in {"ok", "failed", "skipped", "cancelled"},
         Finish(j, o)
  PROVE  TypeOK' /\ ScheduleInv'
<1>1. /\ loop.pc = "job" /\ loop.job = j /\ o \in Outcomes(j)
      /\ UNCHANGED <<tod, ctx, health, told, tonight, upAllDay>>
  BY DEF Finish
<1>2. /\ loop \in Loops /\ loop.job # "none" /\ told \in Said \ {"cancelled"} /\ o \in Said
      /\ loop.ran \in Nat /\ synced \in 0 .. Stale /\ health \in 0 .. Stale /\ Stale \in Nat
  BY <1>1, Types, Units DEF ScheduleInv, LoopInv, ShutdownReportsNothing, Said, Loops
<1>3. o = "cancelled" => ctx = "ended"
  BY <1>1 DEF Outcomes
<1>4. CASE j = "sync"
  <2>1. /\ loop' = [loop EXCEPT !.pc = "ping", !.outcome = o]
        /\ synced' = IF o = "ok" THEN 0 ELSE synced
        /\ smooth' = (smooth /\ o = "ok")
        /\ UNCHANGED <<ticker, ticked>>
    BY <1>4 DEF Finish
  <2>2. "ping" \in Pcs
    BY DEF Pcs
  <2>3. /\ loop' \in Loops /\ loop'.pc = "ping" /\ loop'.job = "sync" /\ loop'.ran = loop.ran
        /\ loop'.outcome = o
    <3>1. loop \in Loops /\ o \in Said /\ loop.job = "sync"
      BY <1>1, <1>2, <1>4
    <3>2. PICK l : l = [loop EXCEPT !.pc = "ping"]
      OBVIOUS
    <3>3. l \in Loops /\ l.pc = "ping" /\ l.job = loop.job /\ l.ran = loop.ran
      BY <2>2, <3>1, <3>2, LoopPc
    <3>4. loop' = [l EXCEPT !.outcome = o]
      BY <2>1, <3>2
    <3> QED BY <3>1, <3>3, <3>4, LoopOutcome
  <2>4. smooth' \in BOOLEAN /\ synced' \in 0 .. Stale /\ synced' <= synced
    BY <1>2, <2>1
  <2> QED BY <1>1, <1>2, <1>3, <1>4, <2>1, <2>3, <2>4, MovedOn
<1>5. CASE j = "backup"
  <2>1. /\ loop' = [loop EXCEPT !.pc = "status", !.outcome = o]
        /\ UNCHANGED <<ticker, ticked, synced, smooth>>
    BY <1>5 DEF Finish
  <2>2. "status" \in Pcs
    BY DEF Pcs
  <2>3. /\ loop' \in Loops /\ loop'.pc = "status" /\ loop'.job = "backup"
        /\ loop'.outcome = o
    <3>1. loop \in Loops /\ o \in Said /\ loop.job = "backup"
      BY <1>1, <1>2, <1>5
    <3>2. PICK l : l = [loop EXCEPT !.pc = "status"]
      OBVIOUS
    <3>3. l \in Loops /\ l.pc = "status" /\ l.job = loop.job /\ l.ran = loop.ran
      BY <2>2, <3>1, <3>2, LoopPc
    <3>4. loop' = [l EXCEPT !.outcome = o]
      BY <2>1, <3>2
    <3> QED BY <3>1, <3>3, <3>4, LoopOutcome
  <2>4. smooth \in BOOLEAN /\ synced <= synced
    BY <1>2, Types
  <2> QED BY <1>1, <1>2, <1>3, <1>5, <2>1, <2>3, <2>4, MovedOn
<1>6. CASE j \notin {"sync", "backup"}
  <2>1. Finished(j) /\ UNCHANGED <<synced, smooth>>
    BY <1>6 DEF Finish
  <2>2. health < Stale => synced <= health + MaxRun["sync"]
    BY DEF ScheduleInv, FreshInv
  <2> QED BY <1>1, <1>2, <2>1, <2>2, Types, FinishedDoes
<1> QED BY <1>4, <1>5, <1>6

LEMMA PingStep ==
  ASSUME TypeOK, ScheduleInv, Ping PROVE TypeOK' /\ ScheduleInv'
<1>1. /\ loop.pc = "ping" /\ loop' = [loop EXCEPT !.pc = "status"]
      /\ told' = IF ctx = "live" /\ loop.outcome # "skipped" THEN loop.outcome ELSE told
      /\ UNCHANGED <<tod, ticker, ctx, health, synced, ticked, tonight, upAllDay, smooth>>
  BY DEF Ping
<1>2. loop \in Loops /\ "status" \in Pcs /\ loop.outcome \in Said
  BY Types DEF Pcs, Loops
<1>3. loop.job = "sync" /\ (loop.outcome = "cancelled" => ctx = "ended") /\ told # "cancelled"
  BY <1>1 DEF ScheduleInv, LoopInv, ShutdownReportsNothing
<1>4. /\ loop' \in Loops /\ loop'.pc = "status" /\ loop'.job = loop.job /\ loop'.ran = loop.ran
      /\ loop'.outcome = loop.outcome
  BY <1>1, <1>2, LoopPc
<1>5. told' \in Said \ {"cancelled"}
  BY <1>1, <1>2, <1>3, Types
<1>6. synced \in 0 .. Stale /\ smooth \in BOOLEAN /\ synced <= synced
  BY Types, Units
<1>7. loop.outcome = "ok" => synced <= loop.ran
  BY <1>3 DEF ScheduleInv, FreshInv
<1> QED BY <1>1, <1>3, <1>4, <1>5, <1>6, <1>7, MovedOn

LEMMA StatusStep ==
  ASSUME TypeOK, ScheduleInv, Status PROVE TypeOK' /\ ScheduleInv'
<1>1. /\ loop.pc = "status" /\ told' = (IF ctx = "live" THEN loop.outcome ELSE told)
      /\ UNCHANGED <<tod, ctx, health, synced, tonight, upAllDay, smooth>>
  BY DEF Status
<1>2. loop \in Loops /\ "health" \in Pcs /\ loop.outcome \in Said /\ loop.job \in Jobs \cup {"none"}
  BY Types DEF Pcs, Loops
<1>3. /\ loop.job \in {"sync", "backup"} /\ (loop.outcome = "cancelled" => ctx = "ended")
      /\ told # "cancelled"
  BY <1>1 DEF ScheduleInv, LoopInv, ShutdownReportsNothing
<1>4. told' \in Said \ {"cancelled"}
  BY <1>1, <1>2, <1>3, Types
<1>5. synced \in 0 .. Stale /\ smooth \in BOOLEAN /\ synced <= synced /\ health \in 0 .. Stale
  BY Types, Units
<1>6. CASE loop.job = "sync"
  <2>1. loop' = [loop EXCEPT !.pc = "health"] /\ UNCHANGED <<ticker, ticked>>
    BY <1>6 DEF Status
  <2>2. /\ loop' \in Loops /\ loop'.pc = "health" /\ loop'.job = loop.job /\ loop'.ran = loop.ran
        /\ loop'.outcome = loop.outcome
    BY <1>2, <2>1, LoopPc
  <2>3. loop.outcome = "ok" => synced <= loop.ran
    BY <1>6 DEF ScheduleInv, FreshInv
  <2> QED BY <1>1, <1>3, <1>4, <1>5, <1>6, <2>1, <2>2, <2>3, MovedOn
<1>7. CASE loop.job # "sync"
  <2>1. Finished(loop.job) /\ loop.job \in Jobs
    BY <1>2, <1>3, <1>7 DEF Status
  <2>2. health < Stale => synced <= health + MaxRun["sync"]
    BY DEF ScheduleInv, FreshInv
  <2> QED BY <1>1, <1>4, <1>5, <2>1, <2>2, FinishedDoes
<1> QED BY <1>6, <1>7

LEMMA RecordStep ==
  ASSUME TypeOK, ScheduleInv, Record PROVE TypeOK' /\ ScheduleInv'
<1>1. /\ loop.pc = "health" /\ Finished("sync") /\ UNCHANGED <<tod, ctx, synced, tonight, upAllDay>>
  BY DEF Record
<1>2. /\ loop.job = "sync" /\ (loop.outcome = "cancelled" => ctx = "ended") /\ told # "cancelled"
      /\ (loop.outcome = "ok" => synced <= loop.ran)
      /\ (health < Stale => synced <= health + MaxRun["sync"])
  BY <1>1 DEF ScheduleInv, LoopInv, FreshInv, ShutdownReportsNothing
<1>3. loop.outcome \in Said /\ loop.ran \in Nat /\ (loop.job \in Jobs => loop.ran <= MaxRun[loop.job])
  BY Types DEF Loops
<1>4. synced \in 0 .. Stale /\ smooth \in BOOLEAN /\ health \in 0 .. Stale /\ told \in Said /\ Stale \in Nat
  BY Types, Units
<1>5. CASE ctx = "live"
  <2>1. /\ health' = Recorded(loop.outcome)
        /\ told' = loop.outcome
        /\ smooth' = (smooth \/ loop.outcome = "ok")
    BY <1>5 DEF Record
  <2>2. told' \in Said \ {"cancelled"} /\ smooth' \in BOOLEAN
    BY <1>2, <1>3, <1>4, <1>5, <2>1
  <2>3. health' \in 0 .. Stale /\ (health' < Stale => synced <= health' + MaxRun["sync"])
    BY <1>2, <1>3, <1>4, <2>1 DEF Recorded
  <2> QED BY <1>1, <1>2, <1>4, <2>2, <2>3, FinishedDoes
<1>6. CASE ctx # "live"
  <2>1. UNCHANGED <<health, told, smooth>>
    BY <1>6 DEF Record
  <2> QED BY <1>1, <1>2, <1>4, <2>1, FinishedDoes
<1> QED BY <1>5, <1>6

LEMMA ShutdownStep ==
  ASSUME TypeOK, ScheduleInv, Shutdown PROVE TypeOK' /\ ScheduleInv'
<1>1. /\ UNCHANGED <<tod, ticker, loop, health, synced, told, ticked, tonight, upAllDay, smooth>>
      /\ ctx' = "ended"
  BY DEF Shutdown
<1>2. TypeOK'
  BY <1>1 DEF TypeOK, Stale, StaleAfter
<1>3. LoopInv' /\ TickInv'
  BY <1>1 DEF ScheduleInv, LoopInv, TickInv, ShutdownReportsNothing
<1>4. NightInv'
  BY <1>1 DEF ScheduleInv, NightInv, OneBackupPerNight, NextDaily, Serving
<1>5. FreshInv'
  BY <1>1 DEF ScheduleInv, FreshInv, Stale, StaleAfter
<1> QED BY <1>2, <1>3, <1>4, <1>5 DEF ScheduleInv

LEMMA Clock ==
  ASSUME NEW t \in 0 .. Day - 1
  PROVE  (t + 1) % Day = IF t = Day - 1 THEN 0 ELSE t + 1
<1>1. CASE t = Day - 1
  BY <1>1
<1>2. CASE t # Day - 1
  <2>1. t + 1 \in 0 .. Day - 1
    BY <1>2
  <2> QED BY <1>2, <2>1
<1> QED BY <1>1, <1>2

LEMMA TimeStep ==
  ASSUME TypeOK, ScheduleInv, TimePasses PROVE TypeOK' /\ ScheduleInv'
<1>1. /\ MayWait /\ tod' = (tod + 1) % Day
      /\ loop' = IF loop.job = "none" THEN loop ELSE [loop EXCEPT !.ran = @ + 1]
      /\ health' = Older(health) /\ synced' = Older(synced)
      /\ tonight' = IF tod' = 0 THEN 0 ELSE tonight
      /\ upAllDay' = IF tod' = 0 THEN Serving ELSE upAllDay
      /\ UNCHANGED <<ctx, told, smooth>>
  BY DEF TimePasses
<1>2. /\ tod \in 0 .. Day - 1 /\ loop \in Loops /\ ticker \in [Jobs -> Tickers]
      /\ \A j \in Jobs : ticker[j].left <= ticker[j].every
      /\ ticked \in [Jobs -> BOOLEAN] /\ health \in 0 .. Stale /\ synced \in 0 .. Stale
      /\ tonight \in 0 .. 2 /\ upAllDay \in BOOLEAN
      /\ StaleAfter \in Nat /\ Stale \in Nat
  BY Types, Units
<1>3. tod' = (IF tod = Day - 1 THEN 0 ELSE tod + 1) /\ tod' \in 0 .. Day - 1
  BY <1>1, <1>2, Clock
<1>4. /\ loop' \in Loops /\ loop'.pc = loop.pc /\ loop'.job = loop.job /\ loop'.outcome = loop.outcome
      /\ loop.job # "none" => loop'.ran = loop.ran + 1 /\ loop'.ran <= MaxRun[loop.job]
  <2>1. CASE loop.job = "none"
    BY <1>1, <1>2, <2>1
  <2>2. CASE loop.job # "none"
    <3>1. loop.ran < MaxRun[loop.job] /\ loop.job \in Jobs
      BY <1>1, <1>2, <2>2 DEF MayWait, Serving, ScheduleInv, LoopInv, Loops
    <3>2. PICK l \in Loops : l = loop
      BY <1>2
    <3>5. PICK m \in Nat : m = MaxRun[loop.job] /\ loop.ran < m
      BY <3>1
    <3>3. loop' = [l EXCEPT !.ran = l.ran + 1] /\ l.ran + 1 \in Nat /\ l.ran + 1 <= m
      BY <1>1, <2>2, <3>2, <3>5 DEF Loops
    <3>4. /\ loop' \in Loops /\ loop'.pc = l.pc /\ loop'.job = l.job /\ loop'.outcome = l.outcome
          /\ loop'.ran = l.ran + 1
      BY <3>3 DEF Loops
    <3> QED BY <3>2, <3>3, <3>4, <3>5
  <2> QED BY <2>1, <2>2
<1>5. /\ health' \in 0 .. Stale /\ synced' \in 0 .. Stale
      /\ synced' <= synced + 1 /\ (health' < Stale => health' = health + 1)
  BY <1>1, <1>2 DEF Older
<1>6. /\ tonight' \in 0 .. 2 /\ upAllDay' \in BOOLEAN
      /\ tonight' = 0 \/ tonight' = tonight
  <2>1. tonight' \in 0 .. 2 /\ (tonight' = 0 \/ tonight' = tonight)
    BY <1>1, <1>2
  <2>2. upAllDay' \in BOOLEAN
    <3>1. upAllDay' = (loop.pc # "down") \/ upAllDay' = upAllDay
      BY <1>1 DEF Serving
    <3> QED BY <1>2, <3>1
  <2> QED BY <2>1, <2>2
<1>7. Serving => /\ ticker' = [j \in Jobs |-> Advance(ticker[j])]
                 /\ ticked' = [j \in Jobs |-> ticked[j] \/ (ticker[j].left = 1 /\ loop.job # j)]
  BY DEF TimePasses
<1>8. ~ Serving => UNCHANGED <<ticker, ticked>>
  BY DEF TimePasses
<1>9. \A j \in Jobs : /\ Advance(ticker[j]) \in Tickers /\ Advance(ticker[j]).left <= Advance(ticker[j]).every
                      /\ Advance(ticker[j]).due <=> (ticker[j].due \/ ticker[j].left = 1)
                      /\ ticker[j].left # 1 => Advance(ticker[j]).left = ticker[j].left - 1
  BY <1>2, AdvanceIs
<1>10. /\ ticker' \in [Jobs -> Tickers] /\ \A j \in Jobs : ticker'[j].left <= ticker'[j].every
       /\ ticked' \in [Jobs -> BOOLEAN]
  <2>1. CASE Serving
    <3>1. \A j \in Jobs : (ticked[j] \/ (ticker[j].left = 1 /\ loop.job # j)) \in BOOLEAN
      BY <1>2
    <3>2. ticked' \in [Jobs -> BOOLEAN]
      <4> DEFINE was(j) == ticked[j] \/ (ticker[j].left = 1 /\ loop.job # j)
      <4>1. ticked' = [j \in Jobs |-> was(j)] /\ \A j \in Jobs : was(j) \in BOOLEAN
        BY <1>7, <2>1, <3>1
      <4> HIDE DEF was
      <4> QED BY <4>1
    <3>3. ticker' \in [Jobs -> Tickers] /\ \A j \in Jobs : ticker'[j].left <= ticker'[j].every
      BY <1>7, <1>9, <2>1
    <3> QED BY <3>2, <3>3
  <2>2. CASE ~ Serving
    BY <1>2, <1>8, <2>2
  <2> QED BY <2>1, <2>2
<1>11. TypeOK'
  <2>1. health' \in (0 .. Stale)' /\ synced' \in (0 .. Stale)'
    BY <1>5 DEF Stale, StaleAfter
  <2>2. ctx' \in {"live", "ended"} /\ told' \in Said /\ smooth' \in BOOLEAN
    BY <1>1, Types
  <2> QED BY <1>3, <1>4, <1>6, <1>10, <2>1, <2>2 DEF TypeOK, Tickers, Loops, Pcs, Said
<1>12. LoopInv'
  BY <1>1, <1>4 DEF ScheduleInv, LoopInv, ShutdownReportsNothing
<1>13. TickInv'
  <2>1. CASE Serving
    <3>1. \A j \in Jobs : /\ ticker'[j].due <=> (ticker[j].due \/ ticker[j].left = 1)
                          /\ ticked'[j] = (ticked[j] \/ (ticker[j].left = 1 /\ loop.job # j))
      BY <1>7, <1>9, <2>1
    <3> QED BY <1>4, <3>1 DEF ScheduleInv, TickInv
  <2>2. CASE ~ Serving
    BY <1>4, <1>8, <2>2 DEF ScheduleInv, TickInv
  <2> QED BY <2>1, <2>2
<1>14. NightInv'
  <2>1. OneBackupPerNight'
    BY <1>6 DEF ScheduleInv, NightInv, OneBackupPerNight
  <2>2. ASSUME "backup" \in Jobs, Serving, loop.job # "backup"
        PROVE  \/ ticker'["backup"].due /\ tonight' = 0
               \/ ~ ticker'["backup"].due /\ ticker'["backup"].left = NextDaily(tod')
    <3>1. /\ ticker'["backup"].due <=> (ticker["backup"].due \/ ticker["backup"].left = 1)
          /\ ticker["backup"].left # 1 => ticker'["backup"].left = ticker["backup"].left - 1
      BY <1>7, <1>9, <2>2
    <3>2. CASE ticker["backup"].due /\ tonight = 0
      BY <1>6, <3>1, <3>2
    <3>3. CASE ~ ticker["backup"].due /\ ticker["backup"].left = NextDaily(tod)
      <4>1. ticker["backup"].left = Day - tod
        BY <3>3 DEF NextDaily
      <4>2. CASE tod = Day - 1
        <5>1. ticker["backup"].left = 1 /\ tonight' = 0
          BY <1>1, <1>3, <4>1, <4>2
        <5> QED BY <3>1, <5>1
      <4>3. CASE tod # Day - 1
        BY <1>2, <1>3, <3>1, <3>3, <4>1, <4>3 DEF NextDaily
      <4> QED BY <4>2, <4>3
    <3> QED BY <2>2, <3>2, <3>3 DEF ScheduleInv, NightInv
  <2>3. Serving' = Serving
    BY <1>4 DEF Serving
  <2> QED BY <1>4, <2>1, <2>2, <2>3 DEF NightInv
<1>15. FreshInv'
  <2>1. health' < Stale => synced' <= health' + MaxRun["sync"]
    BY <1>2, <1>5 DEF ScheduleInv, FreshInv
  <2>2. loop'.job = "sync" /\ loop'.outcome = "ok" => synced' <= loop'.ran
    <3>1. loop.ran \in Nat
      BY <1>2 DEF Loops
    <3> QED BY <1>2, <1>4, <1>5, <3>1 DEF ScheduleInv, FreshInv
  <2> QED BY <2>1, <2>2 DEF FreshInv, Stale, StaleAfter
<1> QED BY <1>11, <1>12, <1>13, <1>14, <1>15 DEF ScheduleInv

-----------------------------------------------------------------------------
(* What holds *)

LEMMA ScheduleInit == Init => TypeOK /\ ScheduleInv
<1> SUFFICES ASSUME Init PROVE TypeOK /\ ScheduleInv
  OBVIOUS
<1>1. /\ tod \in 0 .. Day - 1 /\ ticker = Armed /\ loop = Down /\ ctx = "ended" /\ health = Stale
      /\ synced = Stale /\ told = "none" /\ ticked = [j \in Jobs |-> FALSE] /\ tonight = 0
      /\ upAllDay = FALSE /\ smooth = FALSE
  BY DEF Init
<1> DEFINE n(j) == IF j = "backup" THEN NextDaily(tod) ELSE Every[j]
<1>2. \A j \in Jobs : n(j) \in Nat \ {0}
  <2>1. NextDaily(tod) \in Nat \ {0}
    BY <1>1 DEF NextDaily
  <2>2. \A j \in Jobs : j # "backup" => Every[j] \in Nat \ {0}
    OBVIOUS
  <2> QED BY <2>1, <2>2
<1>3. ticker = [j \in Jobs |-> NewTicker(n(j))]
  BY <1>1 DEF Armed
<1> HIDE DEF n
<1>4. ticker \in [Jobs -> Tickers] /\ \A j \in Jobs : ticker[j].left <= ticker[j].every /\ ~ ticker[j].due
  BY <1>2, <1>3, NewTickerIs
<1>5. TypeOK
  <2>1. Stale \in Nat
    BY Units
  <2>2. health \in 0 .. Stale /\ synced \in 0 .. Stale
    BY <1>1, <2>1
  <2>3. loop \in Loops /\ ticked \in [Jobs -> BOOLEAN]
    BY <1>1, IdleIs
  <2>4. told \in Said /\ tonight \in 0 .. 2 /\ ctx \in {"live", "ended"}
    BY <1>1 DEF Said
  <2>5. upAllDay \in BOOLEAN /\ smooth \in BOOLEAN
    BY <1>1
  <2>6. loop.job \notin Jobs
    BY <1>1, IdleIs
  <2> QED BY <1>1, <1>4, <2>2, <2>3, <2>4, <2>5, <2>6 DEF TypeOK, Tickers, Loops, Pcs, Said
<1>6. LoopInv /\ TickInv /\ FreshInv
  <2>1. loop.pc = "down" /\ loop.job = "none" /\ loop.outcome = "none" /\ health = Stale /\ told = "none"
    BY <1>1, IdleIs
  <2>2. ~ (Stale < Stale)
    BY Units
  <2> QED BY <1>4, <2>1, <2>2 DEF LoopInv, TickInv, FreshInv, ShutdownReportsNothing
<1>7. NightInv
  BY <1>1, IdleIs DEF NightInv, OneBackupPerNight, Serving
<1> QED BY <1>5, <1>6, <1>7 DEF ScheduleInv

LEMMA ScheduleStep == TypeOK /\ ScheduleInv /\ [Next]_vars => TypeOK' /\ ScheduleInv'
<1> SUFFICES ASSUME TypeOK, ScheduleInv, [Next]_vars PROVE TypeOK' /\ ScheduleInv'
  OBVIOUS
<1>1. CASE UNCHANGED vars
  <2>1. TypeOK'
    BY <1>1 DEF vars, TypeOK, Stale, StaleAfter
  <2>2. ScheduleInv'
    BY <1>1 DEF vars, ScheduleInv, LoopInv, TickInv, NightInv, FreshInv, ShutdownReportsNothing,
                OneBackupPerNight, NextDaily, Serving, Stale, StaleAfter
  <2> QED BY <2>1, <2>2
<1>2. CASE Stop \/ Crash
  BY <1>2, GoneStep DEF Stop, Crash
<1>3. CASE FinishAny
  BY <1>3, FinishStep DEF FinishAny
<1>4. CASE \E j \in Jobs : Start(j)
  BY <1>4, StartStep
<1>5. CASE Boot \/ Shutdown \/ TimePasses \/ Ping \/ Status \/ Record
  BY <1>5, BootStep, ShutdownStep, TimeStep, PingStep, StatusStep, RecordStep
<1> QED BY <1>1, <1>2, <1>3, <1>4, <1>5 DEF Next

(* The loop, its tickers, what it reported and the ages of what it records *)
(* agree at every moment, through shutdowns, restarts and late jobs.       *)
THEOREM ScheduleInvariant == Spec => [](TypeOK /\ ScheduleInv)
  BY ScheduleInit, ScheduleStep, PTL DEF Spec

(* A job that shutdown cut short is reported as nothing: no ping, no status*)
(* and no /healthz failure (Pinger.After, addStatus, Health).              *)
THEOREM ShutdownIsQuiet == Spec => []ShutdownReportsNothing
<1>1. ScheduleInv => ShutdownReportsNothing
  BY DEF ScheduleInv, LoopInv
<1> QED BY <1>1, ScheduleInvariant, PTL

(* One backup at most between two BACKUP_ATs, restarts included, however   *)
(* late the loop gets to it (nextDaily, the ticker's Reset).               *)
THEOREM OncePerNight == Spec => []OneBackupPerNight
<1>1. ScheduleInv => OneBackupPerNight
  BY DEF ScheduleInv, NightInv
<1> QED BY <1>1, ScheduleInvariant, PTL

(* /healthz says ok only while a sync succeeded within StaleAfter and what *)
(* its reports took (Health.OK after the pings and the status).            *)
THEOREM HealthyIsFresh == Spec => []HealthyMeansFreshSync
<1>1. TypeOK /\ ScheduleInv => HealthyMeansFreshSync
  <2> SUFFICES ASSUME TypeOK, ScheduleInv, health <= StaleAfter PROVE synced <= StaleAfter + MaxRun["sync"]
    BY DEF HealthyMeansFreshSync, Healthy
  <2>1. health < Stale /\ health \in Nat /\ synced \in Nat
    BY Types, Units
  <2> QED BY <2>1, Units DEF ScheduleInv, FreshInv
<1> QED BY <1>1, ScheduleInvariant, PTL

(* A job starts only on a tick that came due after its last run was done:  *)
(* a slow job is not followed by itself at once (drain).                   *)
THEOREM TicksAreNotSavedUp == Spec => NoBackToBackTick
<1>1. TypeOK /\ ScheduleInv /\ [Next]_vars =>
        [\A j \in Jobs : loop.pc = "select" /\ loop'.job = j => ticked[j]]_vars
  <2> SUFFICES ASSUME TypeOK, ScheduleInv, Next, NEW j \in Jobs, loop.pc = "select", loop'.job = j
               PROVE  ticked[j]
    OBVIOUS
  <2>1. j # "none" /\ loop.job = "none"
    BY DEF ScheduleInv, LoopInv
  <2>2. CASE \E k \in Jobs : Start(k)
    <3>1. PICK k \in Jobs : ticker[k].due /\ loop' = Run(k, FALSE)
      BY <2>2 DEF Start
    <3>2. k = j
      BY <3>1, RunIs
    <3> QED BY <2>1, <3>1, <3>2 DEF ScheduleInv, TickInv
  <2>3. CASE Boot \/ FinishAny \/ Ping \/ Status \/ Record
    BY <2>3 DEF Boot, Serving, FinishAny, Finish, Ping, Status, Record
  <2>4. CASE Stop \/ Crash
    BY <2>1, <2>4, IdleIs DEF Stop, Crash, Gone
  <2>5. CASE Shutdown \/ TimePasses
    BY <2>1, <2>5 DEF Shutdown, TimePasses
  <2> QED BY <2>2, <2>3, <2>4, <2>5 DEF Next
<1> QED BY <1>1, ScheduleInvariant, PTL DEF Spec, NoBackToBackTick

-----------------------------------------------------------------------------
(* Loads *)

LEMMA Times ==
  ASSUME NEW s \in Nat, NEW a \in Nat, NEW b \in Nat, a <= b
  PROVE  /\ s * a \in Nat /\ s * b \in Nat /\ s * a <= s * b
         /\ b = a + 1 => s * b = s * a + s
<1>1. PICK c \in Nat : b = a + c
  <2>1. b - a \in Nat /\ b = a + (b - a)
    OBVIOUS
  <2> QED BY <2>1
<1>2. s * b = s * a + s * c /\ s * a \in Nat /\ s * c \in Nat
  BY <1>1
<1>3. c = 1 => s * c = s
  OBVIOUS
<1> QED BY <1>1, <1>2, <1>3

LEMMA LoadIs ==
  ASSUME NEW s \in Nat, NEW run \in Nat, NEW work \in 0 .. run, NEW until \in Nat \ {0}
  PROVE  LoadOf(s, run, work, until) \in Nat /\ s * work <= LoadOf(s, run, work, until)
<1>1. s * work \in Nat /\ s * run \in Nat
  BY Times
<1>2. PICK a \in Nat, b \in Nat : a = s * work /\ b = s * run
  BY <1>1
<1>3. LoadOf(s, run, work, until) = a + (IF until < b THEN b - until ELSE 0)
  BY <1>2 DEF LoadOf
<1> QED BY <1>2, <1>3

(* Less work, or more time until the next tick, is less load. *)
LEMMA LoadFalls ==
  ASSUME NEW s \in Nat, NEW run \in Nat, NEW work \in 0 .. run, NEW work2 \in 0 .. work,
         NEW until \in Nat \ {0}, NEW until2 \in Nat \ {0}, until <= until2
  PROVE  LoadOf(s, run, work2, until2) <= LoadOf(s, run, work, until)
<1>1. s * work2 \in Nat /\ s * work \in Nat /\ s * work2 <= s * work /\ s * run \in Nat
  BY Times
<1>2. PICK a \in Nat, a2 \in Nat, b \in Nat : a = s * work /\ a2 = s * work2 /\ b = s * run
  BY <1>1
<1>3. /\ LoadOf(s, run, work, until) = a + (IF until < b THEN b - until ELSE 0)
      /\ LoadOf(s, run, work2, until2) = a2 + (IF until2 < b THEN b - until2 ELSE 0)
  BY <1>2 DEF LoadOf
<1> QED BY <1>1, <1>2, <1>3

(* A tick that fires after an interval of s runs brings no more than the   *)
(* time until it came down has brought.                                    *)
LEMMA LoadTicks ==
  ASSUME NEW s \in Nat, NEW run \in Nat, NEW work \in 0 .. run, NEW work2 \in 0 .. run,
         NEW until \in Nat \ {0}, NEW until2 \in Nat \ {0},
         until = 1 => s * run <= until2,
         until # 1 => until2 = until - 1
  PROVE  /\ (until # 1 /\ work2 = work) \/ until = 1
              => LoadOf(s, run, work2, until2) <= LoadOf(s, run, work, until) + 1
         /\ work2 = work - 1 => LoadOf(s, run, work2, until2) <= LoadOf(s, run, work, until) + 1 - s
         /\ work = 0 /\ (until # 1 => work2 = 0) => LoadOf(s, run, work2, until2) <= s * run
<1>1. /\ s * work2 \in Nat /\ s * work \in Nat /\ s * run \in Nat
      /\ s * work2 <= s * run /\ s * work <= s * run
      /\ work2 = work - 1 => s * work = s * work2 + s
  BY Times
<1>2. PICK a \in Nat, a2 \in Nat, b \in Nat : a = s * work /\ a2 = s * work2 /\ b = s * run
  BY <1>1
<1>3. /\ LoadOf(s, run, work, until) = a + (IF until < b THEN b - until ELSE 0)
      /\ LoadOf(s, run, work2, until2) = a2 + (IF until2 < b THEN b - until2 ELSE 0)
  BY <1>2 DEF LoadOf
<1>4. /\ a2 <= b /\ a <= b /\ (work2 = work - 1 => a = a2 + s)
      /\ (work2 = work => a2 = a) /\ (until = 1 => b <= until2) /\ (work2 = 0 => a2 = 0)
  BY <1>1, <1>2

<1>5. (until # 1 /\ work2 = work) \/ until = 1 => LoadOf(s, run, work2, until2) <= LoadOf(s, run, work, until) + 1
  <2>1. CASE until = 1
    BY <1>3, <1>4, <2>1
  <2>2. CASE until # 1
    BY <1>3, <1>4, <2>2
  <2> QED BY <2>1, <2>2
<1>6. work2 = work - 1 => LoadOf(s, run, work2, until2) <= LoadOf(s, run, work, until) + 1 - s
  <2>1. CASE until = 1
    BY <1>3, <1>4, <2>1
  <2>2. CASE until # 1
    BY <1>3, <1>4, <2>2
  <2> QED BY <2>1, <2>2
<1>7. work = 0 /\ (until # 1 => work2 = 0) => LoadOf(s, run, work2, until2) <= b
  <2>1. CASE until = 1
    BY <1>3, <1>4, <2>1
  <2>2. CASE until # 1
    BY <1>3, <1>4, <2>2
  <2> QED BY <2>1, <2>2
<1> QED BY <1>2, <1>5, <1>6, <1>7

-----------------------------------------------------------------------------
(* Sums over the jobs *)

LEMMA OthersIs ==
  ASSUME NEW w \in Jobs
  PROVE  /\ Others(w) \in Nat
         /\ Others(w) = One(w)["sync"] + One(w)["import"] + One(w)["backup"] + One(w)["prune"]
         /\ \A j \in Names : One(w)[j] = IF j \in Jobs \ {w} THEN 1 ELSE 0
<1>1. \A j \in Names : One(w)[j] = IF j \in Jobs \ {w} THEN 1 ELSE 0
  BY DEF One
<1>2. Others(w) = One(w)["sync"] + One(w)["import"] + One(w)["backup"] + One(w)["prune"]
  BY DEF Others, Total
<1> QED BY <1>1, <1>2 DEF Names

LEMMA WithoutIs ==
  ASSUME NEW f \in [Names -> Nat], NEW w \in Names
  PROVE  /\ Total(f) \in Nat /\ Total([f EXCEPT ![w] = 0]) \in Nat
         /\ Total(f) = Total([f EXCEPT ![w] = 0]) + f[w]
<1>1. PICK g : g = [f EXCEPT ![w] = 0]
  OBVIOUS
<1>2. g \in [Names -> Nat] /\ g[w] = 0 /\ \A j \in Names : j # w => g[j] = f[j]
  BY <1>1
<1>3. \A h \in [Names -> Nat] : /\ Total(h) \in Nat
                                /\ Total(h) = h["sync"] + h["import"] + h["backup"] + h["prune"]
  BY DEF Total, Names
<1>4. /\ f["sync"] \in Nat /\ f["import"] \in Nat /\ f["backup"] \in Nat /\ f["prune"] \in Nat
  BY DEF Names
<1>5. Total(f) = Total(g) + f[w]
  <2>1. w = "sync" \/ w = "import" \/ w = "backup" \/ w = "prune"
    BY DEF Names
  <2> QED BY <1>2, <1>3, <1>4, <2>1 DEF Names
<1> QED BY <1>1, <1>2, <1>3, <1>5

LEMMA TotalFalls ==
  ASSUME NEW f \in [Names -> Nat], NEW g \in [Names -> Nat], NEW w \in Names,
         \A j \in Names : g[j] <= f[j]
  PROVE  /\ Total(g) <= Total(f)
         /\ Total([g EXCEPT ![w] = 0]) <= Total([f EXCEPT ![w] = 0])
<1>1. \A a \in [Names -> Nat], b \in [Names -> Nat] :
        (\A j \in Names : b[j] <= a[j]) => Total(b) <= Total(a)
  BY DEF Total, Names
<1>2. /\ [f EXCEPT ![w] = 0] \in [Names -> Nat] /\ [g EXCEPT ![w] = 0] \in [Names -> Nat]
      /\ \A j \in Names : [g EXCEPT ![w] = 0][j] <= [f EXCEPT ![w] = 0][j]
  OBVIOUS
<1> QED BY <1>1, <1>2

(* One unit of r's run, beside one unit that every job's tick comes nearer *)
LEMMA TotalRuns ==
  ASSUME NEW w \in Jobs, NEW r \in Jobs, NEW s \in Nat,
         NEW f \in [Names -> Nat], NEW g \in [Names -> Nat],
         \A j \in Names : g[j] <= f[j] + (IF j \in Jobs THEN 1 ELSE 0) - (IF j = r THEN s ELSE 0)
  PROVE  /\ Total(g) <= Total(f) + Others(w) + 1 - s
         /\ r # w => Total([g EXCEPT ![w] = 0]) <= Total([f EXCEPT ![w] = 0]) + Others(w) - s
<1>1. \A h \in [Names -> Nat] : Total(h) = h["sync"] + h["import"] + h["backup"] + h["prune"]
  BY DEF Total
<1>2. w \in Names /\ r \in Names
  BY DEF Names
<1> DEFINE up(j) == g[j] <= f[j] + One(w)[j] + (IF j = w THEN 1 ELSE 0) - (IF j = r THEN s ELSE 0)
<1>3. \A j \in Names : up(j)
  BY OthersIs, <1>2
<1>4. /\ f["sync"] \in Nat /\ f["import"] \in Nat /\ f["backup"] \in Nat /\ f["prune"] \in Nat
      /\ g["sync"] \in Nat /\ g["import"] \in Nat /\ g["backup"] \in Nat /\ g["prune"] \in Nat
      /\ One(w)["sync"] \in Nat /\ One(w)["import"] \in Nat /\ One(w)["backup"] \in Nat
      /\ One(w)["prune"] \in Nat
  BY OthersIs DEF Names
<1>5. up("sync") /\ up("import") /\ up("backup") /\ up("prune")
  BY <1>3 DEF Names
<1>6. Total(g) <= Total(f) + Others(w) + 1 - s
  <2>1. w = "sync" \/ w = "import" \/ w = "backup" \/ w = "prune"
    BY <1>2 DEF Names
  <2>2. r = "sync" \/ r = "import" \/ r = "backup" \/ r = "prune"
    BY <1>2 DEF Names
  <2>3. Total(f) = f["sync"] + f["import"] + f["backup"] + f["prune"]
    BY <1>1
  <2>4. Total(g) = g["sync"] + g["import"] + g["backup"] + g["prune"]
    BY <1>1
  <2>5. Others(w) = One(w)["sync"] + One(w)["import"] + One(w)["backup"] + One(w)["prune"]
    BY OthersIs
  <2> QED BY <1>4, <1>5, <2>1, <2>2, <2>3, <2>4, <2>5
<1>7. ASSUME r # w PROVE Total([g EXCEPT ![w] = 0]) <= Total([f EXCEPT ![w] = 0]) + Others(w) - s
  <2>1. PICK a \in [Names -> Nat], b \in [Names -> Nat] : a = [f EXCEPT ![w] = 0] /\ b = [g EXCEPT ![w] = 0]
    OBVIOUS
  <2>2. \A j \in Names : b[j] <= a[j] + One(w)[j] - (IF j = r THEN s ELSE 0)
    <3>1. TAKE j \in Names
    <3>2. CASE j = w
      <4>1. One(w)[j] = 0 /\ a[j] = 0 /\ b[j] = 0 /\ j # r
        BY <1>7, <2>1, <3>2, OthersIs
      <4> QED BY <4>1
    <3>3. CASE j # w
      <4>1. a[j] = f[j] /\ b[j] = g[j] /\ up(j)
        BY <1>3, <2>1, <3>3
      <4>2. f[j] \in Nat /\ g[j] \in Nat /\ One(w)[j] \in Nat
        BY OthersIs
      <4> QED BY <3>3, <4>1, <4>2
    <3> QED BY <3>2, <3>3
  <2>3. r = "sync" \/ r = "import" \/ r = "backup" \/ r = "prune"
    BY <1>2 DEF Names
  <2>4. /\ a["sync"] \in Nat /\ a["import"] \in Nat /\ a["backup"] \in Nat /\ a["prune"] \in Nat
        /\ b["sync"] \in Nat /\ b["import"] \in Nat /\ b["backup"] \in Nat /\ b["prune"] \in Nat
    BY DEF Names
  <2>5. /\ Total(a) = a["sync"] + a["import"] + a["backup"] + a["prune"]
        /\ Total(b) = b["sync"] + b["import"] + b["backup"] + b["prune"]
        /\ Others(w) = One(w)["sync"] + One(w)["import"] + One(w)["backup"] + One(w)["prune"]
    BY <1>1, OthersIs
  <2>6. \A j \in {"sync", "import", "backup", "prune"} : b[j] <= a[j] + One(w)[j] - (IF j = r THEN s ELSE 0)
    BY <2>2 DEF Names
  <2>7. Total(b) <= Total(a) + Others(w) - s
    BY <1>4, <2>3, <2>4, <2>5, <2>6
  <2> QED BY <2>1, <2>7
<1> QED BY <1>6, <1>7

(* All that can ever be ready at once. *)
LEMMA LongestIs ==
  ASSUME NEW w \in Jobs
  PROVE  \E m \in [Names -> Nat] :
           /\ \A j \in Names : m[j] = IF j \in Jobs \ {w} THEN MaxRun[j] ELSE 0
           /\ Longest(w) = m["sync"] + m["import"] + m["backup"] + m["prune"]
           /\ Longest(w) \in Nat
<1>1. PICK m : m = [j \in Names |-> IF j \in Jobs \ {w} THEN MaxRun[j] ELSE 0]
  OBVIOUS
<1>2. m \in [Names -> Nat] /\ \A j \in Names : m[j] = IF j \in Jobs \ {w} THEN MaxRun[j] ELSE 0
  BY <1>1
<1>3. Longest(w) = m["sync"] + m["import"] + m["backup"] + m["prune"]
  BY <1>1 DEF Longest, Total
<1>4. m["sync"] \in Nat /\ m["import"] \in Nat /\ m["backup"] \in Nat /\ m["prune"] \in Nat
  BY <1>2 DEF Names
<1> QED BY <1>2, <1>3, <1>4

LEMMA TotalFull ==
  ASSUME NEW w \in Jobs, NEW k \in Nat, NEW f \in [Names -> Nat],
         \A j \in Names : f[j] <= IF j \in Jobs THEN Slope(w, k, j) * MaxRun[j] ELSE 0
  PROVE  Total(f) <= k * Longest(w) + (Others(w) + 1) * MaxRun[w]
<1>1. PICK m \in [Names -> Nat] :
        /\ \A j \in Names : m[j] = IF j \in Jobs \ {w} THEN MaxRun[j] ELSE 0
        /\ Longest(w) = m["sync"] + m["import"] + m["backup"] + m["prune"]
  BY LongestIs
<1>2. PICK d \in Nat : d = (Others(w) + 1) * MaxRun[w]
  BY OthersIs, Times
<1>3. \A j \in Names : k * m[j] \in Nat /\ f[j] <= k * m[j] + (IF j = w THEN d ELSE 0)
  <2>1. TAKE j \in Names
  <2>2. k * m[j] \in Nat
    BY Times
  <2>3. CASE j = w
    <3>1. f[j] <= d
      BY <1>2, <2>3 DEF Slope
    <3> QED BY <2>2, <2>3, <3>1
  <2>4. CASE j # w /\ j \in Jobs
    <3>1. f[j] <= k * m[j]
      BY <1>1, <2>4 DEF Slope
    <3> QED BY <2>2, <2>4, <3>1
  <2>5. CASE j \notin Jobs
    <3>1. f[j] = 0
      BY <2>5
    <3> QED BY <2>2, <2>5, <3>1
  <2> QED BY <2>3, <2>4, <2>5
<1>4. /\ f["sync"] \in Nat /\ f["import"] \in Nat /\ f["backup"] \in Nat /\ f["prune"] \in Nat
      /\ m["sync"] \in Nat /\ m["import"] \in Nat /\ m["backup"] \in Nat /\ m["prune"] \in Nat
  BY DEF Names
<1>9. /\ k * m["sync"] \in Nat /\ k * m["import"] \in Nat
      /\ k * m["backup"] \in Nat /\ k * m["prune"] \in Nat
  BY <1>3 DEF Names
<1>5. PICK a \in Nat, b \in Nat, c \in Nat, e \in Nat :
        a = k * m["sync"] /\ b = k * m["import"] /\ c = k * m["backup"] /\ e = k * m["prune"]
  BY <1>9
<1>6. k * Longest(w) = a + b + c + e
  <2>1. PICK x \in Nat, y \in Nat, z \in Nat, u \in Nat :
          x = m["sync"] /\ y = m["import"] /\ z = m["backup"] /\ u = m["prune"]
    BY <1>4
  <2>2. k * (x + y + z + u) = k * x + k * y + k * z + k * u
    OBVIOUS
  <2> QED BY <1>1, <1>5, <2>1, <2>2
<1>7. Total(f) <= a + b + c + e + d
  <2>1. w = "sync" \/ w = "import" \/ w = "backup" \/ w = "prune"
    OBVIOUS
  <2>2. /\ f["sync"] <= a + (IF "sync" = w THEN d ELSE 0)
        /\ f["import"] <= b + (IF "import" = w THEN d ELSE 0)
        /\ f["backup"] <= c + (IF "backup" = w THEN d ELSE 0)
        /\ f["prune"] <= e + (IF "prune" = w THEN d ELSE 0)
    BY <1>3, <1>5 DEF Names
  <2>3. Total(f) = f["sync"] + f["import"] + f["backup"] + f["prune"]
    BY DEF Total
  <2> QED BY <1>4, <2>1, <2>2, <2>3
<1> QED BY <1>2, <1>6, <1>7

-----------------------------------------------------------------------------
(* Loads from one state to the next *)

LEMMA Rooms ==
  ASSUME NEW w, NEW k \in Nat, NEW wait \in Nat, Room(w, k, wait)
  PROVE  /\ w \in Jobs /\ w \in Names /\ Others(w) \in Nat /\ k - Others(w) \in Nat \ {0}
         /\ \A j \in Jobs : /\ Slope(w, k, j) \in Nat /\ Others(w) + 1 <= Slope(w, k, j)
                            /\ Slope(w, k, j) * MaxRun[j] \in Nat
                            /\ Slope(w, k, j) * MaxRun[j] <= Interval(j)
                            /\ Interval(j) \in Nat \ {0}
<1>1. w \in Jobs /\ k > Others(w) /\ \A j \in Jobs : Slope(w, k, j) * MaxRun[j] <= Interval(j)
  BY DEF Room
<1>2. Others(w) \in Nat /\ w \in Names
  BY <1>1, OthersIs DEF Names
<1>3. \A j \in Jobs : Slope(w, k, j) \in Nat /\ Others(w) + 1 <= Slope(w, k, j)
  <2>1. PICK n \in Nat : n = Others(w) /\ k > n
    BY <1>1, <1>2
  <2>2. n + 1 \in Nat /\ n + 1 <= k
    BY <2>1
  <2>3. TAKE j \in Jobs
  <2>4. CASE j = w
    BY <2>1, <2>2, <2>4 DEF Slope
  <2>5. CASE j # w
    BY <2>1, <2>2, <2>5 DEF Slope
  <2> QED BY <2>4, <2>5
<1>4. \A j \in Jobs : Interval(j) \in Nat \ {0}
  BY DEF Interval
<1> QED BY <1>1, <1>2, <1>3, <1>4, Times

LEMMA BusyIs ==
  ASSUME NEW w, NEW k \in Nat, NEW wait \in Nat, Room(w, k, wait)
  PROVE  k * Longest(w) \in Nat /\ (Others(w) + 1) * MaxRun[w] \in Nat
<1>1. w \in Jobs /\ Others(w) \in Nat
  BY Rooms
<1>2. Longest(w) \in Nat /\ MaxRun[w] \in Nat
  BY <1>1, LongestIs
<1> QED BY <1>1, <1>2, Times

LEMMA WorkIs ==
  /\ TypeOK => \A j \in Jobs : Work(j) \in 0 .. MaxRun[j] /\ Until(j) \in Nat \ {0}
  /\ TypeOK' => \A j \in Jobs : Work(j)' \in 0 .. MaxRun[j] /\ Until(j)' \in Nat \ {0}
<1>1. \A m \in Nat : 0 \in 0 .. m /\ m \in 0 .. m /\ \A n \in Nat : n <= m => m - n \in 0 .. m
  OBVIOUS
<1>2. \A t \in 0 .. Day - 1 : Day - t \in Nat \ {0}
  OBVIOUS
<1>3. ASSUME TypeOK PROVE \A j \in Jobs : Work(j) \in 0 .. MaxRun[j] /\ Until(j) \in Nat \ {0}
  <2>1. TAKE j \in Jobs
  <2>2. loop.ran \in Nat /\ (loop.job = j => loop.ran <= MaxRun[j])
    BY <1>3 DEF TypeOK
  <2>3. tod \in 0 .. Day - 1 /\ ticker[j].left \in Nat \ {0}
    BY <1>3 DEF TypeOK
  <2>4. Work(j) \in 0 .. MaxRun[j]
    BY <1>1, <2>2 DEF Work
  <2>5. Until(j) \in Nat \ {0}
    BY <1>2, <2>3 DEF Until, NextDaily
  <2> QED BY <2>4, <2>5
<1>4. ASSUME TypeOK' PROVE \A j \in Jobs : Work(j)' \in 0 .. MaxRun[j] /\ Until(j)' \in Nat \ {0}
  <2>1. TAKE j \in Jobs
  <2>2. loop'.ran \in Nat /\ (loop'.job = j => loop'.ran <= MaxRun[j])
    BY <1>4 DEF TypeOK
  <2>3. tod' \in 0 .. Day - 1 /\ ticker'[j].left \in Nat \ {0}
    BY <1>4 DEF TypeOK
  <2>4. Work(j)' \in 0 .. MaxRun[j]
    BY <1>1, <2>2 DEF Work
  <2>5. Until(j)' \in Nat \ {0}
    BY <1>2, <2>3 DEF Until, NextDaily
  <2> QED BY <2>4, <2>5
<1> QED BY <1>3, <1>4

LEMMA LoadsAre ==
  ASSUME NEW w, NEW k \in Nat, NEW wait \in Nat, Room(w, k, wait)
  PROVE  /\ TypeOK => Load(w, k) \in [Names -> Nat]
         /\ TypeOK' => Load(w, k)' \in [Names -> Nat]
         /\ \A j \in Jobs : /\ Load(w, k)[j] = LoadOf(Slope(w, k, j), MaxRun[j], Work(j), Until(j))
                            /\ Load(w, k)'[j] = LoadOf(Slope(w, k, j), MaxRun[j], Work(j)', Until(j)')
         /\ \A j \in Names \ Jobs : Load(w, k)[j] = 0 /\ Load(w, k)'[j] = 0
<1>1. Jobs \subseteq Names
  BY DEF Names
<1>2. /\ Load(w, k) = [j \in Names |-> IF j \in Jobs THEN LoadOf(Slope(w, k, j), MaxRun[j], Work(j), Until(j)) ELSE 0]
      /\ Load(w, k)' = [j \in Names |-> IF j \in Jobs THEN LoadOf(Slope(w, k, j), MaxRun[j], Work(j)', Until(j)') ELSE 0]
  BY DEF Load
<1>3. ASSUME TypeOK PROVE \A j \in Jobs : LoadOf(Slope(w, k, j), MaxRun[j], Work(j), Until(j)) \in Nat
  BY <1>3, WorkIs, Rooms, LoadIs
<1>4. ASSUME TypeOK' PROVE \A j \in Jobs : LoadOf(Slope(w, k, j), MaxRun[j], Work(j)', Until(j)') \in Nat
  BY <1>4, WorkIs, Rooms, LoadIs
<1> QED BY <1>1, <1>2, <1>3, <1>4

LEMMA AheadIs ==
  ASSUME NEW w, NEW k \in Nat, NEW wait \in Nat, Room(w, k, wait)
  PROVE  /\ TypeOK => Ahead(w, k) \in Nat
         /\ TypeOK' => Ahead(w, k)' \in Nat
<1>1. Ahead(w, k) = Total([Load(w, k) EXCEPT ![w] = 0])
  BY DEF Ahead
<1>2. Ahead(w, k)' = Total([Load(w, k)' EXCEPT ![w] = 0])
  BY DEF Ahead
<1> QED BY <1>1, <1>2, LoadsAre, Rooms, WithoutIs

(* When w has a whole run to come, all that is left of the load is ahead   *)
(* of it.                                                                  *)
LEMMA AheadFits ==
  ASSUME NEW w, NEW k \in Nat, NEW wait \in Nat, Room(w, k, wait),
         TypeOK', PaceInv(w, k)', Serving', Work(w)' = MaxRun[w]
  PROVE  Ahead(w, k)' <= k * Longest(w)
<1>1. PICK f \in [Names -> Nat] : f = Load(w, k)'
  BY LoadsAre
<1>2. Total(f) <= k * Longest(w) + (Others(w) + 1) * MaxRun[w]
  BY <1>1 DEF PaceInv
<1>3. Total(f) = Total([f EXCEPT ![w] = 0]) + f[w] /\ Total([f EXCEPT ![w] = 0]) \in Nat
  BY Rooms, WithoutIs
<1>4. (Others(w) + 1) * MaxRun[w] <= f[w]
  <2>1. f[w] = LoadOf(Others(w) + 1, MaxRun[w], Work(w)', Until(w)')
    BY <1>1, LoadsAre, Rooms DEF Slope
  <2>2. Others(w) + 1 \in Nat
    BY Rooms
  <2>4. Until(w)' \in Nat \ {0}
    BY Rooms, WorkIs
  <2>5. w \in Jobs
    BY Rooms
  <2>3. PICK m \in Nat : m = MaxRun[w]
    BY <2>5
  <2>6. m \in 0 .. m
    OBVIOUS
  <2>7. (Others(w) + 1) * m <= LoadOf(Others(w) + 1, m, m, Until(w)')
    BY <2>2, <2>4, <2>6, LoadIs
  <2> QED BY <2>1, <2>3, <2>7
<1>5. Ahead(w, k)' = Total([f EXCEPT ![w] = 0])
  BY <1>1 DEF Ahead
<1>6. k * Longest(w) \in Nat /\ (Others(w) + 1) * MaxRun[w] \in Nat /\ f[w] \in Nat
  BY BusyIs, Rooms
<1> QED BY <1>2, <1>3, <1>4, <1>5, <1>6

LEMMA LoadsFall ==
  ASSUME NEW w, NEW k \in Nat, NEW wait \in Nat, Room(w, k, wait), TypeOK, TypeOK',
         \A j \in Jobs : Work(j)' <= Work(j) /\ Until(j)' = Until(j)
  PROVE  /\ Total(Load(w, k)') <= Total(Load(w, k))
         /\ Ahead(w, k)' <= Ahead(w, k)
<1>1. PICK f \in [Names -> Nat] : f = Load(w, k)
  BY LoadsAre
<1>2. PICK g \in [Names -> Nat] : g = Load(w, k)'
  BY LoadsAre
<1>3. \A j \in Names : g[j] <= f[j]
  <2>1. TAKE j \in Names
  <2>2. CASE j \in Jobs
    <3>5. PICK m \in Nat : m = MaxRun[j]
      BY <2>2
    <3>1. PICK a \in 0 .. m, b \in 0 .. m, u \in Nat \ {0} :
            a = Work(j) /\ b = Work(j)' /\ u = Until(j) /\ u = Until(j)' /\ b <= a
      BY <2>2, <3>5, WorkIs
    <3>2. b \in 0 .. a /\ u <= u
      BY <3>1
    <3>4. Slope(w, k, j) \in Nat
      BY <2>2, Rooms
    <3>3. LoadOf(Slope(w, k, j), MaxRun[j], b, u) <= LoadOf(Slope(w, k, j), MaxRun[j], a, u)
      BY <3>1, <3>2, <3>4, <3>5, LoadFalls
    <3> QED BY <1>1, <1>2, <2>2, <3>1, <3>3, LoadsAre
  <2>3. CASE j \notin Jobs
    BY <1>1, <1>2, <2>3, LoadsAre
  <2> QED BY <2>2, <2>3
<1>4. Total(g) <= Total(f) /\ Total([g EXCEPT ![w] = 0]) <= Total([f EXCEPT ![w] = 0])
  BY <1>3, Rooms, TotalFalls
<1> QED BY <1>1, <1>2, <1>4 DEF Ahead

-----------------------------------------------------------------------------
(* What the steps do to a job's work and to the time until its next tick *)

LEMMA FinishedWork ==
  ASSUME TypeOK, ScheduleInv, NEW i \in Jobs, loop.job = i, Finished(i), tod' = tod
  PROVE  /\ \A j \in Jobs : /\ Work(j)' <= Work(j) /\ Until(j)' = Until(j)
                            /\ j # "backup" => ticker'[j].every = ticker[j].every
                            /\ ticker'[j].due => ticker[j].due
         /\ ~ ticker'[i].due
<1>1. /\ ~ ticker'[i].due
      /\ \A j \in Jobs : j # i => ticker'[j] = ticker[j]
      /\ i # "backup" => ticker'[i].left = ticker[i].left /\ ticker'[i].every = ticker[i].every
  <2>1. CASE i = "backup"
    <3>1. ticker' = [ticker EXCEPT ![i] = NewTicker(NextDaily(tod))]
      BY <2>1 DEF Finished, AfterJob
    <3>2. ~ NewTicker(NextDaily(tod)).due
      BY Nightly, NewTickerIs
    <3> QED BY <2>1, <3>1, <3>2, Types
  <2>2. CASE i # "backup"
    <3>1. ticker' = [ticker EXCEPT ![i].due = FALSE]
      BY <2>2 DEF Finished, AfterJob
    <3>2. PICK t \in Tickers : t = ticker[i]
      BY Types
    <3>3. PICK u : u = [t EXCEPT !.due = FALSE]
      OBVIOUS
    <3>4. ~ u.due /\ u.left = t.left /\ u.every = t.every
      BY <3>3 DEF Tickers
    <3>5. ticker' = [ticker EXCEPT ![i] = u]
      BY <3>1, <3>2, <3>3
    <3> QED BY <3>2, <3>4, <3>5, Types
  <2> QED BY <2>1, <2>2
<1>2. \A j \in Jobs : Until(j)' = Until(j)
  BY <1>1 DEF Until, NextDaily
<1>3. i # "none" /\ loop.ran \in Nat /\ loop.ran <= MaxRun[i]
  BY DEF TypeOK
<1>5. \A j \in Jobs : Work(j) \in Nat /\ Work(j) <= Work(j) /\ 0 <= Work(j)
  <2>1. \A m \in Nat : \A n \in 0 .. m : n \in Nat /\ n <= n /\ 0 <= n
    OBVIOUS
  <2> QED BY <2>1, WorkIs
<1>4. \A j \in Jobs : Work(j)' <= Work(j)
  <2>1. CASE loop.first /\ i = "prune"
    <3>1. loop'.job = "sync" /\ loop'.ran = 0
      BY <2>1, RunIs DEF Finished
    <3>2. TAKE j \in Jobs
    <3>3. CASE j = "sync"
      BY <2>1, <3>1, <3>3 DEF Work, Owed
    <3>4. CASE j = i
      <4>1. Work(j)' = 0
        BY <1>1, <2>1, <3>1, <3>4 DEF Work, Owed
      <4> QED BY <1>5, <4>1
    <3>5. CASE j # i /\ j # "sync"
      <4>1. Work(j)' = Work(j)
        BY <1>1, <3>1, <3>5 DEF Work, Owed
      <4> QED BY <1>5, <4>1
    <3> QED BY <3>3, <3>4, <3>5
  <2>2. CASE ~ (loop.first /\ i = "prune")
    <3>1. loop'.job = "none"
      BY <2>2, IdleIs DEF Finished
    <3>2. \A j \in Jobs : j # "none"
      OBVIOUS
    <3>3. TAKE j \in Jobs
    <3>4. CASE j = i
      <4>1. Work(j)' = 0
        BY <1>1, <3>1, <3>2, <3>4 DEF Work, Owed
      <4> QED BY <1>5, <4>1
    <3>5. CASE j # i
      <4>1. ~ (loop.first /\ loop.job = "prune")
        BY <2>2
      <4>2. Work(j)' = Work(j)
        BY <1>1, <3>1, <3>2, <3>5, <4>1 DEF Work, Owed
      <4> QED BY <1>5, <4>2
    <3> QED BY <3>4, <3>5
  <2> QED BY <2>1, <2>2
<1> QED BY <1>1, <1>2, <1>4

(* No step that takes no time brings work, but a boot. *)
Quiet == \/ \E j \in Jobs : Start(j)
         \/ FinishAny \/ Ping \/ Status \/ Record \/ Shutdown
         \/ UNCHANGED vars

LEMMA QuietWork ==
  ASSUME TypeOK, ScheduleInv, Quiet
  PROVE  /\ \A j \in Jobs : /\ Work(j)' <= Work(j) /\ Until(j)' = Until(j)
                            /\ j # "backup" => ticker'[j].every = ticker[j].every
         /\ Serving' = Serving /\ tod' = tod
<1> DEFINE Goal == /\ \A j \in Jobs : /\ Work(j)' <= Work(j) /\ Until(j)' = Until(j)
                                      /\ j # "backup" => ticker'[j].every = ticker[j].every
                   /\ Serving' = Serving /\ tod' = tod
<1>1. ASSUME ticker' = ticker, tod' = tod, loop'.job = loop.job, loop'.ran = loop.ran,
             loop'.first = loop.first, (loop'.pc = "down") <=> (loop.pc = "down")
      PROVE  Goal
  <2>1. \A j \in Jobs : Work(j)' = Work(j) /\ Until(j)' = Until(j)
    BY <1>1 DEF Work, Owed, Until, NextDaily
  <2>2. \A j \in Jobs : Work(j)' <= Work(j)
    <3>1. \A j \in Jobs : Work(j) <= Work(j)
      BY WorkIs
    <3> QED BY <2>1, <3>1
  <2> QED BY <1>1, <2>1, <2>2 DEF Serving
<1>2. ASSUME NEW i \in Jobs, loop.job = i, Finished(i), tod' = tod
      PROVE  Goal
  <2>1. Serving /\ Serving'
    <3>1. loop.pc # "down"
      BY <1>2 DEF ScheduleInv, LoopInv
    <3>2. loop'.pc # "down"
      BY <1>2, IdleIs, RunIs DEF Finished
    <3> QED BY <3>1, <3>2 DEF Serving
  <2> QED BY <1>2, <2>1, FinishedWork
<1>3. CASE \E j \in Jobs : Start(j)
  <2>1. PICK i \in Jobs : Start(i)
    BY <1>3
  <2>2. /\ loop.pc = "select" /\ ticker[i].due /\ tod' = tod
        /\ ticker' = [ticker EXCEPT ![i].due = FALSE] /\ loop' = Run(i, FALSE)
    BY <2>1 DEF Start
  <2>3. loop'.job = i /\ loop'.ran = 0 /\ loop'.first = FALSE /\ loop'.pc = "job"
    BY <2>2, RunIs
  <2>4. loop.job = "none" /\ i # "none"
    BY <2>2 DEF ScheduleInv, LoopInv
  <2>5. /\ \A j \in Jobs : j # i => ticker'[j] = ticker[j]
        /\ ticker'[i].left = ticker[i].left /\ ticker'[i].every = ticker[i].every
    <3>1. PICK t \in Tickers : t = ticker[i]
      BY Types
    <3>2. PICK u : u = [t EXCEPT !.due = FALSE]
      OBVIOUS
    <3>3. u.left = t.left /\ u.every = t.every
      BY <3>2 DEF Tickers
    <3>4. ticker' = [ticker EXCEPT ![i] = u]
      BY <2>2, <3>1, <3>2
    <3> QED BY <3>1, <3>3, <3>4, Types
  <2>6. \A j \in Jobs : Until(j)' = Until(j)
    BY <2>2, <2>5 DEF Until, NextDaily
  <2>7. \A j \in Jobs : Work(j)' <= Work(j)
    <3>1. TAKE j \in Jobs
    <3>2. CASE j = i
      <4>1. Work(i) = MaxRun[i]
        BY <2>2, <2>4 DEF Work, Owed
      <4>2. Work(i)' = MaxRun[i]
        BY <2>3 DEF Work
      <4> QED BY <3>2, <4>1, <4>2
    <3>3. CASE j # i
      <4>1. j # "none"
        OBVIOUS
      <4> QED BY <2>3, <2>4, <2>5, <3>3, <4>1 DEF Work, Owed
    <3> QED BY <3>2, <3>3
  <2>8. Serving /\ Serving'
    BY <2>2, <2>3 DEF Serving
  <2> QED BY <2>2, <2>5, <2>6, <2>7, <2>8
<1>4. CASE FinishAny
  <2>1. PICK i \in Jobs, o \in Said : Finish(i, o)
    BY <1>4 DEF FinishAny, Said
  <2>2. loop.pc = "job" /\ loop.job = i /\ tod' = tod
    BY <2>1 DEF Finish
  <2>3. CASE i \in {"sync", "backup"}
    <3>1. PICK pc \in Pcs \ {"down"}, l \in Loops :
            l = loop /\ loop' = [l EXCEPT !.pc = pc, !.outcome = o] /\ ticker' = ticker
      BY <2>1, <2>3, Types DEF Finish, Pcs
    <3>2. loop'.job = l.job /\ loop'.ran = l.ran /\ loop'.first = l.first /\ loop'.pc = pc
      BY <3>1 DEF Loops
    <3> QED BY <1>1, <2>2, <3>1, <3>2
  <2>4. CASE i \notin {"sync", "backup"}
    <3>1. Finished(i)
      BY <2>1, <2>4 DEF Finish
    <3> QED BY <1>2, <2>2, <3>1
  <2> QED BY <2>3, <2>4
<1>5. CASE Ping
  <2>1. loop' = [loop EXCEPT !.pc = "status"] /\ ticker' = ticker /\ tod' = tod /\ loop.pc = "ping"
    BY <1>5 DEF Ping
  <2>2. "status" \in Pcs
    BY DEF Pcs
  <2> QED BY <1>1, <2>1, <2>2, Types, LoopPc
<1>6. CASE Status
  <2>1. loop.pc = "status" /\ tod' = tod
    BY <1>6 DEF Status
  <2>2. CASE loop.job = "sync"
    <3>1. loop' = [loop EXCEPT !.pc = "health"] /\ ticker' = ticker
      BY <1>6, <2>2 DEF Status
    <3>2. "health" \in Pcs
      BY DEF Pcs
    <3> QED BY <1>1, <2>1, <3>1, <3>2, Types, LoopPc
  <2>3. CASE loop.job # "sync"
    <3>1. Finished(loop.job)
      BY <1>6, <2>3 DEF Status
    <3>2. loop.job \in Jobs
      BY <2>1, Types DEF ScheduleInv, LoopInv, Loops
    <3> QED BY <1>2, <2>1, <3>1, <3>2
  <2> QED BY <2>2, <2>3
<1>7. CASE Record
  <2>1. loop.pc = "health" /\ tod' = tod /\ Finished("sync")
    BY <1>7 DEF Record
  <2>2. loop.job = "sync"
    BY <2>1 DEF ScheduleInv, LoopInv
  <2> QED BY <1>2, <2>1, <2>2
<1>8. CASE Shutdown \/ UNCHANGED vars
  <2>1. ticker' = ticker /\ loop' = loop /\ tod' = tod
    BY <1>8 DEF Shutdown, vars
  <2> QED BY <1>1, <2>1
<1> QED BY <1>3, <1>4, <1>5, <1>6, <1>7, <1>8 DEF Quiet

(* A unit of time: it is taken off the run in progress, and brings every   *)
(* tick nearer.                                                            *)
LEMMA AdvanceAgain ==
  ASSUME NEW t \in Tickers, t.left <= t.every
  PROVE  /\ Advance(t).every = t.every
         /\ t.left = 1 => Advance(t).left = t.every
<1>1. CASE t.left > 1
  <2>1. Advance(t) = [t EXCEPT !.left = t.left - 1]
    BY <1>1 DEF Advance, Tickers
  <2> QED BY <1>1, <2>1 DEF Tickers
<1>2. CASE ~ (t.left > 1)
  <2>1. Advance(t) = [t EXCEPT !.left = t.every, !.due = TRUE]
    BY <1>2 DEF Advance
  <2> QED BY <2>1 DEF Tickers
<1> QED BY <1>1, <1>2

LEMMA TimeWork ==
  ASSUME TypeOK, ScheduleInv, TimePasses, Serving,
         \A j \in Jobs \ {"backup"} : ticker[j].every = Every[j]
  PROVE  /\ \A j \in Jobs :
              /\ j # "backup" => ticker'[j].every = Every[j]
              /\ Until(j) # 1 => Until(j)' = Until(j) - 1
              /\ Until(j) = 1 => Until(j)' = Interval(j)
              /\ loop.job = j => Work(j)' = Work(j) - 1
              /\ loop.job # j => /\ Until(j) # 1 => Work(j)' = Work(j)
                                 /\ ticker'[j].due <=> (ticker[j].due \/ Until(j) = 1)
              /\ loop.job = "none" => Work(j) = 0 /\ ~ ticker[j].due
         /\ Serving' /\ loop'.job = loop.job
         /\ loop.job # "none" => loop.job \in Jobs /\ loop'.ran = loop.ran + 1 /\ loop.ran < MaxRun[loop.job]
         /\ loop.job = "none" => ctx = "live"
         /\ loop'.first = loop.first /\ loop'.pc = loop.pc /\ loop'.outcome = loop.outcome
<1>1. /\ tod' = (IF tod = Day - 1 THEN 0 ELSE tod + 1) /\ tod \in 0 .. Day - 1
  BY Types, Clock DEF TimePasses
<1>2. ticker' = [j \in Jobs |-> Advance(ticker[j])]
  BY DEF TimePasses
<1>3. \A j \in Jobs : /\ ticker[j].left \in Nat \ {0}
                      /\ ticker'[j].due <=> (ticker[j].due \/ ticker[j].left = 1)
                      /\ ticker[j].left # 1 => ticker'[j].left = ticker[j].left - 1
                      /\ ticker[j].left = 1 => ticker'[j].left = ticker[j].every
                      /\ ticker'[j].every = ticker[j].every
  <2>1. ticker \in [Jobs -> Tickers] /\ \A j \in Jobs : ticker[j].left <= ticker[j].every
    BY Types
  <2>2. \A j \in Jobs : ticker[j].left \in Nat \ {0}
    BY <2>1 DEF Tickers
  <2> QED BY <1>2, <2>1, <2>2, AdvanceIs, AdvanceAgain
<1>4. loop.job # "none" => loop.job \in Jobs /\ loop.ran < MaxRun[loop.job]
  BY Types DEF TimePasses, MayWait, Serving, ScheduleInv, LoopInv, Loops
<1>5. loop.job = "none" => loop.pc = "select" /\ ctx = "live" /\ \A j \in Jobs : ~ ticker[j].due
  BY DEF TimePasses, MayWait, Serving, ScheduleInv, LoopInv
<1>6. /\ loop'.pc = loop.pc /\ loop'.job = loop.job /\ loop'.first = loop.first
      /\ loop'.outcome = loop.outcome
      /\ loop.job # "none" => loop'.ran = loop.ran + 1
  <2>1. CASE loop.job = "none"
    BY <2>1 DEF TimePasses
  <2>2. CASE loop.job # "none"
    <3>1. PICK l \in Loops : l = loop
      BY Types
    <3>2. loop' = [l EXCEPT !.ran = l.ran + 1]
      BY <2>2, <3>1 DEF TimePasses
    <3> QED BY <3>1, <3>2 DEF Loops
  <2> QED BY <2>1, <2>2
<1>7. \A j \in Jobs : /\ Until(j) # 1 => Until(j)' = Until(j) - 1
                      /\ Until(j) = 1 => Until(j)' = Interval(j)
  <2>1. TAKE j \in Jobs
  <2>2. CASE j = "backup"
    <3>1. Until(j) = Day - tod /\ Until(j)' = Day - tod' /\ Interval(j) = Day
      BY <2>2 DEF Until, NextDaily, Interval
    <3> QED BY <1>1, <3>1
  <2>3. CASE j # "backup"
    <3>1. Until(j) = ticker[j].left /\ Until(j)' = ticker'[j].left /\ Interval(j) = Every[j]
      BY <2>3 DEF Until, Interval
    <3> QED BY <1>3, <2>3, <3>1
  <2> QED BY <2>2, <2>3
<1>8. \A j \in Jobs : loop.job # j => (ticker'[j].due <=> (ticker[j].due \/ Until(j) = 1))
  <2>1. TAKE j \in Jobs
  <2>2. HAVE loop.job # j
  <2>3. CASE j = "backup"
    <3>1. ticker[j].due \/ ticker[j].left = Until(j)
      BY <2>2, <2>3 DEF ScheduleInv, NightInv, Until
    <3> QED BY <1>3, <3>1
  <2>4. CASE j # "backup"
    BY <1>3, <2>4 DEF Until
  <2> QED BY <2>3, <2>4
<1>9. \A j \in Jobs : loop.job = j => Work(j)' = Work(j) - 1
  <2>1. TAKE j \in Jobs
  <2>2. HAVE loop.job = j
  <2>3. Work(j) = MaxRun[j] - loop.ran /\ Work(j)' = MaxRun[j] - loop'.ran
    BY <1>6, <2>2 DEF Work
  <2>4. loop'.ran = loop.ran + 1 /\ loop.ran \in Nat
    BY <1>6, <2>2, Types DEF Loops
  <2> QED BY <2>3, <2>4
<1>10. \A j \in Jobs : loop.job # j /\ Until(j) # 1 => Work(j)' = Work(j)
  <2>1. \A j \in Jobs : loop.job # j /\ Until(j) # 1 => (Owed(j)' <=> Owed(j))
    BY <1>6, <1>8 DEF Owed
  <2> QED BY <1>6, <2>1 DEF Work
<1>11. \A j \in Jobs : loop.job = "none" => Work(j) = 0 /\ ~ ticker[j].due
  BY <1>5 DEF Work, Owed
<1>12. \A j \in Jobs : j # "backup" => ticker'[j].every = Every[j]
  BY <1>3
<1> QED BY <1>4, <1>5, <1>6, <1>7, <1>8, <1>9, <1>10, <1>11, <1>12 DEF Serving

LEMMA TimeLoad ==
  ASSUME NEW w, NEW k \in Nat, NEW wait \in Nat, Room(w, k, wait), TypeOK, ScheduleInv, TypeOK',
         TimePasses, Serving, PaceInv(w, k)
  PROVE  /\ Total(Load(w, k)') <= k * Longest(w) + (Others(w) + 1) * MaxRun[w]
         /\ loop.job \notin {"none", w} => Ahead(w, k)' <= Ahead(w, k) + Others(w) - k
<1>1. PICK f \in [Names -> Nat] : f = Load(w, k)
  BY LoadsAre
<1>2. PICK g \in [Names -> Nat] : g = Load(w, k)'
  BY LoadsAre
<1>3. \A j \in Jobs : /\ f[j] = LoadOf(Slope(w, k, j), MaxRun[j], Work(j), Until(j))
                      /\ g[j] = LoadOf(Slope(w, k, j), MaxRun[j], Work(j)', Until(j)')
  BY <1>1, <1>2, LoadsAre
<1>4. \A j \in Names \ Jobs : f[j] = 0 /\ g[j] = 0
  BY <1>1, <1>2, LoadsAre
<1>5. \A j \in Jobs :
        /\ Until(j) # 1 => Until(j)' = Until(j) - 1
        /\ Until(j) = 1 => Until(j)' = Interval(j)
        /\ loop.job = j => Work(j)' = Work(j) - 1
        /\ loop.job # j => (Until(j) # 1 => Work(j)' = Work(j))
        /\ loop.job = "none" => Work(j) = 0
  BY TimeWork DEF PaceInv
<1>6. \A j \in Jobs :
        /\ loop.job # j => g[j] <= f[j] + 1
        /\ loop.job = j => g[j] <= f[j] + 1 - Slope(w, k, j)
        /\ loop.job = "none" => g[j] <= Slope(w, k, j) * MaxRun[j]
  <2>1. TAKE j \in Jobs
  <2>10. PICK m \in Nat : m = MaxRun[j]
    OBVIOUS
  <2>2. PICK a \in 0 .. m, b \in 0 .. m : a = Work(j) /\ b = Work(j)'
    BY <2>10, WorkIs
  <2>3. PICK u \in Nat \ {0}, v \in Nat \ {0} : u = Until(j) /\ v = Until(j)'
    BY WorkIs
  <2>4. PICK s \in Nat : s = Slope(w, k, j) /\ s * m <= Interval(j)
    BY <2>10, Rooms
  <2>5. (u # 1 => v = u - 1) /\ (u = 1 => s * m <= v)
    BY <1>5, <2>3, <2>4
  <2>6. /\ ((u # 1 /\ b = a) \/ u = 1) => LoadOf(s, m, b, v) <= LoadOf(s, m, a, u) + 1
        /\ b = a - 1 => LoadOf(s, m, b, v) <= LoadOf(s, m, a, u) + 1 - s
        /\ a = 0 /\ (u # 1 => b = 0) => LoadOf(s, m, b, v) <= s * m
    BY <2>5, LoadTicks
  <2>7. f[j] = LoadOf(s, m, a, u) /\ g[j] = LoadOf(s, m, b, v)
    BY <1>3, <2>2, <2>3, <2>4, <2>10
  <2>8. /\ loop.job = j => b = a - 1
        /\ loop.job # j => (u # 1 => b = a)
        /\ loop.job = "none" => a = 0
    BY <1>5, <2>2, <2>3
  <2>9. j # "none"
    OBVIOUS
  <2> QED BY <2>4, <2>6, <2>7, <2>8, <2>9, <2>10
<1>7. /\ w \in Jobs /\ w \in Names /\ Others(w) \in Nat /\ Total(f) \in Nat /\ Total(g) \in Nat
      /\ k * Longest(w) \in Nat /\ (Others(w) + 1) * MaxRun[w] \in Nat
  <2>1. w \in Jobs /\ w \in Names /\ Others(w) \in Nat
    BY Rooms
  <2> QED BY <2>1, BusyIs, WithoutIs
<1>8. CASE loop.job = "none"
  <2>1. \A j \in Names : g[j] <= IF j \in Jobs THEN Slope(w, k, j) * MaxRun[j] ELSE 0
    <3>1. TAKE j \in Names
    <3>2. CASE j \in Jobs
      BY <1>6, <1>8, <3>2
    <3>3. CASE j \notin Jobs
      BY <1>4, <3>3
    <3> QED BY <3>2, <3>3
  <2>2. Total(g) <= k * Longest(w) + (Others(w) + 1) * MaxRun[w]
    BY <1>7, <2>1, TotalFull
  <2> QED BY <1>2, <1>8, <2>2
<1>9. CASE loop.job # "none"
  <2>1. PICK r \in Jobs : r = loop.job
    BY <1>9, TimeWork DEF PaceInv
  <2>2. PICK s \in Nat : s = Slope(w, k, r) /\ Others(w) + 1 <= s
    BY Rooms
  <2>3. \A j \in Names : g[j] <= f[j] + (IF j \in Jobs THEN 1 ELSE 0) - (IF j = r THEN s ELSE 0)
    <3>1. TAKE j \in Names
    <3>2. f[j] \in Nat /\ g[j] \in Nat
      OBVIOUS
    <3>3. CASE j \notin Jobs
      BY <1>4, <2>1, <3>3
    <3>4. CASE j \in Jobs /\ j = r
      BY <1>6, <2>1, <2>2, <3>4
    <3>5. CASE j \in Jobs /\ j # r
      BY <1>6, <2>1, <3>2, <3>5
    <3> QED BY <3>3, <3>4, <3>5
  <2>4. /\ Total(g) <= Total(f) + Others(w) + 1 - s
        /\ r # w => Total([g EXCEPT ![w] = 0]) <= Total([f EXCEPT ![w] = 0]) + Others(w) - s
    BY <1>7, <2>3, TotalRuns
  <2>5. Total(f) <= k * Longest(w) + (Others(w) + 1) * MaxRun[w]
    BY <1>1 DEF PaceInv
  <2>6. Total(g) <= k * Longest(w) + (Others(w) + 1) * MaxRun[w]
    BY <1>7, <2>2, <2>4, <2>5
  <2>7. r # w => s = k
    BY <2>2 DEF Slope
  <2>8. Ahead(w, k) = Total([f EXCEPT ![w] = 0]) /\ Ahead(w, k)' = Total([g EXCEPT ![w] = 0])
    BY <1>1, <1>2 DEF Ahead
  <2> QED BY <1>2, <2>1, <2>4, <2>6, <2>7, <2>8
<1> QED BY <1>8, <1>9

(* serve starts with at most one run of each job to do. *)
LEMMA BootLoad ==
  ASSUME NEW w, NEW k \in Nat, NEW wait \in Nat, Room(w, k, wait), TypeOK, ScheduleInv, TypeOK', Boot
  PROVE  Total(Load(w, k)') <= k * Longest(w) + (Others(w) + 1) * MaxRun[w]
<1>1. PICK g \in [Names -> Nat] : g = Load(w, k)'
  BY LoadsAre
<1>2. /\ ticker' = Armed /\ tod' = tod /\ loop' = Run(IF "prune" \in Jobs THEN "prune" ELSE "sync", TRUE)
  BY DEF Boot
<1>3. loop'.job \in {"prune", "sync"}
  BY <1>2, RunIs
<1>4. \A j \in Jobs : ~ Armed[j].due /\ (j # "backup" => Armed[j].left = Every[j])
  BY ArmedIs DEF Armed, NewTicker
<1>5. \A j \in Jobs : Work(j)' = 0 \/ Until(j)' = Interval(j)
  <2>1. \A j \in Jobs : j = "backup" => Work(j)' = 0
    BY <1>2, <1>3, <1>4 DEF Work, Owed
  <2>2. \A j \in Jobs : j # "backup" => Until(j)' = Interval(j)
    BY <1>2, <1>4 DEF Until, Interval
  <2> QED BY <2>1, <2>2
<1>6. \A j \in Jobs : g[j] <= Slope(w, k, j) * MaxRun[j]
  <2>1. TAKE j \in Jobs
  <2>9. PICK m \in Nat : m = MaxRun[j]
    OBVIOUS
  <2>2. PICK b \in 0 .. m, v \in Nat \ {0} : b = Work(j)' /\ v = Until(j)'
    BY <2>9, WorkIs
  <2>3. PICK s \in Nat : s = Slope(w, k, j) /\ s * m <= Interval(j)
    BY <2>9, Rooms
  <2>4. b = 0 \/ s * m <= v
    BY <1>5, <2>2, <2>3
  <2>5. s * b \in Nat /\ s * m \in Nat /\ s * b <= s * m /\ (b = 0 => s * b = 0)
    BY Times
  <2>6. PICK p \in Nat, q \in Nat : p = s * b /\ q = s * m
    BY <2>5
  <2>7. LoadOf(s, m, b, v) = p + (IF v < q THEN q - v ELSE 0)
    BY <2>6 DEF LoadOf
  <2>8. LoadOf(s, m, b, v) <= q
    BY <2>4, <2>5, <2>6, <2>7
  <2> QED BY <1>1, <2>2, <2>3, <2>6, <2>8, <2>9, LoadsAre
<1>7. \A j \in Names : g[j] <= IF j \in Jobs THEN Slope(w, k, j) * MaxRun[j] ELSE 0
  <2>1. TAKE j \in Names
  <2>2. CASE j \in Jobs
    BY <1>6, <2>2
  <2>3. CASE j \notin Jobs
    <3>1. g[j] = 0
      BY <1>1, <2>3, LoadsAre
    <3> QED BY <2>3, <3>1
  <2> QED BY <2>2, <2>3
<1> QED BY <1>1, <1>7, Rooms, TotalFull

LEMMA EveryArmed ==
  ASSUME TypeOK
  PROVE  \A j \in Jobs \ {"backup"} : Armed[j].every = Every[j]
  BY ArmedIs DEF Armed, NewTicker

LEMMA Kinds ==
  ASSUME [Next]_vars
  PROVE  Boot \/ Gone \/ TimePasses \/ Quiet
  BY DEF Next, Quiet, Stop, Crash

LEMMA PaceStep ==
  ASSUME NEW w, NEW k \in Nat, NEW wait \in Nat, Room(w, k, wait), TypeOK, ScheduleInv, TypeOK',
         [Next]_vars, PaceInv(w, k)
  PROVE  PaceInv(w, k)'
<1>1. ASSUME \A j \in Jobs \ {"backup"} : ticker'[j].every = Every[j],
             Serving' => Total(Load(w, k)') <= k * Longest(w) + (Others(w) + 1) * MaxRun[w]
      PROVE  PaceInv(w, k)'
  BY <1>1 DEF PaceInv
<1>2. CASE Boot
  BY <1>1, <1>2, BootLoad, EveryArmed DEF Boot
<1>3. CASE Gone
  <2>1. ticker' = Armed /\ ~ Serving'
    BY <1>3, IdleIs DEF Gone, Serving
  <2> QED BY <1>1, <2>1, EveryArmed
<1>4. CASE TimePasses
  <2>1. CASE Serving
    <3>1. \A j \in Jobs \ {"backup"} : ticker'[j].every = Every[j]
      BY <1>4, <2>1, TimeWork DEF PaceInv
    <3> QED BY <1>1, <1>4, <2>1, <3>1, TimeLoad
  <2>2. CASE ~ Serving
    <3>1. ticker' = ticker
      BY <1>4, <2>2 DEF TimePasses
    <3>2. ~ Serving'
      BY <1>4, <2>2 DEF TimePasses, Serving, ScheduleInv, LoopInv
    <3> QED BY <1>1, <3>1, <3>2 DEF PaceInv
  <2> QED BY <2>1, <2>2
<1>5. CASE Quiet
  <2>1. /\ \A j \in Jobs : /\ Work(j)' <= Work(j) /\ Until(j)' = Until(j)
                           /\ j # "backup" => ticker'[j].every = ticker[j].every
        /\ Serving' = Serving
    BY <1>5, QuietWork
  <2>2. Total(Load(w, k)') <= Total(Load(w, k))
    BY <2>1, LoadsFall
  <2>3. /\ Total(Load(w, k)) \in Nat /\ Total(Load(w, k)') \in Nat
        /\ k * Longest(w) + (Others(w) + 1) * MaxRun[w] \in Nat
    <3>1. k * Longest(w) \in Nat /\ (Others(w) + 1) * MaxRun[w] \in Nat
      BY BusyIs
    <3>2. Load(w, k) \in [Names -> Nat] /\ Load(w, k)' \in [Names -> Nat] /\ w \in Names
      BY LoadsAre, Rooms
    <3>3. \A f \in [Names -> Nat] : Total(f) \in Nat
      BY <3>2, WithoutIs
    <3> QED BY <3>1, <3>2, <3>3
  <2> QED BY <1>1, <2>1, <2>2, <2>3 DEF PaceInv
<1> QED BY <1>2, <1>3, <1>4, <1>5, Kinds

-----------------------------------------------------------------------------
(* How late a job is *)

LEMMA NotLate ==
  ASSUME NEW w, NEW k \in Nat, NEW wait \in Nat, Room(w, k, wait),
         NEW x \in Int, NEW a \in Nat, (k - Others(w)) * x + a <= k * Longest(w)
  PROVE  x <= wait
<1>1. PICK d \in Nat \ {0} : d = k - Others(w)
  BY Rooms
<1>2. PICK b \in Nat : b = k * Longest(w)
  BY BusyIs
<1>3. b <= d * wait /\ d * x + a <= b
  BY <1>1, <1>2 DEF Room
<1>4. CASE x \in Nat
  <2>1. SUFFICES ASSUME wait + 1 <= x PROVE FALSE
    BY <1>4
  <2>2. d * (wait + 1) <= d * x /\ d * x \in Nat /\ d * wait \in Nat /\ d * (wait + 1) = d * wait + d
    BY <1>4, <2>1, Times
  <2>3. PICK p \in Nat, q \in Nat : p = d * wait /\ q = d * x
    BY <2>2
  <2>4. b <= p /\ q + a <= b /\ p + d <= q
    BY <1>3, <2>2, <2>3
  <2> QED BY <2>4
<1>5. CASE x \notin Nat
  BY <1>5
<1> QED BY <1>4, <1>5

(* What a step that takes no time may do: start a job, go on with one, or  *)
(* be done with it.                                                        *)
Moves == /\ ticker' = ticker /\ loop'.job = loop.job /\ loop'.ran = loop.ran
         /\ loop'.first = loop.first
         /\ smooth' => smooth
         /\ smooth' /\ loop.job = "sync" /\ loop'.pc # "job" =>
               loop'.outcome = "ok" \/ (loop'.outcome = loop.outcome /\ loop.pc # "job")
         /\ UNCHANGED <<health, tonight, upAllDay>>
         /\ ctx' = "live" => ctx = "live"

Ends(i) == /\ loop.job = i /\ Finished(i)
           /\ i = "sync" => Record
           /\ i # "sync" => UNCHANGED <<health, smooth>>
           /\ UNCHANGED <<tod, ctx, tonight, upAllDay>>

LEMMA Shapes ==
  ASSUME TypeOK, ScheduleInv, Quiet
  PROVE  \/ \E i \in Jobs : Start(i)
         \/ Moves
         \/ \E i \in Jobs : Ends(i)
<1>1. CASE \E i \in Jobs : Start(i)
  BY <1>1
<1>2. CASE FinishAny
  <2>1. PICK i \in Jobs, o \in Said : Finish(i, o)
    BY <1>2 DEF FinishAny, Said
  <2>2. /\ loop.pc = "job" /\ loop.job = i
        /\ UNCHANGED <<tod, ctx, health, told, tonight, upAllDay>>
    BY <2>1 DEF Finish
  <2>3. CASE i = "sync"
    <3>1. PICK l \in Loops : l = loop
      BY Types
    <3>2. loop' = [l EXCEPT !.pc = "ping", !.outcome = o] /\ ticker' = ticker /\ smooth' = (smooth /\ o = "ok")
      BY <2>1, <2>3, <3>1 DEF Finish
    <3>3. loop'.job = l.job /\ loop'.ran = l.ran /\ loop'.first = l.first /\ loop'.outcome = o
      BY <3>2 DEF Loops
    <3>4. smooth' => smooth /\ o = "ok"
      BY <3>2
    <3> QED BY <2>2, <3>1, <3>2, <3>3, <3>4 DEF Moves
  <2>4. CASE i = "backup"
    <3>1. PICK l \in Loops : l = loop
      BY Types
    <3>2. loop' = [l EXCEPT !.pc = "status", !.outcome = o] /\ ticker' = ticker /\ smooth' = smooth
      BY <2>1, <2>4, <3>1 DEF Finish
    <3>3. loop'.job = l.job /\ loop'.ran = l.ran /\ loop'.first = l.first
      BY <3>2 DEF Loops
    <3> QED BY <2>2, <2>4, <3>1, <3>2, <3>3 DEF Moves
  <2>5. CASE i \notin {"sync", "backup"}
    <3>1. Finished(i) /\ smooth' = smooth
      BY <2>1, <2>5 DEF Finish
    <3> QED BY <2>2, <2>5, <3>1 DEF Ends
  <2> QED BY <2>3, <2>4, <2>5
<1>3. CASE Ping
  <2>1. /\ loop' = [loop EXCEPT !.pc = "status"] /\ loop.pc = "ping"
        /\ UNCHANGED <<ticker, ctx, health, tonight, upAllDay, smooth>>
    BY <1>3 DEF Ping
  <2>2. "status" \in Pcs
    BY DEF Pcs
  <2> QED BY <2>1, <2>2, Types, LoopPc DEF Moves
<1>4. CASE Status
  <2>1. loop.pc = "status" /\ UNCHANGED <<tod, ctx, health, tonight, upAllDay, smooth>>
    BY <1>4 DEF Status
  <2>2. CASE loop.job = "sync"
    <3>1. loop' = [loop EXCEPT !.pc = "health"] /\ ticker' = ticker
      BY <1>4, <2>2 DEF Status
    <3>2. "health" \in Pcs
      BY DEF Pcs
    <3> QED BY <2>1, <3>1, <3>2, Types, LoopPc DEF Moves
  <2>3. CASE loop.job # "sync"
    <3>1. Finished(loop.job)
      BY <1>4, <2>3 DEF Status
    <3>2. loop.job \in Jobs
      BY <2>1, Types DEF ScheduleInv, LoopInv, Loops
    <3> QED BY <2>1, <2>3, <3>1, <3>2 DEF Ends
  <2> QED BY <2>2, <2>3
<1>5. CASE Record
  <2>1. loop.pc = "health" /\ Finished("sync") /\ UNCHANGED <<tod, ctx, tonight, upAllDay>>
    BY <1>5 DEF Record
  <2>2. loop.job = "sync"
    BY <2>1 DEF ScheduleInv, LoopInv
  <2> QED BY <1>5, <2>1, <2>2 DEF Ends
<1>6. CASE Shutdown \/ UNCHANGED vars
  <2>1. UNCHANGED <<ticker, loop, health, tonight, upAllDay, smooth>> /\ (ctx' = ctx \/ ctx' = "ended")
    BY <1>6 DEF Shutdown, vars
  <2> QED BY <2>1 DEF Moves
<1> QED BY <1>1, <1>2, <1>3, <1>4, <1>5, <1>6 DEF Quiet

LEMMA QuietWaits ==
  ASSUME TypeOK, ScheduleInv, Quiet, NEW w \in Jobs
  PROVE  /\ Waiting(w)' => Waiting(w)
         /\ Waiting(w) /\ loop'.job # w => Waiting(w)'
         /\ loop'.job = w => \/ loop.job = w /\ loop'.ran = loop.ran
                             \/ Start(w)
                             \/ loop.first /\ w = "sync"
         /\ Start(w) => Waiting(w) /\ loop'.job = w /\ loop'.ran = 0
<1>1. Serving' = Serving
  BY QuietWork
<1>2. ASSUME NEW i \in Jobs, Start(i)
      PROVE  /\ loop'.job = i /\ loop'.ran = 0 /\ Waiting(i) /\ loop.job = "none"
             /\ \A j \in Jobs : j # i => ticker'[j] = ticker[j]
  <2>1. /\ loop.pc = "select" /\ ticker[i].due
        /\ ticker' = [ticker EXCEPT ![i].due = FALSE] /\ loop' = Run(i, FALSE)
    BY <1>2 DEF Start
  <2>2. loop.job = "none" /\ i # "none"
    BY <2>1 DEF ScheduleInv, LoopInv
  <2>3. loop'.job = i /\ loop'.ran = 0
    <3>1. Run(i, FALSE).job = i /\ Run(i, FALSE).ran = 0
      BY RunIs
    <3>2. loop' = Run(i, FALSE)
      BY <2>1
    <3> QED BY <3>1, <3>2
  <2>4. Waiting(i)
    BY <2>1, <2>2 DEF Waiting, Serving
  <2>5. \A j \in Jobs : j # i => ticker'[j] = ticker[j]
    <3>1. PICK u : ticker' = [ticker EXCEPT ![i] = u]
      BY <2>1
    <3> QED BY <3>1, Types
  <2> QED BY <2>2, <2>3, <2>4, <2>5
<1>3. Start(w) => Waiting(w) /\ loop'.job = w /\ loop'.ran = 0
  BY <1>2
<1>4. CASE \E i \in Jobs : Start(i)
  <2>1. PICK i \in Jobs : Start(i)
    BY <1>4
  <2>2. CASE i = w
    BY <1>2, <2>1, <2>2 DEF Waiting
  <2>3. CASE i # w
    <3>1. /\ loop'.job = i /\ loop'.job # w /\ loop.job = "none" /\ w # "none" /\ ticker'[w] = ticker[w]
      BY <1>2, <2>1, <2>3
    <3> QED BY <1>1, <1>3, <3>1 DEF Waiting
  <2> QED BY <2>2, <2>3
<1>5. CASE Moves
  BY <1>1, <1>3, <1>5 DEF Waiting, Moves
<1>6. CASE \E i \in Jobs : Ends(i)
  <2>1. PICK i \in Jobs : Ends(i)
    BY <1>6
  <2>2. loop.job = i /\ Finished(i) /\ tod' = tod
    BY <2>1 DEF Ends
  <2>3. ~ ticker'[i].due
    BY <2>2, FinishedWork
  <2>4. \A j \in Jobs : j # i => ticker'[j] = ticker[j]
    BY <2>2, Types DEF Finished, AfterJob
  <2>5. loop'.job = "none" \/ (loop'.job = "sync" /\ loop.first)
    BY <2>2, IdleIs, RunIs DEF Finished
  <2>6. w # "none"
    OBVIOUS
  <2> QED BY <1>1, <1>3, <2>2, <2>3, <2>4, <2>5, <2>6 DEF Waiting
<1> QED BY <1>4, <1>5, <1>6, Shapes

LEMMA BackupStep ==
  ASSUME NEW k \in Nat, NEW wait \in Nat, Room("backup", k, wait), wait + MaxRun["backup"] + 1 < Day,
         TypeOK, ScheduleInv, PaceInv("backup", k), TypeOK', PaceInv("backup", k)',
         BackupInv(k, wait), [Next]_vars
  PROVE  BackupInv(k, wait)'
<1>1. /\ "backup" \in Jobs /\ Others("backup") \in Nat /\ k * Longest("backup") \in Nat
      /\ Ahead("backup", k) \in Nat /\ Ahead("backup", k)' \in Nat
      /\ tod \in 0 .. Day - 1 /\ tod' \in 0 .. Day - 1
  BY Rooms, BusyIs, AheadIs DEF TypeOK
<1>2. PICK d \in Nat \ {0}, n \in Nat : n = Others("backup") /\ d = k - n
  BY <1>1, Rooms
<1>3. PICK b \in Nat, a \in Nat, z \in Nat :
        b = k * Longest("backup") /\ a = Ahead("backup", k) /\ z = Ahead("backup", k)'
  BY <1>1
<1>4. /\ Waiting("backup") => d * tod + a <= b
      /\ loop.job = "backup" => tod <= wait + loop.ran
      /\ upAllDay => Serving /\ (tonight = 1 \/ Waiting("backup"))
  BY <1>2, <1>3 DEF BackupInv
<1>5. ASSUME Waiting("backup")' => d * tod' + z <= b,
             loop'.job = "backup" => tod' <= wait + loop'.ran,
             upAllDay' => Serving' /\ (tonight' = 1 \/ Waiting("backup")')
      PROVE  BackupInv(k, wait)'
  BY <1>2, <1>3, <1>5 DEF BackupInv
<1>6. CASE Boot \/ Gone
  <2>1. ~ ticker'["backup"].due
    BY <1>1, <1>6, ArmedIs DEF Boot, Gone
  <2>2. loop'.job \in {"none", "sync", "prune"}
    <3>1. CASE Boot
      BY <3>1, RunIs DEF Boot
    <3>2. CASE Gone
      BY <3>2, IdleIs DEF Gone
    <3> QED BY <1>6, <3>1, <3>2
  <2>3. ~ upAllDay'
    BY <1>4, <1>6 DEF Boot, Gone
  <2> QED BY <1>5, <2>1, <2>2, <2>3 DEF Waiting
<1>7. CASE TimePasses
  <2>1. tod' = (IF tod = Day - 1 THEN 0 ELSE tod + 1)
    BY <1>1, <1>7, Clock DEF TimePasses
  <2>2. CASE ~ Serving
    <3>1. loop.job = "none" /\ ~ upAllDay
      BY <1>4, <2>2 DEF ScheduleInv, LoopInv, Serving
    <3>2. loop' = loop /\ ~ upAllDay' /\ ~ Serving'
      BY <1>7, <2>2, <3>1 DEF TimePasses, Serving
    <3> QED BY <1>5, <3>1, <3>2 DEF Waiting
  <2>3. CASE Serving
    <3>1. /\ loop.job # "backup" =>
                 (ticker'["backup"].due <=> (ticker["backup"].due \/ Until("backup") = 1))
          /\ loop.job = "none" => ~ ticker["backup"].due
          /\ Serving' /\ loop'.job = loop.job
          /\ loop.job # "none" => loop'.ran = loop.ran + 1 /\ loop.ran < MaxRun[loop.job]
      BY <1>1, <1>7, <2>3, TimeWork DEF PaceInv
    <3>2. Until("backup") = 1 <=> tod = Day - 1
      BY <1>1 DEF Until, NextDaily
    <3>3. loop.ran \in Nat
      BY Types DEF Loops
    <3>4. Waiting("backup")' => d * tod' + z <= b
      <4>1. HAVE Waiting("backup")'
      <4>2. loop.job # "backup" /\ (ticker["backup"].due \/ tod = Day - 1)
        BY <3>1, <3>2, <4>1 DEF Waiting
      <4>3. CASE ticker["backup"].due
        <5>1. d * tod + a <= b /\ loop.job \notin {"none", "backup"}
          BY <1>4, <2>3, <3>1, <4>2, <4>3 DEF Waiting
        <5>2. z <= a + n - k
          BY <1>2, <1>3, <1>7, <2>3, <5>1, TimeLoad
        <5>3. z <= a - d
          BY <1>2, <5>2
        <5>4. CASE tod' = 0
          <6>1. d * tod \in Nat /\ d * tod' = 0
            BY <1>1, <5>4, Times
          <6> QED BY <5>1, <5>3, <6>1
        <5>5. CASE tod' # 0
          <6>1. tod' = tod + 1
            BY <2>1, <5>5
          <6>2. d * tod \in Nat /\ d * tod' = d * tod + d
            <7>1. PICK t \in Nat : t = tod
              BY <1>1
            <7>2. d * t \in Nat /\ d * (t + 1) = d * t + d
              BY Times
            <7> QED BY <6>1, <7>1, <7>2
          <6>3. PICK p \in Nat : p = d * tod
            BY <6>2
          <6> QED BY <5>1, <5>3, <6>2, <6>3
        <5> QED BY <5>4, <5>5
      <4>4. CASE ~ ticker["backup"].due
        <5>1. tod' = 0
          BY <2>1, <4>2, <4>4
        <5>2. Work("backup")' = MaxRun["backup"]
          BY <4>1 DEF Waiting, Work, Owed
        <5>3. z <= b
          BY <1>3, <3>1, <5>2, AheadFits
        <5> QED BY <5>1, <5>3
      <4> QED BY <4>3, <4>4
    <3>5. loop'.job = "backup" => tod' <= wait + loop'.ran
      BY <1>1, <1>4, <2>1, <3>1, <3>3
    <3>6. upAllDay' => Serving' /\ (tonight' = 1 \/ Waiting("backup")')
      <4>1. HAVE upAllDay'
      <4>2. CASE tod' = 0
        <5>1. tod = Day - 1
          BY <1>1, <2>1, <4>2
        <5>4. "backup" \in Jobs
          BY Rooms
        <5>3. PICK m \in Nat : m = MaxRun["backup"] /\ wait + m + 1 < Day
          BY <5>4
        <5>2. loop.job # "backup"
          BY <1>1, <1>4, <3>1, <3>3, <5>1, <5>3
        <5> QED BY <3>1, <3>2, <5>1, <5>2 DEF Waiting
      <4>3. CASE tod' # 0
        <5>1. upAllDay /\ tonight' = tonight
          BY <1>7, <4>1, <4>3 DEF TimePasses
        <5> QED BY <1>4, <3>1, <5>1 DEF Waiting
      <4> QED BY <4>2, <4>3
    <3> QED BY <1>5, <3>4, <3>5, <3>6
  <2> QED BY <2>2, <2>3
<1>8. CASE Quiet
  <2>1. Serving' = Serving /\ tod' = tod /\ z <= a
    BY <1>3, <1>8, QuietWork, LoadsFall
  <2>2. /\ Waiting("backup")' => Waiting("backup")
        /\ Waiting("backup") /\ loop'.job # "backup" => Waiting("backup")'
        /\ loop'.job = "backup" => \/ loop.job = "backup" /\ loop'.ran = loop.ran
                                   \/ Start("backup")
        /\ Start("backup") => Waiting("backup") /\ loop'.job = "backup" /\ loop'.ran = 0
    BY <1>1, <1>8, QuietWaits
  <2>3. Waiting("backup")' => d * tod' + z <= b
    <3>1. HAVE Waiting("backup")'
    <3>2. d * tod \in Nat /\ d * tod + a <= b
      BY <1>1, <1>4, <2>2, <3>1, Times
    <3>3. PICK p \in Nat : p = d * tod
      BY <3>2
    <3>4. p + a <= b
      BY <3>2, <3>3
    <3>5. p + z <= b
      BY <2>1, <3>4
    <3> QED BY <2>1, <3>3, <3>5
  <2>4. CASE Start("backup")
    <3>1. tonight = 0 /\ ~ (loop.job = "backup")
      <4>1. Serving /\ loop.job # "backup" /\ ticker["backup"].due
        BY <2>2, <2>4 DEF Waiting
      <4> QED BY <1>1, <4>1 DEF ScheduleInv, NightInv
    <3>2. tonight' = 1 /\ upAllDay' = upAllDay
      BY <2>4, <3>1 DEF Start
    <3>3. tod <= wait
      <4>1. (k - Others("backup")) * tod + a <= k * Longest("backup")
        BY <1>2, <1>3, <1>4, <2>2, <2>4
      <4>2. tod \in Int
        BY <1>1
      <4> QED BY <4>1, <4>2, NotLate
    <3> QED BY <1>4, <1>5, <2>1, <2>2, <2>3, <2>4, <3>2, <3>3
  <2>5. CASE ~ Start("backup")
    <3>1. tonight' = tonight /\ upAllDay' = upAllDay
      <4>1. CASE \E i \in Jobs : Start(i)
        BY <2>5, <4>1 DEF Start
      <4> QED BY <1>8, <4>1, Shapes DEF Moves, Ends
    <3>2. loop'.job = "backup" => tod' <= wait + loop'.ran
      BY <1>4, <2>1, <2>2, <2>5
    <3>3. Waiting("backup") => Waiting("backup")'
      BY <2>2, <2>5 DEF Waiting
    <3> QED BY <1>4, <1>5, <2>1, <2>3, <3>1, <3>2, <3>3
  <2> QED BY <2>4, <2>5
<1> QED BY <1>6, <1>7, <1>8, Kinds

LEMMA RecordLoop ==
  ASSUME TypeOK, ScheduleInv, Record
  PROVE  /\ loop' = Idle /\ ~ Waiting("sync")' /\ Serving'
         /\ ctx = "live" => /\ smooth' <=> (smooth \/ loop.outcome = "ok")
                            /\ loop.outcome = "ok" => health' = 0
         /\ ctx' = ctx /\ (ctx # "live" => smooth' = smooth)
<1>1. Finished("sync") /\ tod' = tod /\ loop.job = "sync"
  BY DEF Record, ScheduleInv, LoopInv
<1>2. ~ ticker'["sync"].due
  BY <1>1, FinishedWork
<1>3. loop' = Idle
  BY <1>1 DEF Finished
<1>4. ctx = "live" => /\ smooth' = (smooth \/ loop.outcome = "ok")
                      /\ health' = Recorded(loop.outcome)
  BY DEF Record
<1>5. ctx' = ctx /\ (ctx # "live" => smooth' = smooth)
  BY DEF Record
<1> QED BY <1>2, <1>3, <1>4, <1>5, IdleIs DEF Waiting, Serving, Recorded

(* Three ways a sync is late: its ticker counts, it waits, or it runs. *)
LEMMA SyncStep ==
  ASSUME NEW k \in Nat, NEW wait \in Nat, Room("sync", k, wait),
         TypeOK, ScheduleInv, PaceInv("sync", k), TypeOK', PaceInv("sync", k)',
         SyncInv(k, wait), [Next]_vars
  PROVE  SyncInv(k, wait)'
<1>1. /\ "sync" \in Jobs /\ Others("sync") \in Nat /\ k * Longest("sync") \in Nat
      /\ Ahead("sync", k) \in Nat /\ Ahead("sync", k)' \in Nat
      /\ health \in Nat /\ health' \in Nat
  BY Rooms, BusyIs, AheadIs, Units DEF TypeOK, Stale, StaleAfter
<1>2. PICK d \in Nat \ {0}, n \in Nat : n = Others("sync") /\ d = k - n
  BY <1>1, Rooms
<1>3. PICK b \in Nat, a \in Nat, z \in Nat, e \in Nat :
        b = k * Longest("sync") /\ a = Ahead("sync", k) /\ z = Ahead("sync", k)' /\ e = Every["sync"]
  BY <1>1, Units
<1>4. /\ smooth => Serving /\ ~ loop.first
      /\ smooth /\ loop.job = "sync" /\ loop.pc # "job" => loop.outcome = "ok"
      /\ smooth /\ ctx = "live" =>
           /\ loop.job = "sync" => health <= e + wait + loop.ran
           /\ Waiting("sync") => d * (health - e) + a <= b
           /\ loop.job # "sync" /\ ~ Waiting("sync") => health + ticker["sync"].left <= e
  BY <1>2, <1>3 DEF SyncInv, Waiting
<1>5. ASSUME smooth' => Serving' /\ ~ loop'.first,
             smooth' /\ loop'.job = "sync" /\ loop'.pc # "job" => loop'.outcome = "ok",
             smooth' /\ ctx' = "live" =>
               /\ loop'.job = "sync" => health' <= e + wait + loop'.ran
               /\ Waiting("sync")' => d * (health' - e) + z <= b
               /\ loop'.job # "sync" /\ ~ Waiting("sync")' => health' + ticker'["sync"].left <= e
      PROVE  SyncInv(k, wait)'
  BY <1>2, <1>3, <1>5 DEF SyncInv, Waiting
<1>6. CASE Boot \/ Gone
  <2>1. ~ smooth'
    BY <1>4, <1>6 DEF Boot, Gone
  <2> QED BY <1>5, <2>1
<1>7. CASE TimePasses
  <2>1. smooth' = smooth /\ ctx' = ctx /\ health' \in {health, health + 1}
    BY <1>7 DEF TimePasses, Older
  <2>2. CASE ~ Serving
    BY <1>4, <1>5, <2>1, <2>2
  <2>3. CASE Serving
    <3>1. /\ loop.job # "sync" =>
                 (ticker'["sync"].due <=> (ticker["sync"].due \/ Until("sync") = 1))
          /\ Until("sync") # 1 => Until("sync")' = Until("sync") - 1
          /\ loop.job = "none" => ~ ticker["sync"].due
          /\ Serving' /\ loop'.job = loop.job /\ loop'.first = loop.first /\ loop'.pc = loop.pc
          /\ loop'.outcome = loop.outcome
          /\ loop.job # "none" => loop'.ran = loop.ran + 1 /\ loop.ran < MaxRun[loop.job]
      BY <1>1, <1>7, <2>3, TimeWork DEF PaceInv
    <3>2. Until("sync") = ticker["sync"].left /\ Until("sync")' = ticker'["sync"].left
      BY DEF Until
    <3>3. loop.ran \in Nat /\ ticker["sync"].left \in Nat \ {0} /\ ticker'["sync"].left \in Nat \ {0}
      BY <1>1 DEF TypeOK
    <3>4. ASSUME smooth, ctx = "live", loop'.job = "sync" PROVE health' <= e + wait + loop'.ran
      BY <1>1, <1>4, <2>1, <3>1, <3>3, <3>4
    <3>5. ASSUME smooth, ctx = "live", Waiting("sync")' PROVE d * (health' - e) + z <= b
      <4>1. loop.job # "sync" /\ (ticker["sync"].due \/ Until("sync") = 1)
        BY <3>1, <3>5 DEF Waiting
      <4>2. PICK age \in Nat, older \in Nat : age = health /\ older = health' /\ (older = age \/ older = age + 1)
        BY <1>1, <2>1
      <4>5. PICK late \in Int, later \in Int : late = age - e /\ later = older - e
        OBVIOUS
      <4>6. later = late \/ later = late + 1
        <5>1. older = age \/ older = age + 1
          BY <4>2
        <5> QED BY <4>5, <5>1
      <4>7. later = health' - e
        BY <4>2, <4>5
      <4>3. CASE ticker["sync"].due
        <5>1. d * late + a <= b /\ loop.job \notin {"none", "sync"}
          BY <1>4, <2>3, <3>1, <3>5, <4>1, <4>2, <4>3, <4>5 DEF Waiting
        <5>2. z <= a + n - k
          BY <1>2, <1>3, <1>7, <2>3, <5>1, TimeLoad
        <5>3. z <= a - d
          BY <1>2, <5>2
        <5>4. d * late \in Int /\ d * (late + 1) = d * late + d
          OBVIOUS
        <5>5. PICK p \in Int, q \in Int : p = d * late /\ q = d * later /\ q <= p + d
          BY <4>6, <5>4
        <5>6. p + a <= b
          BY <5>1, <5>5
        <5>7. q + z <= b
          BY <5>3, <5>5, <5>6
        <5> QED BY <4>7, <5>5, <5>7
      <4>4. CASE ~ ticker["sync"].due
        <5>1. age + 1 <= e
          BY <1>4, <3>2, <3>5, <4>1, <4>2, <4>4 DEF Waiting
        <5>2. later <= 0
          BY <4>5, <4>6, <5>1
        <5>3. Work("sync")' = MaxRun["sync"]
          BY <3>5 DEF Waiting, Work, Owed
        <5>4. z <= b
          BY <1>3, <3>1, <5>3, AheadFits
        <5>5. d * later <= 0 /\ d * later \in Int
          <6>1. PICK m \in Nat : m = 0 - later
            BY <5>2
          <6>2. d * m \in Nat /\ d * later = 0 - d * m
            BY <6>1
          <6> QED BY <6>2
        <5>6. PICK q \in Int : q = d * later
          BY <5>5
        <5> QED BY <4>7, <5>4, <5>5, <5>6
      <4> QED BY <4>3, <4>4
    <3>6. ASSUME smooth, ctx = "live", loop'.job # "sync", ~ Waiting("sync")'
          PROVE  health' + ticker'["sync"].left <= e
      <4>1. ~ ticker'["sync"].due /\ loop.job # "sync"
        BY <3>1, <3>6 DEF Waiting
      <4>2. ~ ticker["sync"].due /\ Until("sync") # 1
        BY <3>1, <4>1
      <4>3. health + ticker["sync"].left <= e /\ ticker'["sync"].left = ticker["sync"].left - 1
        BY <1>4, <3>1, <3>2, <3>6, <4>1, <4>2 DEF Waiting
      <4> QED BY <1>1, <2>1, <3>3, <4>3
    <3> QED BY <1>4, <1>5, <2>1, <3>1, <3>4, <3>5, <3>6
  <2> QED BY <2>2, <2>3
<1>8. CASE Quiet
  <2>1. Serving' = Serving /\ z <= a /\ Until("sync")' = Until("sync")
    BY <1>1, <1>3, <1>8, QuietWork, LoadsFall
  <2>2. ticker'["sync"].left = ticker["sync"].left
    BY <2>1 DEF Until
  <2>3. /\ Waiting("sync")' => Waiting("sync")
        /\ Waiting("sync") /\ loop'.job # "sync" => Waiting("sync")'
        /\ loop'.job = "sync" => \/ loop.job = "sync" /\ loop'.ran = loop.ran
                                 \/ Start("sync")
                                 \/ loop.first
        /\ Start("sync") => Waiting("sync") /\ loop'.job = "sync" /\ loop'.ran = 0
    BY <1>1, <1>8, QuietWaits
  <2>4. smooth /\ ctx = "live" /\ Waiting("sync") => d * (health - e) + z <= b
    <3>1. HAVE smooth /\ ctx = "live" /\ Waiting("sync")
    <3>2. PICK p \in Int : p = d * (health - e)
      BY <1>1
    <3>3. p + a <= b
      BY <1>4, <3>1, <3>2
    <3>4. p + z <= b
      BY <2>1, <3>3
    <3> QED BY <3>2, <3>4
  <2>5. ASSUME smooth, ctx = "live", Start("sync") PROVE health <= e + wait
    <3>1. (k - Others("sync")) * (health - e) + a <= k * Longest("sync")
      BY <1>2, <1>3, <1>4, <2>3, <2>5
    <3>2. health - e \in Int
      BY <1>1
    <3>3. health - e <= wait
      BY <3>1, <3>2, NotLate
    <3> QED BY <1>1, <3>3
  <2>6. ASSUME smooth' => smooth, ctx' = "live" => ctx = "live", health' = health,
               smooth' /\ loop.job = "sync" => loop'.job = "sync"
        PROVE  smooth' /\ ctx' = "live" =>
               /\ loop'.job = "sync" => health' <= e + wait + loop'.ran
               /\ Waiting("sync")' => d * (health' - e) + z <= b
               /\ loop'.job # "sync" /\ ~ Waiting("sync")' => health' + ticker'["sync"].left <= e
    <3>1. HAVE smooth' /\ ctx' = "live"
    <3>2. smooth /\ ctx = "live"
      BY <2>6, <3>1
    <3>3. loop'.job = "sync" => health' <= e + wait + loop'.ran
      <4>1. CASE Start("sync")
        BY <2>3, <2>5, <2>6, <3>2, <4>1
      <4> QED BY <1>4, <2>3, <2>6, <3>2, <4>1
    <3>4. Waiting("sync")' => d * (health' - e) + z <= b
      BY <2>3, <2>4, <2>6, <3>2
    <3>5. loop'.job # "sync" /\ ~ Waiting("sync")' => health' + ticker'["sync"].left <= e
      BY <1>4, <2>2, <2>3, <2>6, <3>1, <3>2
    <3> QED BY <3>3, <3>4, <3>5
  <2>7. CASE \E i \in Jobs : Start(i)
    <3>1. PICK i \in Jobs : Start(i)
      BY <2>7
    <3>2. /\ loop.pc = "select" /\ loop' = Run(i, FALSE) /\ UNCHANGED <<ctx, health, smooth>>
      BY <3>1 DEF Start
    <3>3. loop'.pc = "job" /\ ~ loop'.first /\ loop.job # "sync"
      BY <3>2, RunIs DEF ScheduleInv, LoopInv
    <3> QED BY <1>4, <1>5, <2>1, <2>6, <3>2, <3>3
  <2>8. CASE Moves
    BY <1>4, <1>5, <2>1, <2>6, <2>8 DEF Moves
  <2>9. CASE \E i \in Jobs \ {"sync"} : Ends(i)
    <3>1. PICK i \in Jobs \ {"sync"} : Ends(i)
      BY <2>9
    <3>2. loop.job = i /\ i # "sync" /\ Finished(i) /\ UNCHANGED <<ctx, health, smooth>>
      BY <3>1 DEF Ends
    <3>3. smooth => loop'.job = "none" /\ ~ loop'.first
      BY <1>4, <3>2, IdleIs DEF Finished
    <3> QED BY <1>4, <1>5, <2>1, <2>6, <3>2, <3>3
  <2>10. CASE Record
    <3>1. /\ loop'.job = "none" /\ ~ loop'.first /\ ~ Waiting("sync")' /\ Serving'
          /\ ctx' = ctx
      BY <2>10, RecordLoop, IdleIs
    <3>2. loop.pc = "health" /\ loop.job = "sync"
      BY <2>10 DEF Record, ScheduleInv, LoopInv
    <3>3. smooth' /\ ctx' = "live" => health' = 0
      BY <1>4, <2>10, <3>1, <3>2, RecordLoop
    <3>4. ticker'["sync"].left <= e /\ ticker'["sync"].left \in Nat
      BY <1>1, <1>3 DEF TypeOK, PaceInv
    <3> QED BY <1>5, <3>1, <3>3, <3>4
  <2>11. \/ \E i \in Jobs : Start(i)
         \/ Moves \/ Record
         \/ \E i \in Jobs \ {"sync"} : Ends(i)
    BY <1>8, Shapes DEF Ends
  <2> QED BY <2>7, <2>8, <2>9, <2>10, <2>11
<1> QED BY <1>6, <1>7, <1>8, Kinds

-----------------------------------------------------------------------------
(* And what follows *)

LEMMA LateInit ==
  ASSUME NEW w, NEW k \in Nat, NEW wait \in Nat, Init
  PROVE  PaceInv(w, k) /\ BackupInv(k, wait) /\ SyncInv(k, wait)
<1>1. TypeOK /\ ticker = Armed /\ loop = Down /\ ~ upAllDay /\ ~ smooth
  BY ScheduleInit DEF Init
<1>2. loop.job = "none" /\ ~ Serving
  BY <1>1, IdleIs DEF Serving
<1>3. PaceInv(w, k)
  BY <1>1, <1>2, EveryArmed DEF PaceInv
<1>4. BackupInv(k, wait)
  BY <1>1, <1>2 DEF BackupInv, Waiting
<1>5. SyncInv(k, wait)
  BY <1>1 DEF SyncInv
<1> QED BY <1>3, <1>4, <1>5

(* However the other jobs' ticks fall, what is ready, and what is about to *)
(* be, is never more than one run of each job weighed by how rare it is;   *)
(* so a backup that came due waits at most wait, and is the night's.       *)
THEOREM BackupIsNotLate ==
  ASSUME NEW k \in Nat, NEW wait \in Nat, Room("backup", k, wait), wait + MaxRun["backup"] + 1 < Day
  PROVE  Spec => [](PaceInv("backup", k) /\ BackupInv(k, wait))
<1>1. Init => PaceInv("backup", k) /\ BackupInv(k, wait)
  BY LateInit
<1>2. TypeOK /\ ScheduleInv /\ TypeOK' /\ PaceInv("backup", k) /\ BackupInv(k, wait) /\ [Next]_vars
        => PaceInv("backup", k)' /\ BackupInv(k, wait)'
  <2> SUFFICES ASSUME TypeOK, ScheduleInv, TypeOK', PaceInv("backup", k), BackupInv(k, wait), [Next]_vars
               PROVE  PaceInv("backup", k)' /\ BackupInv(k, wait)'
    OBVIOUS
  <2>1. PaceInv("backup", k)'
    BY PaceStep
  <2>2. BackupInv(k, wait)'
    BY <2>1, BackupStep
  <2> QED BY <2>1, <2>2
<1> QED BY <1>1, <1>2, ScheduleInvariant, PTL DEF Spec

(* And a sync is late by at most wait, and by its own run, whatever ticks  *)
(* drain drops meanwhile.                                                  *)
THEOREM SyncIsNotLate ==
  ASSUME NEW k \in Nat, NEW wait \in Nat, Room("sync", k, wait)
  PROVE  Spec => [](PaceInv("sync", k) /\ SyncInv(k, wait))
<1>1. Init => PaceInv("sync", k) /\ SyncInv(k, wait)
  BY LateInit
<1>2. TypeOK /\ ScheduleInv /\ TypeOK' /\ PaceInv("sync", k) /\ SyncInv(k, wait) /\ [Next]_vars
        => PaceInv("sync", k)' /\ SyncInv(k, wait)'
  <2> SUFFICES ASSUME TypeOK, ScheduleInv, TypeOK', PaceInv("sync", k), SyncInv(k, wait), [Next]_vars
               PROVE  PaceInv("sync", k)' /\ SyncInv(k, wait)'
    OBVIOUS
  <2>1. PaceInv("sync", k)'
    BY PaceStep
  <2>2. SyncInv(k, wait)'
    BY <2>1, SyncStep
  <2> QED BY <2>1, <2>2
<1> QED BY <1>1, <1>2, ScheduleInvariant, PTL DEF Spec

(* A process up from one BACKUP_AT to the next has backed up in between    *)
(* (armBackup, drain): no tick is lost to a late loop.                     *)
THEOREM EveryNightABackup ==
  ASSUME NEW k \in Nat, NEW wait \in Nat, Room("backup", k, wait), wait + MaxRun["backup"] + 1 < Day
  PROVE  Spec => NoNightWithoutBackup
<1>1. /\ TypeOK /\ ScheduleInv /\ PaceInv("backup", k) /\ BackupInv(k, wait) /\ [Next]_vars
        => [upAllDay /\ tod' = 0 /\ tod # 0 /\ "backup" \in Jobs => tonight = 1]_vars
  <2> SUFFICES ASSUME TypeOK, ScheduleInv, PaceInv("backup", k), BackupInv(k, wait), [Next]_vars,
                      upAllDay, tod' = 0, tod # 0, "backup" \in Jobs
               PROVE  tonight = 1
    OBVIOUS
  <2>1. tod \in 0 .. Day - 1
    BY DEF TypeOK
  <2>2. TimePasses
    <3>1. Boot \/ Gone => tod' = tod
      BY DEF Boot, Gone
    <3> QED BY <3>1, Kinds, QuietWork
  <2>3. tod = Day - 1
    BY <2>1, <2>2, Clock DEF TimePasses
  <2>4. Serving /\ (tonight = 1 \/ Waiting("backup"))
    BY DEF BackupInv
  <2>5. ASSUME Waiting("backup") PROVE FALSE
    <3>1. PICK a \in Nat : a = Ahead("backup", k)
      BY AheadIs
    <3>2. (k - Others("backup")) * tod + a <= k * Longest("backup")
      BY <2>5, <3>1 DEF BackupInv
    <3>3. tod <= wait
      <4>1. tod \in Int
        BY <2>1
      <4> QED BY <3>2, <4>1, NotLate
    <3>4. MaxRun["backup"] \in Nat
      BY DEF Room
    <3> QED BY <2>3, <3>3, <3>4
  <2> QED BY <2>4, <2>5
<1>2. Spec => [](PaceInv("backup", k) /\ BackupInv(k, wait))
  BY BackupIsNotLate
<1> QED BY <1>1, <1>2, ScheduleInvariant, PTL DEF Spec, NoNightWithoutBackup

(* While syncs succeed /healthz answers 200 (Health.OK, StaleAfter): other *)
(* jobs delay a sync and drop its ticks, but never for StaleAfter.         *)
THEOREM HealthDoesNotFlap ==
  ASSUME NEW k \in Nat, NEW wait \in Nat, Room("sync", k, wait), wait + MaxRun["sync"] <= Every["sync"]
  PROVE  Spec => []HealthyWhileSyncsSucceed
<1>1. TypeOK /\ SyncInv(k, wait) => HealthyWhileSyncsSucceed
  <2> SUFFICES ASSUME TypeOK, SyncInv(k, wait), ctx = "live", smooth PROVE health <= StaleAfter
    BY DEF HealthyWhileSyncsSucceed, Healthy
  <2>1. PICK e \in Nat : e = Every["sync"] /\ wait + MaxRun["sync"] <= e /\ StaleAfter = 2 * e
    BY Units DEF StaleAfter
  <2>2. health \in Nat /\ loop.ran \in Nat /\ (loop.job = "sync" => loop.ran <= MaxRun["sync"]) /\ ticker["sync"].left \in Nat
    BY Units DEF TypeOK
  <2>3. CASE loop.job = "sync"
    <3>1. health <= e + wait + loop.ran
      BY <2>1, <2>3 DEF SyncInv
    <3>2. PICK m \in Nat : m = MaxRun["sync"]
      OBVIOUS
    <3>3. loop.ran <= m /\ wait + m <= e
      BY <2>1, <2>2, <2>3, <3>2
    <3> QED BY <2>1, <2>2, <3>1, <3>3
  <2>4. CASE Waiting("sync")
    <3>1. PICK a \in Nat : a = Ahead("sync", k)
      BY AheadIs
    <3>2. (k - Others("sync")) * (health - e) + a <= k * Longest("sync")
      BY <2>1, <2>4, <3>1 DEF SyncInv, Waiting
    <3>3. health - e \in Int
      BY <2>2
    <3>4. health - e <= wait
      BY <3>2, <3>3, NotLate
    <3> QED BY <2>1, <2>2, <3>4
  <2>5. CASE loop.job # "sync" /\ ~ Waiting("sync")
    <3>1. health + ticker["sync"].left <= e
      BY <2>1, <2>5 DEF SyncInv
    <3> QED BY <2>1, <2>2, <3>1
  <2> QED BY <2>3, <2>4, <2>5
<1>2. Spec => [](PaceInv("sync", k) /\ SyncInv(k, wait))
  BY SyncIsNotLate
<1> QED BY <1>1, <1>2, ScheduleInvariant, PTL

-----------------------------------------------------------------------------
(* All jobs switched on, with the code's defaults in units of twenty       *)
(* seconds: SYNC_INTERVAL 15m, IMPORT_INTERVAL 6h, pruneEvery 24h,         *)
(* pruneTimeout, backup's DefaultTimeout and after it the status message's *)
(* defaultRunTimeout. No timeout bounds a sync or an import: two minutes   *)
(* and one are taken for them.                                             *)
Defaults ==
    /\ Jobs = Names /\ Day = 4320
    /\ Every["sync"] = 45 /\ Every["import"] = 1080 /\ Every["prune"] = 4320
    /\ MaxRun["sync"] <= 6 /\ MaxRun["import"] <= 3
    /\ MaxRun["backup"] <= 31 /\ MaxRun["prune"] <= 3

LEMMA DefaultsFit ==
  ASSUME Defaults
  PROVE  \A j \in Jobs : /\ j \in Names /\ MaxRun[j] \in Nat
                         /\ 139 * MaxRun[j] <= Interval(j) \/ j = "sync"
                         /\ 7 * MaxRun[j] <= Interval(j) \/ j = "backup"
                         /\ 4 * MaxRun[j] <= Interval(j)
<1>1. /\ Jobs = Names /\ MaxRun["sync"] \in Nat /\ MaxRun["import"] \in Nat
      /\ MaxRun["backup"] \in Nat /\ MaxRun["prune"] \in Nat
  BY DEF Defaults, Names
<1>2. Interval("sync") = 45 /\ Interval("import") = 1080 /\ Interval("backup") = 4320 /\ Interval("prune") = 4320
  BY DEF Interval, Defaults
<1>3. MaxRun["sync"] <= 6 /\ MaxRun["import"] <= 3 /\ MaxRun["backup"] <= 31 /\ MaxRun["prune"] <= 3
  BY DEF Defaults
<1> QED BY <1>1, <1>2, <1>3 DEF Names

LEMMA OthersAtDefaults ==
  ASSUME Defaults, NEW w \in Jobs PROVE Others(w) = 3
<1>1. Jobs = Names /\ w \in Names
  BY DEF Defaults
<1>2. \A j \in Names : One(w)[j] = IF j = w THEN 0 ELSE 1
  BY <1>1, OthersIs
<1>3. Others(w) = One(w)["sync"] + One(w)["import"] + One(w)["backup"] + One(w)["prune"]
  BY OthersIs
<1> QED BY <1>1, <1>2, <1>3 DEF Names

(* The theorems' hypotheses hold there: Room for a sync at most 38 units   *)
(* late, and for a backup at most 21.                                      *)
THEOREM DefaultsHaveRoom ==
  ASSUME Defaults
  PROVE  /\ Room("sync", 139, 38) /\ 38 + MaxRun["sync"] <= Every["sync"]
         /\ Room("backup", 7, 21) /\ 21 + MaxRun["backup"] + 1 < Day
<1>1. /\ "sync" \in Jobs /\ "backup" \in Jobs
      /\ Others("sync") = 3 /\ Others("backup") = 3
  BY OthersAtDefaults DEF Defaults, Names
<1>2. /\ MaxRun["sync"] \in Nat /\ MaxRun["import"] \in Nat
      /\ MaxRun["backup"] \in Nat /\ MaxRun["prune"] \in Nat
      /\ MaxRun["sync"] <= 6 /\ MaxRun["import"] <= 3 /\ MaxRun["backup"] <= 31 /\ MaxRun["prune"] <= 3
      /\ Every["sync"] = 45 /\ Day = 4320
  BY DEF Defaults, Names
<1>3. Longest("sync") <= 37 /\ Longest("sync") \in Nat
  <2>1. PICK m \in [Names -> Nat] :
          /\ \A j \in Names : m[j] = IF j \in Jobs \ {"sync"} THEN MaxRun[j] ELSE 0
          /\ Longest("sync") = m["sync"] + m["import"] + m["backup"] + m["prune"]
    BY <1>1, LongestIs
  <2>2. m["sync"] = 0 /\ m["import"] = MaxRun["import"] /\ m["backup"] = MaxRun["backup"] /\ m["prune"] = MaxRun["prune"]
    BY <2>1 DEF Defaults, Names
  <2> QED BY <1>2, <2>1, <2>2
<1>4. Longest("backup") <= 12 /\ Longest("backup") \in Nat
  <2>1. PICK m \in [Names -> Nat] :
          /\ \A j \in Names : m[j] = IF j \in Jobs \ {"backup"} THEN MaxRun[j] ELSE 0
          /\ Longest("backup") = m["sync"] + m["import"] + m["backup"] + m["prune"]
    BY <1>1, LongestIs
  <2>2. m["backup"] = 0 /\ m["import"] = MaxRun["import"] /\ m["sync"] = MaxRun["sync"] /\ m["prune"] = MaxRun["prune"]
    BY <2>1 DEF Defaults, Names
  <2> QED BY <1>2, <2>1, <2>2
<1>5. \A j \in Jobs : Slope("sync", 139, j) * MaxRun[j] <= Interval(j)
  <2>1. TAKE j \in Jobs
  <2>2. Slope("sync", 139, j) = IF j = "sync" THEN 4 ELSE 139
    BY <1>1 DEF Slope
  <2> QED BY <2>2, DefaultsFit
<1>6. \A j \in Jobs : Slope("backup", 7, j) * MaxRun[j] <= Interval(j)
  <2>1. TAKE j \in Jobs
  <2>2. Slope("backup", 7, j) = IF j = "backup" THEN 4 ELSE 7
    BY <1>1 DEF Slope
  <2> QED BY <2>2, DefaultsFit
<1>7. 139 * Longest("sync") <= (139 - Others("sync")) * 38
  <2>1. PICK n \in Nat : n = Longest("sync") /\ n <= 37
    BY <1>3
  <2>2. 139 * n <= 136 * 38
    BY <2>1
  <2> QED BY <1>1, <2>1, <2>2
<1>8. 7 * Longest("backup") <= (7 - Others("backup")) * 21
  <2>1. PICK n \in Nat : n = Longest("backup") /\ n <= 12
    BY <1>4
  <2>2. 7 * n <= 4 * 21
    BY <2>1
  <2> QED BY <1>1, <2>1, <2>2
<1>9. Room("sync", 139, 38)
  BY <1>1, <1>5, <1>7 DEF Room
<1>10. Room("backup", 7, 21)
  BY <1>1, <1>6, <1>8 DEF Room
<1> QED BY <1>2, <1>9, <1>10

(* So at the defaults /healthz does not flap and no night goes without a   *)
(* backup.                                                                 *)
THEOREM AtTheDefaults ==
  ASSUME Defaults
  PROVE  Spec => []HealthyWhileSyncsSucceed /\ NoNightWithoutBackup
<1>1. Spec => []HealthyWhileSyncsSucceed
  BY DefaultsHaveRoom, HealthDoesNotFlap
<1>2. Spec => NoNightWithoutBackup
  BY DefaultsHaveRoom, EveryNightABackup
<1> QED BY <1>1, <1>2, PTL

-----------------------------------------------------------------------------
(* The status message that Status updates (StatusMessage), with constants  *)
(* and variables of its own.                                               *)

CONSTANTS Channels, None, RepostEvery, MaxFaults
VARIABLES named, alive, msgs, disk, mem, run, faults, lastPost

Message == INSTANCE StatusMessage

(* StatusMessage's assumption on its constants. *)
StatusConstants == None \notin Channels /\ RepostEvery \in Nat \ {0} /\ MaxFaults \in Nat

StatusPcs == {"down", "idle", "load", "find", "edit", "refind", "editOld", "attempt", "post", "giveBack", "save"}
StatusRuns == [pc : StatusPcs, late : BOOLEAN]
StatusRows == [ts : Message!Stamps, chan : Channels \cup {None}, attempt : 0 .. RepostEvery]
StatusMems == [loaded : BOOLEAN, channel : Channels \cup {None}, ts : Message!Stamps,
               chan : Channels \cup {None}, attempt : 0 .. RepostEvery]

LEMMA StatusTypes ==
  ASSUME Message!TypeOK
  PROVE  /\ named \in alive /\ alive \subseteq Channels
         /\ msgs \subseteq [ts : Message!Stamps \ {0}, chan : Channels, open : BOOLEAN]
         /\ disk \in StatusRows /\ mem \in StatusMems /\ run \in StatusRuns
         /\ faults \in 0 .. MaxFaults /\ lastPost \in 0 .. RepostEvery
         /\ mem.loaded \/ run.pc \in {"down", "idle", "load"}
  BY DEF Message!TypeOK, StatusRows, StatusMems, StatusRuns, StatusPcs

LEMMA StatusTyped ==
  ASSUME named' \in alive', alive' \subseteq Channels,
         msgs' \subseteq [ts : Message!Stamps \ {0}, chan : Channels, open : BOOLEAN],
         disk' \in StatusRows, mem' \in StatusMems, run' \in StatusRuns,
         faults' \in 0 .. MaxFaults, lastPost' \in 0 .. RepostEvery,
         mem'.loaded \/ run'.pc \in {"down", "idle", "load"}
  PROVE  Message!TypeOK'
<1>1. Message!Stamps' = Message!Stamps
  BY DEF Message!Stamps
<1> QED BY <1>1 DEF Message!TypeOK, StatusRows, StatusMems, StatusRuns, StatusPcs

LEMMA StampIs ==
  ASSUME \E n \in Message!Stamps : n \notin Message!Known
  PROVE  /\ Message!NextTS \in Message!Stamps \ {0}
         /\ Message!NextTS # disk.ts /\ Message!NextTS # mem.ts
         /\ \A m \in msgs : Message!NextTS # m.ts
<1>1. Message!NextTS \in Message!Stamps /\ Message!NextTS \notin Message!Known
  BY DEF Message!NextTS
<1> QED BY <1>1 DEF Message!Known

LEMMA FaultsIs ==
  ASSUME StatusConstants, Message!TypeOK,
         UNCHANGED faults \/ Message!Disturb \/ Message!CallWorks \/ Message!CallFails
  PROVE  faults' \in 0 .. MaxFaults
<1>1. faults' = faults \/ (faults < MaxFaults /\ faults' = faults + 1)
  BY DEF Message!Disturb, Message!CallWorks, Message!CallFails
<1>2. faults \in 0 .. MaxFaults /\ MaxFaults \in Nat
  BY StatusTypes DEF StatusConstants
<1> QED BY <1>1, <1>2

LEMMA GoIs ==
  ASSUME Message!TypeOK, NEW pc \in StatusPcs, Message!Go(pc)
  PROVE  run' \in StatusRuns /\ run'.pc = pc
<1>1. run.late \in BOOLEAN
  BY StatusTypes DEF StatusRuns
<1> QED BY <1>1 DEF Message!Go, StatusRuns

LEMMA ToPostIs ==
  ASSUME StatusConstants, NEW m \in StatusMems
  PROVE  /\ Message!ToPost(m) \in {"attempt", "editOld", "idle"}
         /\ Message!ToPost(m) = "attempt" => m.attempt = RepostEvery
<1>1. CASE Message!Capped(m)
  BY <1>1 DEF Message!ToPost
<1>2. CASE ~ Message!Capped(m)
  <2>1. m.attempt \in 0 .. RepostEvery /\ ~ (m.attempt < RepostEvery) /\ RepostEvery \in Nat
    BY <1>2 DEF Message!Capped, StatusMems, StatusConstants
  <2>2. m.attempt = RepostEvery
    BY <2>1
  <2> QED BY <1>2, <2>2 DEF Message!ToPost
<1> QED BY <1>1, <1>2

LEMMA ToSendIs ==
  ASSUME StatusConstants, NEW m \in StatusMems
  PROVE  /\ Message!ToSend(m) \in {"find", "edit", "attempt", "editOld", "idle"}
         /\ Message!ToSend(m) = "attempt" => /\ m.attempt = RepostEvery
                                             /\ m.ts = 0 \/ m.chan # m.channel
<1>1. CASE m.channel = None
  BY <1>1 DEF Message!ToSend
<1>2. CASE m.channel # None /\ m.ts # 0 /\ m.chan = m.channel
  BY <1>2 DEF Message!ToSend
<1>3. CASE m.channel # None /\ ~ (m.ts # 0 /\ m.chan = m.channel)
  <2>1. Message!ToSend(m) = Message!ToPost(m)
    BY <1>3 DEF Message!ToSend
  <2> QED BY <1>3, <2>1, ToPostIs
<1> QED BY <1>1, <1>2, <1>3

(* A step of the updater that neither posts nor writes. *)
LEMMA OnlyMem ==
  ASSUME StatusConstants, Message!TypeOK, Message!WindowInv, Message!NeedInv,
         UNCHANGED <<named, alive, msgs, disk, lastPost>>,
         run' \in StatusRuns, mem' \in StatusMems, faults' \in 0 .. MaxFaults,
         mem'.loaded \/ run'.pc \in {"down", "idle", "load"},
         mem'.loaded => /\ mem'.attempt <= lastPost
                        /\ mem'.ts = 0 => disk.ts = 0
                        /\ mem'.ts = disk.ts => mem'.chan = disk.chan,
         mem'.channel \in {mem.channel, named, None},
         run'.pc \notin {"post", "giveBack"},
         run'.pc = "attempt" => /\ mem'.attempt = RepostEvery
                                /\ \/ mem'.ts = 0 \/ mem'.chan # mem'.channel
                                   \/ ~ Message!Editable(mem'.ts, mem'.chan),
         run'.pc = "refind" => mem'.chan \notin alive
  PROVE  Message!TypeOK' /\ Message!WindowInv' /\ Message!NeedInv'
<1>1. Message!TypeOK'
  BY StatusTypes, StatusTyped
<1>2. Message!WindowInv'
  <2>1. lastPost' = lastPost /\ disk'.attempt <= lastPost'
    BY DEF Message!WindowInv
  <2>2. run'.pc = "attempt" => lastPost = RepostEvery
    <3>1. HAVE run'.pc = "attempt"
    <3>2. RepostEvery <= lastPost /\ lastPost \in 0 .. RepostEvery /\ RepostEvery \in Nat
      BY <3>1, StatusTypes DEF StatusConstants
    <3> QED BY <3>2
  <2> QED BY <2>1, <2>2 DEF Message!WindowInv, Message!Posting, Message!At
<1>3. Message!NeedInv'
  <2>1. mem'.channel \in alive' => mem'.channel = named'
    <3>1. None \notin alive
      BY StatusTypes DEF StatusConstants
    <3> QED BY <3>1 DEF Message!NeedInv
  <2>2. \A t, c : Message!Editable(t, c)' <=> Message!Editable(t, c)
    BY DEF Message!Editable
  <2>3. Message!Posting' => \/ mem'.ts = 0 \/ mem'.chan # mem'.channel
                            \/ ~ Message!Editable(mem.ts, mem.chan)'
    BY <2>2 DEF Message!Posting, Message!Editable
  <2> QED BY <2>1, <2>3 DEF Message!NeedInv, Message!At
<1> QED BY <1>1, <1>2, <1>3

(* Nor does anything the updater has come nearer to a post when only Slack *)
(* loses something, or the run its context.                                *)
LEMMA OnlySlack ==
  ASSUME StatusConstants, Message!TypeOK, Message!WindowInv, Message!NeedInv,
         UNCHANGED <<disk, mem, lastPost>>, faults' \in 0 .. MaxFaults,
         run' \in StatusRuns, run'.pc = run.pc,
         named' \in alive', alive' \subseteq alive,
         named' = named \/ named \notin alive',
         msgs' \subseteq [ts : Message!Stamps \ {0}, chan : Channels, open : BOOLEAN],
         \A m \in msgs' : m.open => m \in msgs
  PROVE  Message!TypeOK' /\ Message!WindowInv' /\ Message!NeedInv'
<1>1. Message!TypeOK'
  BY StatusTypes, StatusTyped
<1>2. Message!WindowInv'
  BY DEF Message!WindowInv, Message!Posting, Message!At
<1>3. Message!Editable(mem.ts, mem.chan)' => Message!Editable(mem.ts, mem.chan)
  BY DEF Message!Editable
<1>4. mem'.channel \in alive' => mem'.channel = named'
  BY DEF Message!NeedInv
<1>5. Message!NeedInv'
  BY <1>3, <1>4 DEF Message!NeedInv, Message!Posting, Message!At
<1> QED BY <1>1, <1>2, <1>5

LEMMA FreshIs ==
  ASSUME StatusConstants
  PROVE  Message!Fresh \in StatusMems /\ ~ Message!Fresh.loaded /\ Message!Fresh.channel = None
  BY DEF Message!Fresh, Message!Expired, Message!Stamps, StatusMems, StatusConstants

LEMMA StatusDown ==
  ASSUME StatusConstants, Message!TypeOK, Message!WindowInv, Message!NeedInv,
         Message!Boot \/ Message!Crash
  PROVE  Message!TypeOK' /\ Message!WindowInv' /\ Message!NeedInv'
<1>1. /\ mem' = Message!Fresh /\ UNCHANGED <<alive, msgs, disk, lastPost>>
      /\ named' \in alive /\ faults' \in 0 .. MaxFaults
  BY FaultsIs, StatusTypes DEF Message!Boot, Message!Crash
<1>2. run' \in StatusRuns /\ run'.pc \in {"idle", "down"}
  <2>1. CASE Message!Boot
    <3>1. Message!Go("idle") /\ "idle" \in StatusPcs
      BY <2>1 DEF Message!Boot, StatusPcs
    <3> QED BY <3>1, GoIs
  <2>2. CASE Message!Crash
    <3>1. Message!Go("down") /\ "down" \in StatusPcs
      BY <2>2 DEF Message!Crash, StatusPcs
    <3> QED BY <3>1, GoIs
  <2> QED BY <2>1, <2>2
<1>3. mem' \in StatusMems /\ ~ mem'.loaded /\ mem'.channel = None
  BY <1>1, FreshIs
<1>4. Message!TypeOK'
  BY <1>1, <1>2, <1>3, StatusTypes, StatusTyped
<1>5. Message!WindowInv'
  BY <1>1, <1>2, <1>3 DEF Message!WindowInv, Message!Posting, Message!At
<1>6. None \notin alive
  BY StatusTypes DEF StatusConstants
<1>7. Message!NeedInv'
  BY <1>1, <1>2, <1>3, <1>6 DEF Message!NeedInv, Message!Posting, Message!At
<1> QED BY <1>4, <1>5, <1>7

LEMMA StatusBegin ==
  ASSUME StatusConstants, Message!TypeOK, Message!WindowInv, Message!NeedInv, Message!Begin
  PROVE  Message!TypeOK' /\ Message!WindowInv' /\ Message!NeedInv'
<1>1. /\ UNCHANGED <<named, alive, msgs, disk, mem, faults, lastPost>>
      /\ Message!Go(IF mem.loaded THEN Message!ToSend(mem) ELSE "load")
  BY DEF Message!Begin
<1>2. mem \in StatusMems /\ faults \in 0 .. MaxFaults
  BY StatusTypes
<1>3. CASE mem.loaded
  <2>1. PICK pc : pc = Message!ToSend(mem)
    OBVIOUS
  <2>2. pc \in {"find", "edit", "attempt", "editOld", "idle"} /\ pc \in StatusPcs
    BY <1>2, <2>1, ToSendIs DEF StatusPcs
  <2>3. run' \in StatusRuns /\ run'.pc = pc
    BY <1>1, <1>3, <2>1, <2>2, GoIs
  <2>4. pc = "attempt" => mem.attempt = RepostEvery /\ (mem.ts = 0 \/ mem.chan # mem.channel)
    BY <1>2, <2>1, ToSendIs
  <2>5. mem.attempt <= lastPost /\ (mem.ts = 0 => disk.ts = 0) /\ (mem.ts = disk.ts => mem.chan = disk.chan)
    BY <1>3 DEF Message!WindowInv, Message!NeedInv
  <2> QED BY <1>1, <1>2, <1>3, <2>2, <2>3, <2>4, <2>5, OnlyMem
<1>4. CASE ~ mem.loaded
  <2>1. run' \in StatusRuns /\ run'.pc = "load"
    BY <1>1, <1>4, GoIs DEF StatusPcs
  <2> QED BY <1>1, <1>2, <1>4, <2>1, OnlyMem
<1> QED BY <1>3, <1>4

(* A run that ends, or fails, without having written. *)
LEMMA StatusIdle ==
  ASSUME StatusConstants, Message!TypeOK, Message!WindowInv, Message!NeedInv,
         UNCHANGED <<named, alive, msgs, disk, mem, lastPost>>, Message!Go("idle"),
         faults' \in 0 .. MaxFaults
  PROVE  Message!TypeOK' /\ Message!WindowInv' /\ Message!NeedInv'
<1>1. run' \in StatusRuns /\ run'.pc = "idle"
  BY GoIs DEF StatusPcs
<1>2. mem \in StatusMems
  BY StatusTypes
<1>3. mem.loaded => /\ mem.attempt <= lastPost
                    /\ mem.ts = 0 => disk.ts = 0
                    /\ mem.ts = disk.ts => mem.chan = disk.chan
  BY DEF Message!WindowInv, Message!NeedInv
<1> QED BY <1>1, <1>2, <1>3, OnlyMem

LEMMA StatusLoad ==
  ASSUME StatusConstants, Message!TypeOK, Message!WindowInv, Message!NeedInv, Message!Load
  PROVE  Message!TypeOK' /\ Message!WindowInv' /\ Message!NeedInv'
<1>1. PICK m \in StatusMems, d \in StatusRows : m = mem /\ d = disk
  BY StatusTypes
<1>2. PICK row : row = [m EXCEPT !.ts = d.ts, !.chan = d.chan, !.attempt = d.attempt]
  OBVIOUS
<1>3. /\ row \in StatusMems /\ row.ts = disk.ts /\ row.chan = disk.chan /\ row.attempt = disk.attempt
      /\ row.loaded = mem.loaded /\ row.channel = mem.channel
  BY <1>1, <1>2 DEF StatusMems, StatusRows
<1>4. disk.attempt <= lastPost
  BY DEF Message!WindowInv
<1>5. UNCHANGED <<named, alive, msgs, disk, lastPost>>
  BY DEF Message!Load
<1>6. CASE Message!CallWorks /\ mem' = [row EXCEPT !.loaded = TRUE] /\ Message!Go(Message!ToSend(mem'))
  <2>1. /\ mem' \in StatusMems /\ mem'.loaded /\ mem'.ts = disk.ts /\ mem'.chan = disk.chan
        /\ mem'.attempt = disk.attempt /\ mem'.channel = mem.channel
    BY <1>3, <1>6 DEF StatusMems
  <2>2. PICK pc : pc = Message!ToSend(mem')
    OBVIOUS
  <2>3. /\ pc \in {"find", "edit", "attempt", "editOld", "idle"} /\ pc \in StatusPcs
        /\ pc = "attempt" => mem'.attempt = RepostEvery /\ (mem'.ts = 0 \/ mem'.chan # mem'.channel)
    <3>1. PICK n \in StatusMems : n = mem'
      BY <2>1
    <3>2. /\ Message!ToSend(n) \in {"find", "edit", "attempt", "editOld", "idle"}
          /\ Message!ToSend(n) = "attempt" => n.attempt = RepostEvery /\ (n.ts = 0 \/ n.chan # n.channel)
      BY ToSendIs
    <3>3. pc = Message!ToSend(n)
      BY <2>2, <3>1
    <3> QED BY <3>1, <3>2, <3>3 DEF StatusPcs
  <2>4. run' \in StatusRuns /\ run'.pc = pc
    BY <1>6, <2>2, <2>3, GoIs
  <2>5. faults' \in 0 .. MaxFaults
    BY <1>6, FaultsIs
  <2> QED BY <1>4, <1>5, <2>1, <2>3, <2>4, <2>5, OnlyMem
<1>7. CASE Message!CallFails /\ mem' \in {mem, row} /\ Message!Go("idle")
  <2>1. run' \in StatusRuns /\ run'.pc = "idle" /\ faults' \in 0 .. MaxFaults
    BY <1>7, GoIs, FaultsIs DEF StatusPcs
  <2>2. mem' \in StatusMems /\ mem'.channel = mem.channel
    BY <1>1, <1>3, <1>7
  <2>3. mem'.loaded => /\ mem'.attempt <= lastPost
                       /\ mem'.ts = 0 => disk.ts = 0
                       /\ mem'.ts = disk.ts => mem'.chan = disk.chan
    BY <1>3, <1>4, <1>7 DEF Message!WindowInv, Message!NeedInv
  <2> QED BY <1>5, <2>1, <2>2, <2>3, OnlyMem
<1> QED BY <1>1, <1>2, <1>6, <1>7 DEF Message!Load

LEMMA StatusFind ==
  ASSUME StatusConstants, Message!TypeOK, Message!WindowInv, Message!NeedInv,
         Message!Find \/ Message!Refind
  PROVE  Message!TypeOK' /\ Message!WindowInv' /\ Message!NeedInv'
<1>1. UNCHANGED <<named, alive, msgs, disk, lastPost>> /\ run.pc \in {"find", "refind"}
  BY DEF Message!Find, Message!Refind, Message!At
<1>2. PICK m \in StatusMems : m = mem
  BY StatusTypes
<1>3. /\ m.loaded /\ m.attempt <= lastPost
      /\ m.ts = 0 => disk.ts = 0
      /\ m.ts = disk.ts => m.chan = disk.chan
  BY <1>1, <1>2, StatusTypes DEF Message!WindowInv, Message!NeedInv
<1>4. CASE mem' = mem /\ Message!Go("idle") /\ Message!CallFails
  BY <1>1, <1>4, FaultsIs, StatusIdle
<1>5. ASSUME mem' = [mem EXCEPT !.channel = named], Message!CallWorks, NEW pc,
             Message!Go(pc), pc \in {"find", "edit", "attempt", "editOld", "idle"},
             pc = "attempt" => /\ mem'.attempt = RepostEvery
                               /\ \/ mem'.ts = 0 \/ mem'.chan # mem'.channel
                                  \/ ~ Message!Editable(mem'.ts, mem'.chan)
      PROVE  Message!TypeOK' /\ Message!WindowInv' /\ Message!NeedInv'
  <2>1. named \in Channels
    BY StatusTypes
  <2>2. /\ mem' \in StatusMems /\ mem'.loaded /\ mem'.ts = m.ts /\ mem'.chan = m.chan
        /\ mem'.attempt = m.attempt /\ mem'.channel = named
    BY <1>2, <1>3, <1>5, <2>1 DEF StatusMems
  <2>3. run' \in StatusRuns /\ run'.pc = pc /\ faults' \in 0 .. MaxFaults
    BY <1>5, GoIs, FaultsIs DEF StatusPcs
  <2> QED BY <1>1, <1>3, <1>5, <2>2, <2>3, OnlyMem
<1>6. mem' = [mem EXCEPT !.channel = named] =>
        /\ mem' \in StatusMems /\ mem'.ts = m.ts /\ mem'.chan = m.chan /\ mem'.channel = named
  BY <1>2, StatusTypes DEF StatusMems
<1>7. CASE Message!Find
  <2>1. CASE Message!CallWorks /\ mem' = [mem EXCEPT !.channel = named] /\ Message!Go(Message!ToSend(mem'))
    <3>1. PICK n \in StatusMems : n = mem'
      BY <1>6, <2>1
    <3>2. PICK pc : pc = Message!ToSend(n)
      OBVIOUS
    <3>3. /\ pc \in {"find", "edit", "attempt", "editOld", "idle"}
          /\ pc = "attempt" => n.attempt = RepostEvery /\ (n.ts = 0 \/ n.chan # n.channel)
      BY <3>2, ToSendIs
    <3>4. Message!Go(pc)
      BY <2>1, <3>1, <3>2
    <3> QED BY <1>5, <2>1, <3>1, <3>3, <3>4
  <2> QED BY <1>4, <1>7, <2>1 DEF Message!Find
<1>8. CASE Message!Refind
  <2>1. CASE Message!CallWorks /\ mem' = [mem EXCEPT !.channel = named] /\ Message!Go(Message!ToPost(mem'))
    <3>1. PICK n \in StatusMems : n = mem'
      BY <1>6, <2>1
    <3>2. PICK pc : pc = Message!ToPost(n)
      OBVIOUS
    <3>3. /\ pc \in {"find", "edit", "attempt", "editOld", "idle"}
          /\ pc = "attempt" => n.attempt = RepostEvery
      BY <3>2, ToPostIs
    <3>4. Message!Go(pc)
      BY <2>1, <3>1, <3>2
    <3>5. mem'.chan \notin alive
      BY <1>2, <1>6, <1>8, <2>1 DEF Message!NeedInv, Message!Refind
    <3>6. ~ Message!Editable(mem'.ts, mem'.chan)
      BY <3>5 DEF Message!Editable
    <3> QED BY <1>5, <2>1, <3>1, <3>3, <3>4, <3>6
  <2> QED BY <1>4, <1>8, <2>1 DEF Message!Refind
<1> QED BY <1>7, <1>8

LEMMA StatusEdit ==
  ASSUME StatusConstants, Message!TypeOK, Message!WindowInv, Message!NeedInv, Message!Edit
  PROVE  Message!TypeOK' /\ Message!WindowInv' /\ Message!NeedInv'
<1>1. UNCHANGED <<named, alive, msgs, disk, lastPost>> /\ run.pc = "edit"
  BY DEF Message!Edit, Message!At
<1>2. PICK m \in StatusMems : m = mem
  BY StatusTypes
<1>3. /\ m.loaded /\ m.attempt <= lastPost
      /\ m.ts = 0 => disk.ts = 0
      /\ m.ts = disk.ts => m.chan = disk.chan
  BY <1>1, <1>2, StatusTypes DEF Message!WindowInv, Message!NeedInv
<1>4. faults' \in 0 .. MaxFaults
  BY FaultsIs DEF Message!Edit
<1>5. CASE mem' = mem /\ Message!Go("idle")
  BY <1>1, <1>4, <1>5, StatusIdle
<1>6. CASE ~ Message!Editable(mem.ts, mem.chan) /\ mem' = mem /\ Message!Go(Message!ToPost(mem))
  <2>1. PICK pc : pc = Message!ToPost(m)
    OBVIOUS
  <2>2. /\ pc \in {"attempt", "editOld", "idle"} /\ pc \in StatusPcs
        /\ pc = "attempt" => m.attempt = RepostEvery
    BY <2>1, ToPostIs DEF StatusPcs
  <2>3. run' \in StatusRuns /\ run'.pc = pc
    BY <1>2, <1>6, <2>1, <2>2, GoIs
  <2> QED BY <1>1, <1>2, <1>3, <1>4, <1>6, <2>2, <2>3, OnlyMem
<1>7. CASE mem.chan \notin alive /\ mem' = [mem EXCEPT !.channel = None] /\ Message!Go("refind")
  <2>1. /\ mem' \in StatusMems /\ mem'.loaded /\ mem'.ts = m.ts /\ mem'.chan = m.chan
        /\ mem'.attempt = m.attempt /\ mem'.channel = None
    BY <1>2, <1>3, <1>7 DEF StatusMems
  <2>2. run' \in StatusRuns /\ run'.pc = "refind"
    BY <1>7, GoIs DEF StatusPcs
  <2> QED BY <1>1, <1>2, <1>3, <1>4, <1>7, <2>1, <2>2, OnlyMem
<1> QED BY <1>5, <1>6, <1>7 DEF Message!Edit

LEMMA StatusAttempt ==
  ASSUME StatusConstants, Message!TypeOK, Message!WindowInv, Message!NeedInv, Message!StoreAttempt
  PROVE  Message!TypeOK' /\ Message!WindowInv' /\ Message!NeedInv'
<1>1. UNCHANGED <<named, alive, msgs, lastPost>> /\ run.pc = "attempt"
  BY DEF Message!StoreAttempt, Message!At
<1>2. CASE Message!CallFails /\ UNCHANGED <<disk, mem>> /\ Message!Go("idle")
  BY <1>1, <1>2, FaultsIs, StatusIdle
<1>3. CASE /\ Message!CallWorks /\ disk' = [disk EXCEPT !.attempt = 0]
           /\ mem' = [mem EXCEPT !.attempt = 0] /\ Message!Go("post")
  <2>1. PICK m \in StatusMems, d \in StatusRows : m = mem /\ d = disk
    BY StatusTypes
  <2>2. 0 \in 0 .. RepostEvery
    BY DEF StatusConstants
  <2>3. /\ mem' \in StatusMems /\ mem'.loaded = m.loaded /\ mem'.ts = m.ts /\ mem'.chan = m.chan
        /\ mem'.channel = m.channel /\ mem'.attempt = 0
    BY <1>3, <2>1, <2>2 DEF StatusMems
  <2>4. disk' \in StatusRows /\ disk'.ts = d.ts /\ disk'.chan = d.chan /\ disk'.attempt = 0
    BY <1>3, <2>1, <2>2 DEF StatusRows
  <2>5. run' \in StatusRuns /\ run'.pc = "post" /\ faults' \in 0 .. MaxFaults
    BY <1>3, GoIs, FaultsIs DEF StatusPcs
  <2>6. m.loaded
    BY <1>1, <2>1, StatusTypes
  <2>7. Message!TypeOK'
    BY <1>1, <2>1, <2>3, <2>4, <2>5, <2>6, StatusTypes, StatusTyped
  <2>8. Message!WindowInv'
    <3>1. lastPost = RepostEvery /\ 0 <= lastPost
      BY <1>1, StatusTypes DEF Message!WindowInv, Message!Posting, StatusConstants
    <3> QED BY <1>1, <2>3, <2>4, <3>1 DEF Message!WindowInv
  <2>9. Message!NeedInv'
    <3>1. Message!Editable(mem.ts, mem.chan)' <=> Message!Editable(m.ts, m.chan)
      BY <1>1, <2>1, <2>3 DEF Message!Editable
    <3>2. m.ts = 0 \/ m.chan # m.channel \/ ~ Message!Editable(m.ts, m.chan)
      BY <1>1, <2>1 DEF Message!NeedInv, Message!Posting
    <3>3. /\ mem'.channel \in alive' => mem'.channel = named'
          /\ mem'.ts = 0 => disk'.ts = 0
          /\ mem'.ts = disk'.ts => mem'.chan = disk'.chan
      BY <1>1, <2>1, <2>3, <2>4, <2>6 DEF Message!NeedInv
    <3> QED BY <2>3, <2>5, <3>1, <3>2, <3>3 DEF Message!NeedInv, Message!At
  <2> QED BY <2>7, <2>8, <2>9
<1> QED BY <1>2, <1>3 DEF Message!StoreAttempt

LEMMA CreatedIs ==
  ASSUME StatusConstants, Message!TypeOK, Message!Created
  PROVE  /\ mem.channel \in alive /\ lastPost' = 0
         /\ Message!NextTS \in Message!Stamps \ {0}
         /\ Message!NextTS # disk.ts /\ Message!NextTS # mem.ts
         /\ msgs' \subseteq [ts : Message!Stamps \ {0}, chan : Channels, open : BOOLEAN]
<1>1. /\ mem.channel \in alive /\ lastPost' = 0
      /\ msgs' = msgs \cup {[ts |-> Message!NextTS, chan |-> mem.channel, open |-> TRUE]}
  BY DEF Message!Created
<1>2. Message!NextTS \in Message!Stamps \ {0} /\ Message!NextTS # disk.ts /\ Message!NextTS # mem.ts
  BY StampIs DEF Message!Created
<1>3. PICK n \in Message!Stamps \ {0}, c \in Channels : n = Message!NextTS /\ c = mem.channel
  BY <1>1, <1>2, StatusTypes
<1>4. [ts |-> n, chan |-> c, open |-> TRUE] \in [ts : Message!Stamps \ {0}, chan : Channels, open : BOOLEAN]
  OBVIOUS
<1>5. msgs' = msgs \cup {[ts |-> n, chan |-> c, open |-> TRUE]}
  BY <1>1, <1>3
<1>6. msgs' \subseteq [ts : Message!Stamps \ {0}, chan : Channels, open : BOOLEAN]
  BY <1>4, <1>5, StatusTypes
<1> QED BY <1>1, <1>2, <1>6

LEMMA StatusPost ==
  ASSUME StatusConstants, Message!TypeOK, Message!WindowInv, Message!NeedInv, Message!Post
  PROVE  Message!TypeOK' /\ Message!WindowInv' /\ Message!NeedInv'
<1>1. UNCHANGED <<named, alive, disk>> /\ run.pc = "post" /\ faults' \in 0 .. MaxFaults
  BY FaultsIs DEF Message!Post, Message!At
<1>2. PICK m \in StatusMems, d \in StatusRows : m = mem /\ d = disk
  BY StatusTypes
<1>3. /\ m.loaded /\ m.attempt = 0 /\ d.attempt = 0 /\ lastPost = RepostEvery
      /\ m.ts = 0 => d.ts = 0
      /\ m.ts = d.ts => m.chan = d.chan
      /\ m.channel \in alive => m.channel = named
  BY <1>1, <1>2, StatusTypes DEF Message!WindowInv, Message!NeedInv, Message!Posting, Message!At
<1>4. 0 \in 0 .. RepostEvery /\ RepostEvery \in 0 .. RepostEvery /\ RepostEvery <= RepostEvery
  BY DEF StatusConstants
<1>5. CASE Message!Created /\ mem' = [mem EXCEPT !.ts = Message!NextTS, !.chan = mem.channel] /\ Message!Go("save")
  <2>1. /\ mem' \in StatusMems /\ mem'.loaded /\ mem'.ts = Message!NextTS /\ mem'.chan = m.channel
        /\ mem'.attempt = 0 /\ mem'.channel = m.channel /\ mem'.ts # 0 /\ mem'.ts # d.ts
    BY <1>2, <1>3, <1>5, CreatedIs DEF StatusMems
  <2>2. run' \in StatusRuns /\ run'.pc = "save"
    BY <1>5, GoIs DEF StatusPcs
  <2>3. Message!TypeOK'
    BY <1>1, <1>4, <1>5, <2>1, <2>2, CreatedIs, StatusTypes, StatusTyped
  <2>4. Message!WindowInv'
    BY <1>1, <1>2, <1>3, <1>5, <2>1, <2>2, CreatedIs DEF Message!WindowInv, Message!Posting, Message!At
  <2>5. Message!NeedInv'
    BY <1>1, <1>2, <1>3, <2>1, <2>2 DEF Message!NeedInv, Message!Posting, Message!At
  <2> QED BY <2>3, <2>4, <2>5
<1>6. CASE mem' = mem /\ Message!Go("idle") /\ Message!Created
  <2>1. run' \in StatusRuns /\ run'.pc = "idle"
    BY <1>6, GoIs DEF StatusPcs
  <2>2. Message!TypeOK'
    BY <1>1, <1>2, <1>4, <1>6, <2>1, CreatedIs, StatusTypes, StatusTyped
  <2>3. Message!WindowInv'
    BY <1>1, <1>2, <1>3, <1>6, <2>1, CreatedIs DEF Message!WindowInv, Message!Posting, Message!At
  <2>4. Message!NeedInv'
    BY <1>1, <1>2, <1>3, <1>6, <2>1 DEF Message!NeedInv, Message!Posting, Message!At
  <2> QED BY <2>2, <2>3, <2>4
<1>7. CASE mem' = mem /\ Message!Go("idle") /\ UNCHANGED <<msgs, lastPost>>
  BY <1>1, <1>7, StatusIdle
<1>8. CASE /\ mem' = [mem EXCEPT !.attempt = Message!Expired] /\ Message!Go("giveBack")
           /\ UNCHANGED <<msgs, lastPost>>
  <2>1. /\ mem' \in StatusMems /\ mem'.loaded /\ mem'.ts = m.ts /\ mem'.chan = m.chan
        /\ mem'.attempt = RepostEvery /\ mem'.channel = m.channel
    BY <1>2, <1>3, <1>4, <1>8 DEF StatusMems, Message!Expired
  <2>2. run' \in StatusRuns /\ run'.pc = "giveBack"
    BY <1>8, GoIs DEF StatusPcs
  <2>3. Message!TypeOK'
    BY <1>1, <1>8, <2>1, <2>2, StatusTypes, StatusTyped
  <2>4. Message!WindowInv'
    <3>1. disk'.attempt <= lastPost' /\ lastPost' = RepostEvery
      BY <1>1, <1>3, <1>8 DEF Message!WindowInv
    <3> QED BY <1>4, <2>1, <2>2, <3>1 DEF Message!WindowInv, Message!Posting, Message!At
  <2>5. Message!NeedInv'
    BY <1>1, <1>2, <1>3, <2>1, <2>2 DEF Message!NeedInv, Message!Posting, Message!At
  <2> QED BY <2>3, <2>4, <2>5
<1> QED BY <1>5, <1>6, <1>7, <1>8 DEF Message!Post

LEMMA StatusWrites ==
  ASSUME StatusConstants, Message!TypeOK, Message!WindowInv, Message!NeedInv,
         Message!GiveBack \/ Message!Save
  PROVE  Message!TypeOK' /\ Message!WindowInv' /\ Message!NeedInv'
<1>1. /\ UNCHANGED <<named, alive, msgs, mem, lastPost>> /\ run.pc \in {"giveBack", "save"}
      /\ Message!Go("idle") /\ faults' \in 0 .. MaxFaults
  BY FaultsIs DEF Message!GiveBack, Message!Save, Message!At
<1>2. run' \in StatusRuns /\ run'.pc = "idle"
  BY <1>1, GoIs DEF StatusPcs
<1>3. PICK m \in StatusMems, d \in StatusRows : m = mem /\ d = disk
  BY StatusTypes
<1>4. CASE disk' = disk
  BY <1>1, <1>4, StatusIdle
<1>5. CASE Message!GiveBack /\ disk' = [disk EXCEPT !.attempt = Message!Expired]
  <2>1. RepostEvery \in 0 .. RepostEvery /\ RepostEvery <= RepostEvery
    BY DEF StatusConstants
  <2>2. disk' \in StatusRows /\ disk'.ts = d.ts /\ disk'.chan = d.chan /\ disk'.attempt = RepostEvery
    BY <1>3, <1>5, <2>1 DEF StatusRows, Message!Expired
  <2>3. Message!TypeOK'
    BY <1>1, <1>2, <1>3, <2>2, StatusTypes, StatusTyped
  <2>4. lastPost = RepostEvery
    BY <1>5 DEF Message!WindowInv, Message!GiveBack
  <2>5. Message!WindowInv'
    BY <1>1, <1>2, <2>1, <2>2, <2>4 DEF Message!WindowInv, Message!Posting, Message!At
  <2>6. Message!NeedInv'
    BY <1>1, <1>2, <1>3, <2>2 DEF Message!NeedInv, Message!Posting, Message!At
  <2> QED BY <2>3, <2>5, <2>6
<1>6. CASE Message!Save /\ disk' = [disk EXCEPT !.ts = mem.ts, !.chan = mem.chan]
  <2>1. disk' \in StatusRows /\ disk'.ts = m.ts /\ disk'.chan = m.chan /\ disk'.attempt = d.attempt
    BY <1>3, <1>6 DEF StatusRows, StatusMems
  <2>2. Message!TypeOK'
    BY <1>1, <1>2, <1>3, <2>1, StatusTypes, StatusTyped
  <2>3. Message!WindowInv'
    BY <1>1, <1>2, <1>3, <2>1 DEF Message!WindowInv, Message!Posting, Message!At
  <2>4. Message!NeedInv'
    BY <1>1, <1>2, <1>3, <2>1 DEF Message!NeedInv, Message!Posting, Message!At
  <2> QED BY <2>2, <2>3, <2>4
<1> QED BY <1>4, <1>5, <1>6 DEF Message!GiveBack, Message!Save

LEMMA StatusSlack ==
  ASSUME StatusConstants, Message!TypeOK, Message!WindowInv, Message!NeedInv,
         \/ Message!ContextEnds \/ Message!DeleteMessage \/ Message!CloseEdits \/ Message!ChannelMoves
         \/ UNCHANGED Message!vars
  PROVE  Message!TypeOK' /\ Message!WindowInv' /\ Message!NeedInv'
<1>1. UNCHANGED <<disk, mem, lastPost>> /\ faults' \in 0 .. MaxFaults
  BY FaultsIs DEF Message!ContextEnds, Message!DeleteMessage, Message!CloseEdits, Message!ChannelMoves, Message!vars
<1>2. run' \in StatusRuns /\ run'.pc = run.pc
  <2>1. CASE Message!ContextEnds
    BY <2>1, StatusTypes DEF Message!ContextEnds, StatusRuns
  <2>2. CASE run' = run
    BY <2>2, StatusTypes
  <2> QED BY <2>1, <2>2 DEF Message!DeleteMessage, Message!CloseEdits, Message!ChannelMoves, Message!vars
<1>3. /\ named' \in alive' /\ alive' \subseteq alive
      /\ named' = named \/ named \notin alive'
  BY StatusTypes DEF Message!ContextEnds, Message!DeleteMessage, Message!CloseEdits, Message!ChannelMoves, Message!vars
<1>4. /\ msgs' \subseteq [ts : Message!Stamps \ {0}, chan : Channels, open : BOOLEAN]
      /\ \A m \in msgs' : m.open => m \in msgs
  <2>1. CASE Message!CloseEdits
    <3>1. PICK m \in msgs : msgs' = (msgs \ {m}) \cup {[m EXCEPT !.open = FALSE]}
      BY <2>1 DEF Message!CloseEdits
    <3>2. m \in [ts : Message!Stamps \ {0}, chan : Channels, open : BOOLEAN]
      BY StatusTypes
    <3>3. /\ [m EXCEPT !.open = FALSE] \in [ts : Message!Stamps \ {0}, chan : Channels, open : BOOLEAN]
          /\ ~ [m EXCEPT !.open = FALSE].open
      BY <3>2
    <3> QED BY <3>1, <3>3, StatusTypes
  <2>2. CASE msgs' \subseteq msgs
    BY <2>2, StatusTypes
  <2> QED BY <2>1, <2>2 DEF Message!ContextEnds, Message!DeleteMessage, Message!ChannelMoves, Message!vars
<1> QED BY <1>1, <1>2, <1>3, <1>4, OnlySlack

LEMMA StatusTime ==
  ASSUME StatusConstants, Message!TypeOK, Message!WindowInv, Message!NeedInv, Message!TimePasses
  PROVE  Message!TypeOK' /\ Message!WindowInv' /\ Message!NeedInv'
<1> DEFINE Aged(age) == IF age < RepostEvery THEN age + 1 ELSE age
<1>1. /\ run.pc \in {"idle", "down"} /\ UNCHANGED <<named, alive, msgs, run, faults>>
      /\ disk' = [disk EXCEPT !.attempt = Aged(disk.attempt)]
      /\ mem' = [mem EXCEPT !.attempt = Aged(mem.attempt)]
      /\ lastPost' = Aged(lastPost)
  BY DEF Message!TimePasses
<1>2. \A a \in 0 .. RepostEvery : Aged(a) \in 0 .. RepostEvery
  BY DEF StatusConstants
<1>3. \A a, b \in 0 .. RepostEvery : a <= b => Aged(a) <= Aged(b)
  BY DEF StatusConstants
<1> HIDE DEF Aged
<1>4. PICK m \in StatusMems, d \in StatusRows : m = mem /\ d = disk
  BY StatusTypes
<1>5. m.attempt \in 0 .. RepostEvery /\ d.attempt \in 0 .. RepostEvery /\ lastPost \in 0 .. RepostEvery
  BY StatusTypes DEF StatusMems, StatusRows
<1>6. /\ mem' \in StatusMems /\ mem'.loaded = m.loaded /\ mem'.ts = m.ts /\ mem'.chan = m.chan
      /\ mem'.channel = m.channel /\ mem'.attempt = Aged(m.attempt)
  <2>1. PICK n \in 0 .. RepostEvery : n = Aged(m.attempt) /\ mem' = [m EXCEPT !.attempt = n]
    BY <1>1, <1>2, <1>4, <1>5
  <2> QED BY <2>1 DEF StatusMems
<1>7. disk' \in StatusRows /\ disk'.ts = d.ts /\ disk'.chan = d.chan /\ disk'.attempt = Aged(d.attempt)
  <2>1. PICK n \in 0 .. RepostEvery : n = Aged(d.attempt) /\ disk' = [d EXCEPT !.attempt = n]
    BY <1>1, <1>2, <1>4, <1>5
  <2> QED BY <2>1 DEF StatusRows
<1>8. Message!TypeOK'
  BY <1>1, <1>2, <1>4, <1>5, <1>6, <1>7, StatusTypes, StatusTyped
<1>9. Message!WindowInv'
  <2>1. d.attempt <= lastPost /\ (m.loaded => m.attempt <= lastPost)
    BY <1>4 DEF Message!WindowInv
  <2> QED BY <1>1, <1>3, <1>5, <1>6, <1>7, <2>1 DEF Message!WindowInv, Message!Posting, Message!At
<1>10. Message!NeedInv'
  BY <1>1, <1>4, <1>6, <1>7 DEF Message!NeedInv, Message!Posting, Message!At
<1> QED BY <1>8, <1>9, <1>10

LEMMA StatusInit ==
  ASSUME StatusConstants, Message!Init
  PROVE  Message!TypeOK /\ Message!WindowInv /\ Message!NeedInv
<1>1. /\ named \in alive /\ alive = Channels /\ msgs = {} /\ disk = Message!NoRow /\ mem = Message!Fresh
      /\ run = [pc |-> "down", late |-> FALSE] /\ faults = 0 /\ lastPost = RepostEvery
  BY DEF Message!Init, Message!Expired
<1>2. mem \in StatusMems /\ ~ mem.loaded /\ mem.channel = None
  BY <1>1, FreshIs
<1>3. disk \in StatusRows /\ disk.attempt = RepostEvery
  BY <1>1 DEF Message!NoRow, Message!Expired, Message!Stamps, StatusRows, StatusConstants
<1>4. faults \in 0 .. MaxFaults /\ lastPost \in 0 .. RepostEvery /\ RepostEvery <= RepostEvery
  BY <1>1 DEF StatusConstants
<1>5. run.pc = "down" /\ run \in StatusRuns
  BY <1>1 DEF StatusRuns, StatusPcs
<1>6. Message!TypeOK
  BY <1>1, <1>2, <1>3, <1>4, <1>5 DEF Message!TypeOK, StatusRows, StatusMems, StatusRuns, StatusPcs
<1>7. Message!WindowInv
  BY <1>1, <1>2, <1>3, <1>4, <1>5 DEF Message!WindowInv, Message!Posting, Message!At
<1>8. Message!NeedInv
  BY <1>1, <1>2, <1>5 DEF Message!NeedInv, Message!Posting, Message!At, StatusConstants
<1> QED BY <1>6, <1>7, <1>8

LEMMA MessageStep ==
  ASSUME StatusConstants, Message!TypeOK, Message!WindowInv, Message!NeedInv,
         [Message!Next]_(Message!vars)
  PROVE  Message!TypeOK' /\ Message!WindowInv' /\ Message!NeedInv'
<1>1. CASE Message!Boot \/ Message!Crash
  BY <1>1, StatusDown
<1>2. CASE Message!Begin
  BY <1>2, StatusBegin
<1>3. CASE Message!RunStep
  <2>1. CASE Message!Load
    BY <2>1, StatusLoad
  <2>2. CASE Message!Find \/ Message!Refind
    BY <2>2, StatusFind
  <2>3. CASE Message!Edit
    BY <2>3, StatusEdit
  <2>4. CASE Message!EditOld
    BY <2>4, FaultsIs, StatusIdle DEF Message!EditOld
  <2>5. CASE Message!StoreAttempt
    BY <2>5, StatusAttempt
  <2>6. CASE Message!Post
    BY <2>6, StatusPost
  <2>7. CASE Message!GiveBack \/ Message!Save
    BY <2>7, StatusWrites
  <2> QED BY <1>3, <2>1, <2>2, <2>3, <2>4, <2>5, <2>6, <2>7 DEF Message!RunStep
<1>4. CASE \/ Message!ContextEnds \/ Message!DeleteMessage \/ Message!CloseEdits \/ Message!ChannelMoves
           \/ UNCHANGED Message!vars
  BY <1>4, StatusSlack
<1>5. CASE Message!TimePasses
  BY <1>5, StatusTime
<1> QED BY <1>1, <1>2, <1>3, <1>4, <1>5 DEF Message!Next

(* What holds of the status message in every state, for any channels,      *)
(* window and number of disturbances.                                      *)
THEOREM MessageInvariant ==
  ASSUME StatusConstants
  PROVE  Message!Spec => [](Message!TypeOK /\ Message!WindowInv /\ Message!NeedInv)
<1>1. Message!Init => Message!TypeOK /\ Message!WindowInv /\ Message!NeedInv
  BY StatusInit
<1>2. Message!TypeOK /\ Message!WindowInv /\ Message!NeedInv /\ [Message!Next]_(Message!vars)
        => Message!TypeOK' /\ Message!WindowInv' /\ Message!NeedInv'
  BY MessageStep
<1> QED BY <1>1, <1>2, PTL DEF Message!Spec

(* Only a post that Slack carried out makes a message. *)
LEMMA OnlyPostsCreate ==
  ASSUME StatusConstants, Message!TypeOK, [Message!Next]_(Message!vars),
         NEW m \in msgs', \A n \in msgs : n.ts # m.ts
  PROVE  Message!Post /\ Message!Created
<1>1. m \notin msgs
  OBVIOUS
<1>2. CASE Message!Post
  BY <1>1, <1>2 DEF Message!Post
<1>3. CASE Message!CloseEdits
  <2>1. PICK n \in msgs : msgs' = (msgs \ {n}) \cup {[n EXCEPT !.open = FALSE]}
    BY <1>3 DEF Message!CloseEdits
  <2>2. [n EXCEPT !.open = FALSE].ts = n.ts
    <3>1. n \in [ts : Message!Stamps \ {0}, chan : Channels, open : BOOLEAN]
      BY StatusTypes
    <3> QED BY <3>1
  <2> QED BY <1>1, <2>1, <2>2
<1>4. CASE msgs' \subseteq msgs
  BY <1>1, <1>4
<1> QED BY <1>2, <1>3, <1>4 DEF Message!Next, Message!RunStep, Message!Boot, Message!Begin, Message!Load,
          Message!Find, Message!Edit, Message!Refind, Message!EditOld, Message!StoreAttempt,
          Message!GiveBack, Message!Save, Message!ContextEnds, Message!Crash, Message!DeleteMessage,
          Message!ChannelMoves, Message!TimePasses, Message!vars

(* post's cap: Slack never creates two status messages within repostEvery, *)
(* whatever answers, runs or processes are lost between the two.           *)
THEOREM OnePostPerWindow ==
  ASSUME StatusConstants
  PROVE  Message!Spec => Message!AtMostOnePostPerWindow
<1>1. Message!TypeOK /\ Message!WindowInv /\ [Message!Next]_(Message!vars)
        => [(\E m \in msgs' : \A n \in msgs : n.ts # m.ts) => lastPost >= RepostEvery]_(Message!vars)
  <2> SUFFICES ASSUME Message!TypeOK, Message!WindowInv, [Message!Next]_(Message!vars),
                      NEW m \in msgs', \A n \in msgs : n.ts # m.ts
               PROVE  lastPost >= RepostEvery
    OBVIOUS
  <2>1. run.pc = "post"
    BY OnlyPostsCreate DEF Message!Post, Message!At
  <2>2. lastPost = RepostEvery /\ RepostEvery \in Nat
    BY <2>1 DEF Message!WindowInv, Message!Posting, StatusConstants
  <2> QED BY <2>2
<1> QED BY <1>1, MessageInvariant, PTL DEF Message!Spec, Message!AtMostOnePostPerWindow

(* load and send: no new message while the stored one can still be edited  *)
(* where it belongs, unless one was made since that could not be stored.   *)
THEOREM NoPostWithoutNeed ==
  ASSUME StatusConstants
  PROVE  Message!Spec => Message!NoNeedlessMessage
<1>1. Message!TypeOK /\ Message!NeedInv /\ [Message!Next]_(Message!vars)
        => [(\E m \in msgs' : \A n \in msgs : n.ts # m.ts) =>
              ~ (/\ disk.chan = named /\ Message!Editable(disk.ts, disk.chan)
                 /\ mem.ts \in {0, disk.ts})]_(Message!vars)
  <2> SUFFICES ASSUME Message!TypeOK, Message!NeedInv, [Message!Next]_(Message!vars),
                      NEW m \in msgs', \A n \in msgs : n.ts # m.ts,
                      disk.chan = named, Message!Editable(disk.ts, disk.chan), mem.ts \in {0, disk.ts}
               PROVE  FALSE
    OBVIOUS
  <2>1. run.pc = "post" /\ mem.channel \in alive
    BY OnlyPostsCreate DEF Message!Post, Message!At, Message!Created
  <2>2. mem.loaded /\ mem.channel = named
    BY <2>1, StatusTypes DEF Message!NeedInv
  <2>3. disk.ts # 0
    BY StatusTypes DEF Message!Editable
  <2>4. mem.ts = disk.ts /\ mem.ts # 0 /\ mem.chan = disk.chan
    BY <2>2, <2>3 DEF Message!NeedInv
  <2>5. ~ Message!Editable(mem.ts, mem.chan)
    BY <2>1, <2>2, <2>4 DEF Message!NeedInv, Message!Posting
  <2> QED BY <2>4, <2>5
<1> QED BY <1>1, MessageInvariant, PTL DEF Message!Spec, Message!NoNeedlessMessage
=============================================================================
