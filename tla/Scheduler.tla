----------------------------- MODULE Scheduler -----------------------------
(***************************************************************************)
(* serve's job loop (cmd/scheduler.go), what a finished job reports and to *)
(* whom (cmd/app.go, cmd/status.go, cmd/health.go, cmd/ping.go), shutdown  *)
(* and restart.                                                            *)
(*                                                                         *)
(* Time advances in units, of which a job j takes at most MaxRun[j].       *)
(* Nothing needs an absolute time: a ticker is the time left until it fires*)
(* a recorded success is its age, and ages stop at Stale.                  *)
(***************************************************************************)
EXTENDS Integers

CONSTANTS
    Jobs,      \* the jobs that are set: "sync" and any of the others
    Every,     \* the interval of each job but the backup
    Day,       \* time between two nights' backups
    MaxRun     \* bound: the longest each job takes, its reports included

ASSUME JobsAssumption ==
    /\ Jobs \subseteq {"sync", "import", "backup", "prune"}
    /\ "sync" \in Jobs
    /\ Every \in [Jobs \ {"backup"} -> Nat \ {0}]
    /\ Day \in Nat \ {0}
    /\ MaxRun \in [Jobs -> Nat]

VARIABLES
    tod,     \* time of day: since BACKUP_AT last passed
    ticker,  \* each job's ticker: its interval, the time left, its channel
    loop,    \* where the scheduler's goroutine is
    ctx,     \* serve's context
    health,  \* Health.lastOK, as an age
    synced,  \* on disk: the age of sync_state.synced_at
    told,    \* history: the last outcome anyone was told
    ticked,  \* history: the job's ticker fired since its last run
    tonight, \* history: backups started since BACKUP_AT last passed
    upAllDay,\* history: the process has been up since then
    smooth   \* history: every sync since the last recorded one succeeded

vars == <<tod, ticker, loop, ctx, health, synced, told, ticked, tonight,
          upAllDay, smooth>>

StaleAfter_single == Every["sync"]

StaleAfter == 2 * Every["sync"]
Stale      == StaleAfter + MaxRun["sync"] + 1

Older(age) == IF age \in 0 .. Stale - 1 THEN age + 1 ELSE age

Idle == [pc |-> "select", job |-> "none", ran |-> 0, outcome |-> "none",
         first |-> FALSE]
Down == [Idle EXCEPT !.pc = "down"]

Serving == loop.pc # "down"

-----------------------------------------------------------------------------
(* Tickers *)

NextDaily_drifts(now) == Day

(* nextDaily: the time until the next BACKUP_AT strictly after now.        *)
NextDaily(now) == Day - now

NewTicker(every) == [every |-> every, left |-> every, due |-> FALSE]

Armed == [j \in Jobs |->
            NewTicker(IF j = "backup" THEN NextDaily(tod) ELSE Every[j])]

(* What follows a job: its own tick that came due meanwhile is dropped, and*)
(* the backup's ticker is a new one.                                       *)
AfterJob_kept(j)    == ticker
AfterJob_noRearm(j) == [ticker EXCEPT ![j].due = FALSE]

AfterJob(j) ==
    IF j = "backup" THEN [ticker EXCEPT ![j] = NewTicker(NextDaily(tod))]
    ELSE [ticker EXCEPT ![j].due = FALSE]

(* A second tick finds the channel full and is lost.                       *)
Advance_oneShot(t) == IF t.left > 1 THEN [t EXCEPT !.left = @ - 1]
                      ELSE [t EXCEPT !.left = 0, !.due = t.left = 1]

Advance(t) == IF t.left > 1 THEN [t EXCEPT !.left = @ - 1]
              ELSE [t EXCEPT !.left = t.every, !.due = TRUE]

-----------------------------------------------------------------------------
(* The loop *)

Run(j, first) == [Idle EXCEPT !.pc = "job", !.job = j, !.first = first]

(* serve starts: the tickers first, then a prune, then a sync.             *)
Boot ==
    /\ ~ Serving
    /\ ticker' = Armed
    /\ loop' = Run(IF "prune" \in Jobs THEN "prune" ELSE "sync", TRUE)
    /\ ctx' = "live"
    /\ UNCHANGED <<tod, health, synced, told, ticked, tonight, upAllDay, smooth>>

(* The process is gone, and all it remembered.                             *)
Gone ==
    /\ ticker' = Armed
    /\ loop' = Down
    /\ ctx' = "ended"
    /\ health' = Stale
    /\ told' = "none"
    /\ ticked' = [j \in Jobs |-> FALSE]
    /\ upAllDay' = FALSE /\ smooth' = FALSE
    /\ UNCHANGED <<tod, synced, tonight>>

(* One branch of the select.                                               *)
Start(j) ==
    /\ loop.pc = "select"
    /\ ticker[j].due
    /\ ticker' = [ticker EXCEPT ![j].due = FALSE]
    /\ loop' = Run(j, FALSE)
    /\ tonight' = IF j = "backup" /\ tonight < 2 THEN tonight + 1 ELSE tonight
    /\ UNCHANGED <<tod, ctx, health, synced, told, ticked, upAllDay, smooth>>

Stop == loop.pc = "select" /\ ctx = "ended" /\ Gone

(* The job returns.  A sync commits, fails, is skipped for want of budget, *)
(* or is cut short by shutdown.                                            *)
Outcomes(j) ==
    {"ok", "failed"} \cup (IF j = "sync" THEN {"skipped"} ELSE {})
                     \cup (IF ctx = "ended" THEN {"cancelled"} ELSE {})

(* The goroutine is done with a job and everything it reports.             *)
Finished(j) ==
    /\ ticker' = AfterJob(j)
    /\ ticked' = [ticked EXCEPT ![j] = FALSE]
    /\ loop' = IF loop.first /\ j = "prune" THEN Run("sync", TRUE) ELSE Idle

Finish(j, outcome) ==
    /\ loop.pc = "job" /\ loop.job = j
    /\ outcome \in Outcomes(j)
    /\ CASE j = "sync" ->
              /\ loop' = [loop EXCEPT !.pc = "ping", !.outcome = outcome]
              /\ synced' = IF outcome = "ok" THEN 0 ELSE synced
              /\ smooth' = (smooth /\ outcome = "ok")
              /\ UNCHANGED <<ticker, ticked>>
         [] j = "backup" ->
              /\ loop' = [loop EXCEPT !.pc = "status", !.outcome = outcome]
              /\ UNCHANGED <<ticker, ticked, synced, smooth>>
         [] OTHER ->
              /\ Finished(j)
              /\ UNCHANGED <<synced, smooth>>
    /\ UNCHANGED <<tod, ctx, health, told, tonight, upAllDay>>

(* Pinger.After *)
Ping_always ==
    /\ loop.pc = "ping"
    /\ loop' = [loop EXCEPT !.pc = "status"]
    /\ told' = IF loop.outcome # "skipped" THEN loop.outcome
               ELSE told
    /\ UNCHANGED <<tod, ticker, ctx, health, synced, ticked, tonight, upAllDay, smooth>>

Ping ==
    /\ loop.pc = "ping"
    /\ loop' = [loop EXCEPT !.pc = "status"]
    /\ told' = IF ctx = "live" /\ loop.outcome # "skipped"
               THEN loop.outcome
               ELSE told
    /\ UNCHANGED <<tod, ticker, ctx, health, synced, ticked, tonight, upAllDay, smooth>>

(* Updater.SyncDone, BackupDone (StatusMessage has what they do).          *)
Status ==
    /\ loop.pc = "status"
    /\ told' = IF ctx = "live" THEN loop.outcome ELSE told
    /\ IF loop.job = "sync"
       THEN loop' = [loop EXCEPT !.pc = "health"] /\ UNCHANGED <<ticker, ticked>>
       ELSE Finished(loop.job)
    /\ UNCHANGED <<tod, ctx, health, synced, tonight, upAllDay, smooth>>

(* Health.OK, Health.Fail *)
Recorded_skipIsFresh(outcome) == IF outcome = "failed" THEN health ELSE 0

Recorded(outcome) == IF outcome = "ok" THEN 0 ELSE health

Record ==
    /\ loop.pc = "health"
    /\ IF ctx = "live"
       THEN /\ health' = Recorded(loop.outcome)
            /\ told' = loop.outcome
            /\ smooth' = (smooth \/ loop.outcome = "ok")
       ELSE UNCHANGED <<health, told, smooth>>
    /\ Finished("sync")
    /\ UNCHANGED <<tod, ctx, synced, tonight, upAllDay>>

(* SIGTERM, or a listener that stopped.                                    *)
Shutdown ==
    /\ Serving /\ ctx = "live"
    /\ ctx' = "ended"
    /\ UNCHANGED <<tod, ticker, loop, health, synced, told, ticked, tonight, upAllDay, smooth>>

Crash == Serving /\ Gone

(* The goroutine is never late: it does not sit on a ready channel, and a  *)
(* job and its reports take at most its MaxRun.                            *)
MayWait ==
    \/ ~ Serving
    \/ loop.pc = "select" /\ ctx = "live" /\ \A j \in Jobs : ~ ticker[j].due
    \/ loop.pc \notin {"select", "down"} /\ loop.ran < MaxRun[loop.job]

TimePasses ==
    /\ MayWait
    /\ tod' = (tod + 1) % Day
    /\ IF Serving
       THEN /\ ticker' = [j \in Jobs |-> Advance(ticker[j])]
            /\ ticked' = [j \in Jobs |->
                            ticked[j] \/ (ticker[j].left = 1 /\ loop.job # j)]
       ELSE UNCHANGED <<ticker, ticked>>
    /\ loop' = IF loop.job = "none" THEN loop ELSE [loop EXCEPT !.ran = @ + 1]
    /\ health' = Older(health)
    /\ synced' = Older(synced)
    /\ tonight' = IF tod' = 0 THEN 0 ELSE tonight
    /\ upAllDay' = IF tod' = 0 THEN Serving ELSE upAllDay
    /\ UNCHANGED <<ctx, told, smooth>>

-----------------------------------------------------------------------------
Init ==
    /\ tod \in 0 .. Day - 1
    /\ ticker = Armed
    /\ loop = Down
    /\ ctx = "ended"
    /\ health = Stale
    /\ synced = Stale
    /\ told = "none"
    /\ ticked = [j \in Jobs |-> FALSE]
    /\ tonight = 0
    /\ upAllDay = FALSE
    /\ smooth = FALSE

FinishAny == \E j \in Jobs, o \in {"ok", "failed", "skipped", "cancelled"} : Finish(j, o)

Next ==
    \/ Boot \/ Stop \/ Shutdown \/ Crash \/ TimePasses
    \/ \E j \in Jobs : Start(j)
    \/ FinishAny \/ Ping \/ Status \/ Record

(* The process is started again, time passes and jobs return; and select   *)
(* chooses at random among ready channels, so none is passed over for ever.*)
Fairness ==
    /\ WF_vars(Boot) /\ WF_vars(TimePasses)
    /\ WF_vars(FinishAny) /\ WF_vars(Ping) /\ WF_vars(Status) /\ WF_vars(Record)
    /\ SF_vars(Stop)
    /\ \A j \in Jobs : SF_vars(Start(j))

Spec == Init /\ [][Next]_vars /\ Fairness

-----------------------------------------------------------------------------
(* Properties *)

TypeOK ==
    /\ tod \in 0 .. Day - 1
    /\ ticker \in [Jobs -> [every : Nat \ {0}, left : Nat \ {0}, due : BOOLEAN]]
    /\ \A j \in Jobs : ticker[j].left <= ticker[j].every
    /\ loop \in [pc : {"down", "select", "job", "ping", "status", "health"},
                 job : Jobs \cup {"none"}, ran : Nat,
                 outcome : {"none", "ok", "failed", "skipped", "cancelled"},
                 first : BOOLEAN]
    /\ loop.job \in Jobs => loop.ran <= MaxRun[loop.job]
    /\ ctx \in {"live", "ended"}
    /\ health \in 0 .. Stale /\ synced \in 0 .. Stale
    /\ told \in {"none", "ok", "failed", "skipped", "cancelled"}
    /\ ticked \in [Jobs -> BOOLEAN]
    /\ tonight \in 0 .. 2
    /\ upAllDay \in BOOLEAN /\ smooth \in BOOLEAN

Healthy == health <= StaleAfter

(* "A job cancelled by shutdown reports nothing" (addStatus): neither the  *)
(* ping, nor the status message, nor /healthz takes it for a failure.      *)
ShutdownReportsNothing == told # "cancelled"

(* "A slow job isn't followed straight away by another" (drain): a job     *)
(* only starts on a tick that came due after its last run.                 *)
NoBackToBackTick ==
    [][\A j \in Jobs : loop.pc = "select" /\ loop'.job = j => ticked[j]]_vars

(* One backup a night, restarts included, however long jobs take.          *)
OneBackupPerNight == tonight <= 1

(* And none is missed: a process up from one BACKUP_AT to the next has     *)
(* backed up once in between, if jobs are short beside the intervals.      *)
NoNightWithoutBackup ==
    [][upAllDay /\ tod' = 0 /\ tod # 0 /\ "backup" \in Jobs => tonight = 1]_vars

(* /healthz answers 200 only while a sync succeeded within StaleAfter, and *)
(* what that sync's own reports took: a skipped tick is not one.           *)
HealthyMeansFreshSync == Healthy => synced <= StaleAfter + MaxRun["sync"]

(* /healthz does not flap: once a sync was recorded, and while every sync  *)
(* succeeds, it answers 200, although other jobs delay syncs and drop their*)
(* ticks; if jobs are short enough beside their intervals (Room, below).   *)
HealthyWhileSyncsSucceed == Serving /\ ctx = "live" /\ smooth => Healthy

(* No job starves, whatever ticks are dropped.                             *)
EveryJobRunsAgain ==
    \A j \in Jobs : []<>(~ Serving \/ ctx = "ended" \/ loop.job = j)

-----------------------------------------------------------------------------
(* Why they hold, whatever the jobs, their intervals and how long they     *)
(* take: an inductive invariant (SchedulerProofs).                         *)

(* The goroutine is done with one job before the next; only shutdown cuts  *)
(* one short.                                                              *)
LoopInv ==
    /\ loop.job = "none" <=> loop.pc \in {"down", "select"}
    /\ loop.pc \in {"ping", "health"} => loop.job = "sync"
    /\ loop.pc = "status" => loop.job \in {"sync", "backup"}
    /\ loop.outcome = "cancelled" => ctx = "ended"
    /\ ShutdownReportsNothing

TickInv == \A j \in Jobs : ticker[j].due /\ loop.job # j => ticked[j]

(* Unless it is backing up, the next tick is at BACKUP_AT, or tonight's    *)
(* backup is still due.                                                    *)
NightInv ==
    /\ OneBackupPerNight
    /\ "backup" \in Jobs /\ Serving /\ loop.job # "backup" =>
          \/ ticker["backup"].due /\ tonight = 0
          \/ ~ ticker["backup"].due /\ ticker["backup"].left = NextDaily(tod)

(* A success is recorded at most a run's length after it was committed.    *)
FreshInv ==
    /\ health < Stale => synced <= health + MaxRun["sync"]
    /\ loop.job = "sync" /\ loop.outcome = "ok" => synced <= loop.ran

ScheduleInv == LoopInv /\ TickInv /\ NightInv /\ FreshInv

-----------------------------------------------------------------------------
(* How long a job waits for the others: the work that is ready, and what   *)
(* is about to be, weighed so that each job's ticks bring no more than its *)
(* runs take away.                                                         *)

Names    == {"sync", "import", "backup", "prune"}
Total(f) == f["sync"] + f["import"] + f["backup"] + f["prune"]

One(w)    == [j \in Names |-> IF j \in Jobs \ {w} THEN 1 ELSE 0]
Others(w) == Total(One(w))

Interval(j) == IF j = "backup" THEN Day ELSE Every[j]
Until(j)    == IF j = "backup" THEN NextDaily(tod) ELSE ticker[j].left

(* What the goroutine still owes j: the rest of its run, or one that is due*)
Owed(j) == \/ ticker[j].due
           \/ j = "sync" /\ loop.first /\ loop.job = "prune"
Work(j) == IF loop.job = j THEN MaxRun[j] - loop.ran
           ELSE IF Owed(j) THEN MaxRun[j] ELSE 0

Slope(w, k, j) == IF j = w THEN Others(w) + 1 ELSE k

LoadOf(s, run, work, until) ==
    s * work + (IF until < s * run THEN s * run - until ELSE 0)

Load(w, k)  == [j \in Names |-> IF j \in Jobs
                                THEN LoadOf(Slope(w, k, j), MaxRun[j], Work(j), Until(j))
                                ELSE 0]
Ahead(w, k) == Total([Load(w, k) EXCEPT ![w] = 0])

(* Jobs are short beside their intervals, so that w is at most wait late:  *)
(* k runs of another job fit into its interval, and one run of w for every *)
(* job into w's.                                                           *)
Longest(w) == Total([j \in Names |-> IF j \in Jobs \ {w} THEN MaxRun[j] ELSE 0])

Room(w, k, wait) ==
    /\ w \in Jobs
    /\ k > Others(w)
    /\ \A j \in Jobs : Slope(w, k, j) * MaxRun[j] <= Interval(j)
    /\ k * Longest(w) <= (k - Others(w)) * wait

Waiting(w) == Serving /\ loop.job # w /\ ticker[w].due

PaceInv(w, k) ==
    /\ \A j \in Jobs \ {"backup"} : ticker[j].every = Every[j]
    /\ Serving => Total(Load(w, k)) <= k * Longest(w) + (Others(w) + 1) * MaxRun[w]

BackupInv(k, wait) ==
    /\ Waiting("backup") =>
         (k - Others("backup")) * tod + Ahead("backup", k) <= k * Longest("backup")
    /\ loop.job = "backup" => tod <= wait + loop.ran
    /\ upAllDay => Serving /\ (tonight = 1 \/ Waiting("backup"))

(* Overdue by what the others take, and then by its own run.               *)
SyncInv(k, wait) ==
    /\ smooth => Serving /\ ~ loop.first
    /\ smooth /\ loop.job = "sync" /\ loop.pc # "job" => loop.outcome = "ok"
    /\ smooth /\ ctx = "live" =>
         IF loop.job = "sync" THEN health <= Every["sync"] + wait + loop.ran
         ELSE IF Waiting("sync")
         THEN (k - Others("sync")) * (health - Every["sync"]) + Ahead("sync", k)
                <= k * Longest("sync")
         ELSE health + ticker["sync"].left <= Every["sync"]
=============================================================================
