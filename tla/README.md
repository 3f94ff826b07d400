# finbot in TLA+

finbot (the Go program in this repository) keeps a local SQLite mirror of a YNAB
plan, triggers bank imports, backs the database up, keeps one Slack message about
its health current, and answers questions about the mirror over MCP behind its own
OAuth server. This directory models it in TLA+, checks the models with TLC on
small instances, and proves the most important results with TLAPS for every
instance.

    tlc -workers 2 -config MCMirror_ticks.cfg MCMirror     # a run
    tlapm MirrorProofs.tla                                  # a proof

`PROJECT.json` lists the runs, the source lines behind every definition (`map`),
one plausible bug per property that the property must catch (`mutants`; the
definitions with an underscore in their names), the hazards of the code and which
properties watch them, and the theorems.

## 1. The system

`serve` is one process: a scheduler goroutine that runs jobs one after the other,
an HTTP server (health, OAuth, MCP), and one SQLite database with a single writer
connection and a pool of readers. Other processes may use the same database
(`finbot sync`, `backup`, `revoke`, run by hand). Everything else is outside: YNAB,
Slack, Turso, healthchecks.io, Google, the MCP clients.

| Part | Code | State it keeps | Operations | Status |
|---|---|---|---|---|
| Sync tick and mirror | `sync/sync.go`, `sync/mirror.go`, `store/mirror.go` | mirrored rows, sync cursor, `first_seen_at` | `SyncPlan`: read cursor, fetch, stitch, compare links, commit, report | **Mirror** |
| Reading the mirror | `store/transactions_read.go` (`linesCTE`) | none | which rows an answer can show, page by page, and totals | **Mirror** (`Shown`), **Answers** |
| Rate governor | `ynab/governor.go`, `client.go`, `transport.go` | token bucket | `Allow`, `Take`, a call's attempts | **Governor** |
| Scheduler, health | `cmd/scheduler.go`, `app.go`, `health.go`, `ping.go`, `status.go` | tickers, `lastOK`, serve's context | start, a tick, a job's return, its reports, shutdown | **Scheduler** |
| Status message | `status/*.go`, `store/status.go` | cached channel, copy of the stored row; the row | a run: load, find, edit, post, save | **StatusMessage** |
| Backup | `backup/*.go`, `cmd/backup.go` | Turso's backups | snapshot, check, encrypt, upload, verify, prune, restore | **Backup** over **BackupStore** |
| Tokens | `auth/storage.go`, `generations.go` | codes, tokens, generations | issue, rotate, replay, revoke, prune | **Grants** |
| Sign-in and clients | `auth/server.go`, `clients.go` | parked logins and consents, clients | register, authorize, callback, consent | **Logins**: what is parked; **Grants**: clients, and a sign-in's generation |
| MCP tools | `mcp/*.go` | none | data and freshness in one answer, paging, comparing | **Answers** |
| Serving | `cmd/mcp.go`, `cmd/app.go` | the routes, serve's context | bring the routes up, drain, cut off, close | **Logins** |
| Plan scan | `sync/mirror.go`, `store/planscan.go` | a verdict per plan | scan, forget | **PlanScan** |
| Writer and migrations | `store/store.go`, `migrate.go` | the pinned writer connection, the schema version | `Open`, `migrate`, `writeTx` | **Database** |
| Config, CLI, deployment, spikes, documents | `config/`, `main.go`, `deploy/`, `spikes/`, `docs/` | none | | not modelled: no state of their own, or not part of the program |

How the parts meet: the scheduler starts a sync tick; the tick asks the governor
for every request and commits rows and cursor to the database in one transaction;
the tick's outcome goes to the ping, then the status message, then `/healthz`;
the MCP tools read the rows a tick committed. The hand-run commands share the
database, but not the governor and not the scheduler, with `serve`.

What is hard here, part by part, and what makes each part correct:

- **Tick and mirror.** Four separate reads precede one transaction; any of them can
  fail, and another process may commit in between. The cursor must never get ahead
  of the rows, nor the rows ahead of the cursor; a batch must not fail the deferred
  foreign keys at COMMIT, for it would fail for ever; deletions of split
  transactions must take their lines along; link events and `first_seen_at` must
  survive replays.
- **Governor.** Reads, writes and their retries draw on one bucket that refills
  meanwhile, from full and across its cap. Spending stays within the bucket and its
  refill; reads leave the reserve to writes; no token is lost; the wait in an error is
  long enough.
- **Scheduler.** `select` chooses among ready channels, shutdown's among them; a
  slow job drops its own tick; the backup's ticker is re-armed. One backup a night
  and none missed; no job twice for one tick, none starving; a cancelled job
  reports nothing; `/healthz` true and not flapping.
- **Status message.** Crashes between the stored attempt, Slack's answer and the
  stored ts; answers lost; the message, its channel or the row unreadable. One post
  per window at most, no needless second message, and in the end one message in the
  right channel.
- **Backup.** The upload's stream or its COMMIT's answer can be lost; a prune races a
  restore, or another run; bad snapshots must not rotate good ones out. Every stored
  backup is whole and good, the newest `Keep` stay, no transaction is left open at
  Turso, and a restore ends with a whole backup or with an error.
- **Tokens, sign-in.** Racing exchanges and refreshes, replays, a revoke between any
  two steps, caps that evict. One pair of tokens per grant, a revoke wins over
  everything signed in before it, an ended grant stays ended, and nobody is signed
  out without cause. Parked entries expire, are used once and share a cap; every
  process must sign with the same secret.
- **Serving.** The routes come up in the background, after a Google that may answer
  late, and shutdown may come first: the database outlives that and every request.
- **Answers.** Data, freshness and pages are separate snapshots. A walk through the
  pages repeats or skips no line that stayed; the counts add up; the lines listed behind
  a number of a comparison are those it counted; the freshness of an answer is never
  older than its data.
- **Database.** Any statement of a write can fail, COMMIT with its transaction left
  open; two processes may open one new file; a process may die anywhere. The writer
  is never stuck, no migration half or twice applied.
- **Plan scan.** Scans that fail, lose a plan or find it again, in any order, keep
  each plan's last good verdict.

`PROJECT.json` lists these one by one under `hazards`, each at its line, with the
properties that watch it.

## 2. The modules

| Module | What it is |
|---|---|
| `PlanReplica` | The abstract specification: a replica that installs, atomically, snapshots of a plan that were current when it took them. |
| `Mirror` | The tick in its separate steps, by any number of processes, over a changing YNAB plan; and its refinement of `PlanReplica`. |
| `MirrorProofs` | Type correctness, safety, what the mirror owes to the ticks before, and the refinement, proved. |
| `Governor`, `GovernorProofs` | The bucket under its clients; its bounds proved. |
| `Scheduler`, `SchedulerProofs` | The job loop, the reports, shutdown, crash and restart; its safety proved, and that of `StatusMessage`, of which `SchedulerProofs` has an instance. |
| `StatusMessage` | The updater's runs, Slack and the stored row; its safety proved in `SchedulerProofs`. |
| `Grants`, `GrantsProofs` | OAuth grants from sign-in to their end, under racing requests; its invariants proved. |
| `BackupStore` | The abstract specification of a backup target: whole backups in the order of their time stamps, of which a prune spares the newest `Keep`; a restore that writes one or nothing. |
| `Backup`, `BackupProofs` | Runs, Turso's streams and a restore, call by call, and its refinement of `BackupStore`; its invariants and the refinement proved. |
| `Logins`, `LoginsProofs` | Parked logins and consents, the shared secret, and the life of a serving process; its invariants proved. |
| `Answers`, `AnswersProofs` | The tools' queries, one snapshot each, between a client and a committing sync; its invariants proved. |
| `Database` | One file, several processes: open, migrate, write. |
| `PlanScan`, `PlanScanProofs` | The plan scan on top of `Database`; the invariants of both proved. |
| `MC`... | One for each module that has a run, with its values for TLC. |

### Mirror

`knowledge` and `srv` are YNAB: entities that change one at a time under a growing
server knowledge. `mirror`, `cursor`, `firstSeen` are the tables. Each process has
a `pc` and what its tick holds in memory: `base` (the cursor it read), `batch`,
`sk`, `events`. `ReadCursor`, `Fetch`, `Stitch`, `CompareLinks`, `Commit`, `Report`
are the statements of `SyncPlan` between which the database or YNAB can change;
`Fail` is any way to end before the commit (no budget, 429, failed read, rollback,
death), `Crash` is death between COMMIT and the log line. `told` is which link states
the log may last have shown: after a death that lost an event it may be either, and
`LinkEventsOncePerTransition` asks no more than that.

A row is reduced to its last change's knowledge, its tombstone, the knowledge at
which its import id appeared and the account's link error. `first_seen_at`'s time
is the committing tick's knowledge. `stitch`'s two reads of the database (parents,
lines of deleted transactions) are one step: they only ask about presence, which
never goes away, and about lines that another process can only have changed to what
the batch's own source says. What is assumed of YNAB: a tombstone is final, an
import id once set stays, an export has no tombstones but those of categories, and
a split line changes only under a live transaction.

`View` is what a reader can see (`linesCTE`: live rows, lines only under live
parents); the safety properties compare the views, because a full export leaves
tombstones out.

### Governor

Time is in seconds and the bucket in `Hour`-ths of a token, so a second refills
exactly `Limit` units and `perSec` needs no fractions (what float64 rounds is left
out). A call is `Admit` or `RefuseEarly` (preflight), then for every attempt `Send`
or `Refuse`, then `Answer` or `Retry`; retries are the HTTP library's, modelled as
the client's tests show them. The clock is monotone, as Go's is. A restart or a
second process starts with a full bucket of its own: one process is modelled.
`sent` and `sentAt` record the attempts, `hint` the wait last announced. `WithGovernor`
lets any number of clients share a bucket and its mutex lets them call at once, and so
does the model. Today's program has no two calls at once (the scheduler is one
goroutine, `sync --archived` goes plan by plan, the MCP tools have no client), so the
interleavings of two clients are more than it does, and the results hold of it all the
more.

### Scheduler

Time is relative: a ticker is the time left until it fires and whether its
one-place channel is full; a success is its age, and ages stop at `Stale`. `Start`
is one branch of `select`, `Finish` the job's return with any outcome it can have,
`Ping`, `Status`, `Record` the reports in the order `newScheduler` nests them, each
of which looks at serve's context itself, so a shutdown may come between any two.
`AfterJob` drops the tick that came due during the job's own run and re-arms the
backup. `Boot` runs a prune and a sync at once. `MayWait` says the goroutine is
never late: it takes a ready tick before time passes, and job `j` with its reports
takes at most `MaxRun[j]`. A day has a constant length: the night on which the clocks
change, when the next `BACKUP_AT` is an hour nearer or farther, is not modelled. The last section of the module, how long a job waits for
the others, is for the proofs (section 5) and no part of the behaviour. Left out: the
listeners, and MCP's background start (`Logins` has both).

### StatusMessage

Slack is `named` (the channel the setting names), `alive`, `msgs`; `disk` is the
`status_message` row, `mem` the updater's copy and its cached channel, `run` the
step it is at and whether its context has ended (`late`). Each store or Slack call
is a step that works or fails, a post also with its effect but without its answer;
the two writes in a detached context work when the run is late. An attempt is its
age. A run takes a negligible part of the time unit, so time passes between runs.
Everything that disturbs (a failed call, a late context, a crash, a deleted
message, closed edits, a moved channel) counts against `MaxFaults`. The text of the
message, and with it what a backup's result changes in it, is left out; so are a clock
that moves back, which would make a stored attempt younger than it is, and a live channel
that loses its name while the updater runs.

### Grants

`registry`, `generation`, `codes`, `pkce`, `access`, `refresh` are the tables of
migration 0005; a row is its grant (fosite's request id), its place in the grant's
series of pairs, the generation in its session, whether it expired and, for codes
and refresh tokens, whether it is active. `signin` is how far an authorization
request came: `SignIn` is the callback, which captures the generation, `Approve`
the consent, which checks it, `StoreCode` and `StorePKCE` the two rows that fosite
then stores. A request at the token or the revocation endpoint is `req`: where it
stands, and the session it loaded. `PresentCode`, `GetPKCE`, `DeletePKCE`, `Check`,
`Redeem` are an exchange, `PresentRefresh`, `Rotate` a refresh, `ReplayAccess`,
`ReplayRefresh` and `Reuse` what a token that comes back leads to, `PresentRevoked`,
`RevokeRefresh`, `RevokeAccess` a client's revocation. `Revoke` is `RevokeUser` or
`finbot revoke` in its own process, `Register` a client that may evict others,
`Prune` the scheduler's job. `Fail` ends a request at any step.

fosite is not in the repository: in which order it calls the storage, and which
calls it wraps in a transaction, are taken from what `storage.go`'s and
`server.go`'s comments and tests rely on, and those steps are marked external. A
transaction is one step, because it holds the single writer and readers see only
what is committed. Times are reduced to expired or not, in the order the lifetimes
impose within one grant. `issued`, `revoked`, `ended`, `dead` and `lapsed` are
history. Left out: what fosite checks of a request before it asks the storage, and
`ActiveTokens`. The HMAC secret, parked logins and their cap are in `Logins`.

`EndedStaysEnded` has a gap on purpose: a used code's replay revokes access tokens
and refresh tokens in two statements without a transaction, and a refresh that
commits between them leaves an access token that lives out its hour. No refresh
token survives.

### Backup

`job` is a run of `Runner.Run` in each runner, `serve`'s at night and one by hand:
`Snapshot`, `Stamp` (the copy is checked and gets its id), then Turso's `Begin`, one
`Insert` a chunk, `Commit`, and `Prune`; `GiveUp` and `Close` are its ways out. `rows` is the table in Turso, `txn` the one write transaction
Turso has at a time. A call's fate is an element of `Outcomes`: whether it ran, whether
its answer came, whether the answer is an error, whether the stream is still open after
it; a run knows only the last two, through its `baton`. Turso rolls an abandoned stream
back at any time. Ids are handed out in the order of the time stamps, which is not the
order of the commits: that is why `NewestKeepSurvive` is about what a run may take and
not about what is there. `restore` is `List`, a `Fetch` for each chunk,
`Verify` and `Link`, which puts its file into place; a file may appear there at any
moment. How Turso
treats streams is not in the repository and taken from how `turso.go` uses it, so those
definitions are marked external where nothing in `src/` states them. A wrong key or an
altered chunk is a restore that fails.

### Logins

`pending` and `consents` are the two maps of `Server`, an entry is its login and
whether `pendingLoginTTL` has passed. What happens between two uses of the mutex is a
step: `Callback` takes a parked login off, `Exchange` and `Admit` are the calls to
Google, allowlist and database, `ParkConsent` parks again under the same cap;
`Consent` takes that off, `IssueCode` hands over to fosite (`Grants`' `StoreCode`).
Browsers may send anything twice and to either process. `proc` is `buildMCP` and the
secret the server signs with (`ReadSecret`, `InsertSecret`, `RereadSecret` are the three
statements of `HMACSecret`), `main` what the main goroutine is at: serving, waiting for
jobs and `buildMCP`, draining, and with the database closed. A handler whose
connection was closed is `cut`: its context has ended, and it may still be running.

### Answers

`txn`, `sub` and `tick` are what a sync's commit changes: rows, and `sync_state`. A
line's key is its place in the order of the pages; its kind is all else that a query reads
of it: its amount and payee, its category (`CategoryOf`, with `Inflow` the internal ones for
income), whether it is a transfer, whether its account is on budget. A filter is two dates
and the kinds its other conditions let through. `Spending` is what `CategoryTotals` adds
up, with its three conditions (`Spent`): no line of an off-budget account, no transfer
without a category, no income. A call is the sequence of its queries: names, summary, page, sync state,
accounts; or period, baseline, sync state,
accounts. Between any two a `Commit` may
change a transaction together with its lines in any way. `walk` is the client: the
cursor it holds, what its pages gave it. `steady` is history, the lines no commit has
touched since the first data were read; the properties are about those, for about the
others no promise is possible. After a comparison the client may do what the tool's
description tells it to: `Citing` is a walk for the dates and the category of one of the
numbers, with the lines that number counted. `NumbersCanBeCited` says what such a listing is
worth: of the lines that stayed, it has exactly the counted ones and, because
`query_transactions` has no condition on the account, possibly lines of an off-budget
account besides. What the code does not promise, and what the model
shows with it: freshness may name a sync that came *after* the data; a summary and its
page, or the two periods of a comparison, may be of different syncs.

### Database and PlanScan

`file` is what is committed (`recorded` is schema_migrations, `effects` how often each
migration's statements took effect, `rows` the tables of the module on top), `draft`
what the open transaction would commit, `conn` each process's writer connection,
`step` its place in `writeTx`, `proc` its place in `Open`. Every statement works or
fails; a failed COMMIT leaves the transaction open or not; a failed ROLLBACK drops the
connection. A statement that reports a failure has had no effect: a BEGIN or a COMMIT
that the driver reports as cancelled after it took effect is not modelled. A migration's statements fail a second time on their own tables unless it
is `Repeatable`, and its row in schema_migrations then still does. `auth/storage.go` has
a transaction of its own for fosite (`BeginTX`, `Commit`, `Rollback`) that follows the
same protocol on the same connection; `Grants` takes it as one step.

PlanScan lets YNAB's plans change between the list and each fetch, and any fetch fail;
`past` is YNAB's history, `good` the time of each plan's last stored good scan. One
scan runs at a time: two that overlap would store the older one's rows last, and the
code does not say which should win.

## 3. The runs

| Run | Instance | Shows |
|---|---|---|
| `Mirror_ticks` | one process that may die at any step; an account, a category, a split transaction with a line; three changes | the safety properties, the refinement, and with fair ticks the catching up |
| `Governor_budget` | two clients (more than the program has at once); limit 3, reserve 1, an hour of 4 s, 6 s; two attempts a call | the budget's two bounds |
| `Scheduler_jobs` | sync every 4, another job every 6, a backup a day of 11; a backup up to 2, other jobs up to 1 | the safety and action properties, and that no job starves |
| `Status_faults` | three channels, a repost window of 2, four disturbances | the cap, no needless message, the end in one message |
| `Grants_races` | three requests, one grant, up to three pairs; two clients for one place; a revoke of the user and one of everyone | the invariants of grants |
| `Backup_runs` | two runners, three backups of two chunks, one kept; a restore | the store's invariants and the refinement of `BackupStore` |
| `Logins_parked` | two processes, two handlers, four sign-ins for two places | the cap, single use, one secret, the shutdown's order |
| `Answers_pages` | two transactions, one with up to two parts, two dates; two kinds of one category: a transfer that counts and a line off budget; pages of one or two, three commits; a period and a baseline of a date each | paging, counts, the lines behind a comparison's numbers, freshness |
| `PlanScan_file` | two processes, two migrations of which one is repeatable, two plans, two changes at YNAB | the writer, the migrations, the verdicts |

Why the bounds are enough. *Mirror*: a line needs three changes to be created,
deleted and deleted with its transaction; every property but
`NoLineOutlivesItsTransaction` speaks of one entity or of one line and its parent, so
one of each kind shows every pair; schedules behave as transactions do and are left to
the proofs, which have no bound at all. *Governor*: the hour is longer than the
bucket takes to spend, the clock passes an hour and a half, and the limit leaves two
tokens above the reserve, enough for a second call, or a retry, to find the last one gone;
proved without bounds as well. *Scheduler*: the intervals have no common rhythm within the
day, so ticks of any two jobs meet in every order; import and prune are the same job
with other intervals; a backup is longer than other jobs, and a run of every job just
fits into one sync interval, which is tighter than the default (`SYNC_INTERVAL` is 15
minutes and a backup, the longest, is cut off after 10): `HealthyWhileSyncsSucceed` and
`NoNightWithoutBackup` depend on jobs being short beside the intervals. What the theorems
assume of that (section 5) is sufficient, not necessary: for the backup it holds in
this instance, for a sync it does not, so there the run shows a little more. Times are
relative, so the run has no horizon: it covers any number of days. *StatusMessage*: the longest
story needs four disturbances (a lost answer, a restart, a moved channel, a failed
lookup); a third channel is the one to move to a second time. Days are again
unbounded. *Grants*: three requests are two that race and one that replays; grants
meet only in the clients' table, where a second client, without a grant, is enough
to force an eviction; proved without bounds as well. *Backup*: a backup of two chunks
can be stored by half; with one kept, three ids are the one a restore reads, the one
that outlives it, and one of the other runner with a time stamp between. *Logins*: two
handlers take one entry at once; four sign-ins are two that fill the places, one that
is refused and one whose entry has been used. *Answers*: a page of one line has its
edge between two parts of one transaction, between two transactions and between two
dates; three commits lie before the first, between and after the pages of a walk. The
period and the baseline are a date each, so a commit moves a transaction from one into the
other, and splits it or puts it together again there. A line without a category and income
have no number to cite; TLC met both, with four kinds of line and one part, before
`CitationsAgree` was proved for any.
*PlanScan*: a second process is enough to read a stale list of migrations; two plans
are one that fails and one that does not, in every order, and of two changes the
second can undo the first.

`Backup_runs` and `Logins_parked` do not check for deadlock: with all ids given out,
or all sign-ins used and every process down, nothing is left to do. In the others the
stop at a bound is never a deadlock.

The type invariants (`TypeOK`; PlanScan's covers Database) and the inductive invariants
(`SyncInv`, `HistoryInv`, `BucketInv`, `GrantInv`, `WriterInv`, `MigrationInv`, `ScanInv`,
`BackupInv`, `SignInInv`, `ScheduleInv`, `AnswerInv`, `WindowInv`, `NeedInv`), with
`DataNeverAheadOfCursor`, `HintIsEnough` and `ReadsRefusedOnlyWhenSpent`, are proved and
therefore not part of the runs above; TLC found each of them to hold on the instance of
its module's run before it was proved. So did it find that StatusMessage's ids never run
out (`Stamps`), and that Scheduler's `PaceInv`, `BackupInv` and `SyncInv`, whose `k` and
`wait` are parameters, hold where `Room` does.

### What the code does that its own text excludes

Three runs are expected to end in a violation; `PROJECT.json` quotes the text.

- `Mirror_overlap`: two initial loads of one plan overlap (`serve` starts while
  `finbot sync` runs). The one with the older export commits first, the newer one
  last, and an export has no tombstone for what was deleted in between: the row
  stays visible for ever, with the cursor past its deletion.
- `Governor_rolling_hour`: the bucket starts full and refills besides, so a rolling
  hour may see almost twice the limit. `SpendingIsBounded` is what does hold.
- `Status_stranded`: the channel is replaced before a first message is known; the
  cached id is only looked up again after a failed *edit*, and there is nothing to
  edit: every post is refused until the process restarts. `SettlesOnOneMessage` is
  what does hold.

One more thing the models show and excuse: a crash between COMMIT and the log line
loses a link event, because the next tick compares with the state the lost one stored.

## 4. Fairness

- *Mirror* (`FairSpec`, for `CatchesUp`): strong fairness of every step of a tick.
  The ticker fires for ever, and no step fails every time: YNAB answers sometimes,
  the budget refills, the disk is writable again. Weak fairness would not do, since
  a failure disables the step each time.
- *Scheduler*: weak fairness of time, of a job's return (a backup and a status run have
  deadlines, and no call is assumed to hang for ever), of the
  reports and of the start of a new process (the container's restart policy); strong
  fairness of `Stop` and of each `Start(j)`, because `select` chooses at random among
  ready channels and so passes none over for ever.
- *StatusMessage*: weak fairness of the steps of a run and of `Boot`; strong fairness
  of `Begin` (the scheduler keeps reporting) and of time. Disturbances have none:
  they need not happen.
- Every other module states safety only. (`Logins` could say that a stop ends, but
  the run's symmetry does not allow it.)

## 5. The theorems

Everything proved holds for every value of the constants under the named
assumptions in the modules (`BoundAssumption`, `ParentAssumption`, ... : finite
bounds, lines have parents, a positive limit, a reserve within it). No inductive
invariant is weaker than what it proves: each is the properties together with what they
need to be kept by a step.

**MirrorProofs.** `TypeCorrect` and `ForeignKeysSafe` hold for any number of
processes: the mirror only ever gains rows, so a parent that `stitch` saw is still
there at COMMIT. The others assume `OneProcess`, which the overlap run shows is
needed. `CursorNeverAheadOfData` is not inductive: it says nothing of a batch in
flight. `SyncInv` adds that, per tick, the cursor is still the one read
(`TickInv`), that the mirror overlaid with the batch is what YNAB had at `sk`, and
that a payload not yet stitched is true of YNAB (`PayloadIsTrue`: its tombstones are
final, and a line lacks a parent only if YNAB deleted that). The weak point the
proof turns on is what `Mirrors` allows: a row may be missing, or differ from YNAB,
only where no reader would see it. From `SyncInvariant` follow `CursorSafe`,
`DataSafe`, `CursorMonotone`, and `MirrorImplementsReplica`: under `View`, `Fetch`
is the abstract `Take`, `Commit` the abstract `Install`, a failure `Abandon`, and
every other step a stutter.

The three properties about the past need `HistoryInv` on top of `SyncInv`. `LinesInv`:
what is in a batch is newer than every tick before, except the tombstones `stitch`
adds, so a line an earlier tick showed can only be left live under a deleted
transaction by a batch whose stitch missed it, and there is none
(`LinesEndWithTheirTransaction`). `ImportsInv`: mirror and batch together have an import
id from the knowledge on at which YNAB had it, unless the row was never seen live; so
`first_seen_at` is set by the first tick that could, and none after (`FirstSightKept`).
`LinksInv`: of every account that is not closed the reader of the log knows the mirrored
state or is about to be told (`LinkEventsOnce`).

**GovernorProofs.** `BucketInv` says what the level is: at most what every past
moment allows (a full bucket then, plus the refill, less what was sent), and at
least what *some* past moment allows; the same from below for writes alone, with the
reserve in place of the bucket. Refilling can cap the level, and then the moment of
the cap is the new witness. `SpendingBounded`, `ReadsGetTheirBudget`,
`WritesKeepTheirReserve` and `HintsAreEnough` follow.

**GrantsProofs.** For any number of requests, grants, clients and users, and any cap.
`TypeCorrect` includes the foreign key: every row's client is registered.
`GrantInvariant` adds three things to the properties. `GenerationsInv`: rows and
requests carry the generation their sign-in captured, which is the current one
exactly for grants not signed in before a revoke; so a revoke needs to touch no row.
`PairsInv`: a code is live only before the first pair, and a live token is of the
last pair; so of two racing transactions the second finds nothing to use.
`RequestsInv`: a request that is about to end a grant found one that has tokens, so
an end is never overtaken by a first exchange. `OnePairPerGrant`, `RevocationWins`,
`EndIsFinal` and `LatestAlwaysWorks` follow.

**PlanScanProofs.** For any number of processes, migrations and plans.
`FileInvariant` has four parts. `WriterInv` ties a process's place in `writeTx` to its
connection and the lock: whoever is between BEGIN and the end of the deferred ROLLBACK
is known to be, so `WriterIsReleased`. `MigrationInv`: the file is a prefix of the
migrations, a transaction starts from the file, and a list read before another process
migrated is still a suffix of which only recorded versions precede the first; so a
version that is not recorded yet is the next one, and `EachMigrationOnce`. This part is
also what makes `FirstOf` well defined, so type correctness is proved with it.
`ScanInv`: a scan belongs to a process that is up, its rows are what YNAB said at their
times, and a transaction that is about to commit differs from the file in the rows of
its own scan only; so `VerdictSurvives`.

**BackupProofs.** For any number of chunks, of backups and kept. `BackupInv` relates
what a run believes to what Turso holds, through every lost answer: from BEGIN to COMMIT
a run has a baton; the open transaction, if it carries the run's id, has exactly the
chunks before the run's next (`TxnInv`); ids are a run's own (`OwnStamps`); and nothing of
a run is open before its BEGIN or after its end, except after a lost answer or a kill
(`RunInv`). So a COMMIT that takes effect commits a whole backup (`StoredAreWhole`).
`NewestAreKept` needs that `Prune` counts ids over rows that are all of whole
backups: the newest `Keep` of what is there are then newer than whatever it
removes, whichever runner removes it. `RestoreMissesOnlyTheOld` and `RunsCloseTheirs`
follow. `AtomicStore` is the refinement: `Commit` is the abstract store's `Store` when it
takes effect, `Prune` its `Prune`, `Link` and a file that appears or goes its `Write` and
`Remove`, every other step a stutter.

**LoginsProofs.** For any number of processes, handlers, sign-ins and places.
`SignInInv` says where a login is: one that may still get a page is parked at one process
or with the one handler that took it off, and so is one that may still get a code
(`OnceInv`); `EachUsedOnce` alone does not exclude a second copy in another map. With
it, a secret that was read or inserted is the stored one for good (`SecretInv`), a
process drains only after `buildMCP` and closes only after its handlers (`ShutdownInv`),
and the two maps together stay within the cap, which refuses nobody for less (`RoomInv`).

**SchedulerProofs.** For any jobs, intervals, day and longest runs. `ScheduleInv`: between
jobs nothing is being reported, and a cancelled outcome means the context has ended
(`LoopInv`); a due tick is of after its job's last run (`TickInv`); unless a backup runs,
its ticker fires at the next `BACKUP_AT`, or tonight's backup is still to start
(`NightInv`), which is what re-arming is for; a success was recorded at most a run after
its commit (`FreshInv`). `ShutdownIsQuiet`, `OncePerNight`, `HealthyIsFresh` and the
action property `TicksAreNotSavedUp` follow. These need no bound on a run: a
backup may even outlast the night.

That a job is not late for long does need one, and a count of how often the others run
while it waits. `Load` weighs that: a job's work, the rest of its run or a whole run that
is due, counts `k` a unit, and the run its next tick will bring is added little by little
in the last `k` times its length before the tick. So a unit of time adds at most one for
each other job, and the goroutine, which is never idle while somebody waits, takes off
`k` (`TotalRuns`): what is ahead of a waiting job falls by `k - Others` a unit. At the
start of its wait it is at most what a whole run of every other job weighs
(`AheadFits`), which needs that the load as a whole never exceeds one run of everyone
(`PaceInv`, by `PaceStep`); a boot, with its prune and sync at once, is within that, and a
tick that finds the channel full is lost work, not more work. Hence `BackupInv` and
`SyncInv`, with `wait` the units after which nothing can be ahead any more
(`BackupIsNotLate`, `SyncIsNotLate`). `EveryNightABackup` follows if the wait and the
backup itself end before the next `BACKUP_AT`; `HealthDoesNotFlap` if the wait and the
sync's own run stay within one interval, the other one of `StaleAfter` being the ticker's.
The hypothesis is `Room(w, k, wait)`, for some `k`: `k` runs of another job fit into
its interval, one run of `w` for every job into `w`'s, and `k - Others` times the wait
covers `k` runs of the others. `DefaultsHaveRoom` proves it for the code's defaults in
units of 20 seconds, with a backup of ten minutes and its status message, a prune of a
minute, a sync of two and an import of one: a sync is then less than 13 minutes late and a
backup at most 7. No timeout in the code bounds a sync or an import, so these two are assumed.
`AtTheDefaults` draws the conclusion.

**The status message** is an instance, `Message`, at the end of SchedulerProofs, since
`Status` is what starts its runs; any channels, window and number of disturbances.
`WindowInv`: the attempt in the row, and the updater's copy once loaded, is never older
than Slack's last post; so whoever is past the cap's check found that post a window old,
and no time passes before the end of the run. A post whose outcome is unknown keeps its
attempt, and one that was refused gives it back without having posted, which is what
keeps it inductive. `OnePostPerWindow` follows. `NeedInv`: a
loaded updater knows the stored message or made a later one; a cached channel
is the named one or gone for good; and whoever is about to post had nothing to edit,
which no later disturbance mends. `NoPostWithoutNeed` follows.

**AnswersProofs.** For any transactions, split lines, dates, kinds, page sizes and
commits. The lemmas before the invariant are about the pages' order: keys are totally
ordered and tell lines apart, so among finitely many there is a first and a last
(`First`, `Final`, by well-foundedness), and a page of n is either all that is left or
ends at a key that no line of the page is behind and every other one is (`PageIs`).
`AnswerInv` then has, for the client, that what it was given is not behind its cursor
and what of the steady lines it was not given is (`WalkInv`); for a page in flight, that it
has all the steady lines between its cursor and the next (`PageInv`); and, as long as
nothing was committed since the walk began, that what was given is *all* of the filter's lines
up to the cursor, which is why the counts add up. `CompareInv` says what a comparison in
flight counts of the steady lines, `CiteInv` hands it on to the walk that cites: of the
lines its filter matches, those counted are the ones on budget, since whoever has a category
with a row in the answer is neither an uncategorised transfer nor income (`CitedIsSpent`).
With `WalkInv`, whose pages miss no steady line, that is the citation. A commit needs
little: what it touches leaves `steady`, and every number an answer holds is then of before.
`WalksCoverSteadyLines`, `WalksCount`, `CitationsAgree` and `AnswersAreNotNewer` follow.

Only model-checked:

- `CatchesUp`, `EveryJobRunsAgain`, `SettlesOnOneMessage`: liveness, out of the prover's
  reach.

So every safety property the runs check is also proved, and what is left to TLC is
liveness.

## 6. The plan

Done, in this order, the most important behaviour first: Mirror with its abstract
specification and proofs, Governor with its proofs, Scheduler, StatusMessage, Grants
with its proofs, Backup with its abstract specification, Logins, Answers, and Database and
PlanScan with their proofs.
Then the proofs of Logins, Backup with its refinement, Scheduler, Answers and
StatusMessage. What a next step would be worth: the configuration's checks, which bound
the intervals that `Room` is about (`config/config.go` accepts any positive duration),
and a deadline for a sync, which the code does not have and the theorems of section 5
would need to do without an assumption.

Not modelled, and why: configuration and the one-shot commands (no state beyond what
they call; `revoke` is an action of Grants, `restore` of Backup), deployment, spikes
and documents (not part of the program), the wording of messages, logs and errors, the
MCP transport and the HTTP plumbing of OAuth (the SDK's and fosite's), ciphers, the
pragmas and file modes.
