------------------------------ MODULE Answers ------------------------------
(***************************************************************************)
(* The MCP tools over the mirror (mcp/tools_transactions.go, freshness.go, *)
(* store/transactions_read.go) while syncs commit: a client walks through  *)
(* the pages of query_transactions, or asks for compare_spending.  Every   *)
(* query of an answer is a snapshot of its own, and a commit may come      *)
(* between any two of them: the names, the summary, the page, or the two   *)
(* periods' totals, then the freshness every answer carries.  Of a         *)
(* comparison the client may then cite a number: list the lines behind it. *)
(*                                                                         *)
(* A line is its key, the place in the order of the pages, and its kind:   *)
(* all else a query reads of it and of its account and category.  A sync   *)
(* (module Mirror) changes one transaction with its split lines, or loads  *)
(* everything.                                                             *)
(***************************************************************************)
EXTENDS Integers, FiniteSets

CONSTANTS
    Txns, Subs, \* ids, in their order: numbers from 1
    Parent,     \* each split line's transaction
    Dates,      \* numbers, in their order
    Kinds,      \* what queries tell apart besides dates; of each kind:
    CategoryOf, \* its category, or "none",
    OnBudget,   \* whether its account is on budget,
    Transfers,  \* and whether it is a transfer
    Inflow,     \* the internal "Inflow:" categories
    Filters,    \* bound: the filters the client asks with,
    Cited,      \* and the categories whose numbers it cites
    Period,     \* compare_spending: first and last date of the period,
    Baseline,   \* and of the baseline
    MaxPage,    \* maxPageSize
    MaxTicks    \* bound: commits after which the mirror rests

ASSUME AnswersAssumption ==
    /\ Filters \subseteq [from : Dates, to : Dates, kinds : SUBSET Kinds]
    /\ "none" \notin Cited
    /\ Txns \subseteq Nat \ {0} /\ Subs \subseteq Nat \ {0} /\ Dates \subseteq Nat
    /\ IsFiniteSet(Txns) /\ IsFiniteSet(Subs)
    /\ Parent \in [Subs -> Txns]
    /\ Period \in Dates \X Dates /\ Baseline \in Dates \X Dates
    /\ MaxPage \in Nat \ {0} /\ MaxTicks \in Nat

VARIABLES
    txn,    \* transactions: none, or the live row's date and kind
    sub,    \* subtransactions: none, or the live row's kind
    tick,   \* sync_state: the number of the last commit, 0 for no row
    call,   \* the tool call being answered
    walk,   \* the client: its filter and cursor, and what it was given
    steady  \* history: lines no commit changed since the first data read

vars == <<txn, sub, tick, call, walk, steady>>
mirror == <<txn, sub, tick>>

NoRow == [live |-> FALSE]
TxnRows == {NoRow} \cup [live : {TRUE}, date : Dates, kind : Kinds]
SubRows == {NoRow} \cup [live : {TRUE}, kind : Kinds]

NoKey == [date |-> 0, t |-> 0, s |-> 0]

-----------------------------------------------------------------------------
(* Lines: what a query reads                                               *)

Parts(t) == {s \in Subs : Parent[s] = t /\ sub[s].live}

Whole(t) == [key |-> [date |-> txn[t].date, t |-> t, s |-> 0], kind |-> txn[t].kind]
Part(s)  == [key |-> [date |-> txn[Parent[s]].date, t |-> Parent[s], s |-> s],
             kind |-> sub[s].kind]

(* linesCTE: a transaction is one line, a split one line for each part.    *)
Lines ==
    {Whole(t) : t \in {t \in Txns : txn[t].live /\ Parts(t) = {}}}
        \cup {Part(s) : s \in {s \in Subs : sub[s].live /\ txn[Parent[s]].live}}

(* A LineFilter: both dates included, and all its other conditions.        *)
Matches(l, f) == f.from <= l.key.date /\ l.key.date <= f.to /\ l.kind \in f.kinds

Matching(f) == {l \in Lines : Matches(l, f)}

(* Newest date first, then transaction id, then subtransaction id.         *)
After(k, a) ==
    \/ k.date < a.date
    \/ k.date = a.date /\ k.t > a.t
    \/ k.date = a.date /\ k.t = a.t /\ k.s > a.s

Beyond_theTransaction(k, a) ==
    a = NoKey \/ k.date < a.date \/ (k.date = a.date /\ k.t > a.t)

(* What is left of a query when a page ended at key a.                     *)
Beyond(k, a) == a = NoKey \/ After(k, a)

(* ORDER BY ... LIMIT n.                                                   *)
FirstOf(lines, n) ==
    {l \in lines : Cardinality({m \in lines : After(l.key, m.key)}) < n}

LastKey(lines) ==
    (CHOOSE l \in lines : \A m \in lines \ {l} : After(l.key, m.key)).key

(* Not spending: off budget, a transfer without a category, or income.     *)
Spent(kind) ==
    /\ kind \in OnBudget
    /\ ~ (CategoryOf[kind] = "none" /\ kind \in Transfers)
    /\ CategoryOf[kind] \notin Inflow

InDates(l, range) == range[1] <= l.key.date /\ l.key.date <= range[2]

Spending_unsplit(range) ==
    {l \in {Whole(t) : t \in {t \in Txns : txn[t].live}} : InDates(l, range) /\ Spent(l.kind)}

(* CategoryTotals: the lines it adds up, by category.                      *)
Spending(range) == {l \in Lines : InDates(l, range) /\ Spent(l.kind)}

Of(lines, category) == {l \in lines : CategoryOf[l.kind] = category}

-----------------------------------------------------------------------------
(* A call                                                                  *)

Idle == [pc |-> "idle"]
NoFilter == [from |-> 0, to |-> 0, kinds |-> {}]
Start == [filter |-> NoFilter, cursor |-> NoKey, began |-> 0, ended |-> 0, done |-> FALSE,
          given |-> {}, again |-> {}, count |-> 0, cites |-> FALSE, counted |-> {}]

(* query_transactions with a filter of the client's choice, unless it is   *)
(* citing, the cursor of its last page, and a size, capped.                *)
Asked == IF walk.cites THEN {walk.filter} ELSE Filters

AskPage(f, size) ==
    /\ call = Idle
    /\ ~ walk.done
    /\ call' = [pc |-> "names", filter |-> f, size |-> IF size > MaxPage THEN MaxPage ELSE size]
    /\ UNCHANGED <<mirror, walk, steady>>

(* The cursor carries a hash of its filters.                               *)
CursorFits(f) == walk.cursor = NoKey \/ walk.filter = f

(* NameMatches: the account or category a filter names is not found before *)
(* the first sync; a filter may name none.                                 *)
Known(named) == named => tick > 0

CheckArgs ==
    /\ call.pc = "names"
    /\ \E named \in BOOLEAN :
        call' = IF Known(named) /\ CursorFits(call.filter)
                THEN [call EXCEPT !.pc = "summary"] ELSE Idle
    /\ UNCHANGED <<mirror, walk, steady>>

Counted_fromCursor(f) == Cardinality({l \in Matching(f) : Beyond(l.key, walk.cursor)})

(* QueryLines' summary: all of the filter's lines, whatever the page.      *)
Counted(f) == Cardinality(Matching(f))

Summarize ==
    /\ call.pc = "summary"
    /\ call' = [pc |-> "page", filter |-> call.filter, size |-> call.size,
                count |-> Counted(call.filter), countAt |-> tick]
    /\ UNCHANGED <<mirror, walk, steady>>

(* One line more than the page says whether there is a next one.           *)
NextCursor(lines, size) ==
    IF Cardinality(lines) > size THEN LastKey(FirstOf(lines, size)) ELSE NoKey

ReadPage ==
    /\ call.pc = "page"
    /\ LET lines == FirstOf({l \in Matching(call.filter) : Beyond(l.key, walk.cursor)},
                            call.size + 1)
       IN call' = [pc |-> "state", tool |-> "query", filter |-> call.filter,
                   count |-> call.count, countAt |-> call.countAt, dataAt |-> tick,
                   lines |-> FirstOf(lines, call.size),
                   next |-> NextCursor(lines, call.size)]
    /\ steady' = IF walk.cursor # NoKey THEN steady
                 ELSE IF walk.cites THEN steady \cap Matching(call.filter)
                 ELSE Matching(call.filter)
    /\ UNCHANGED <<mirror, walk>>

(* compare_spending, between two walks.                                    *)
AskComparison ==
    /\ call = Idle
    /\ walk = Start
    /\ call' = [pc |-> "period"]
    /\ UNCHANGED <<mirror, walk, steady>>

ReadPeriod ==
    /\ call.pc = "period"
    /\ call' = [pc |-> "baseline", period |-> Spending(Period)]
    /\ steady' = Lines
    /\ UNCHANGED <<mirror, walk>>

ReadBaseline ==
    /\ call.pc = "baseline"
    /\ call' = [pc |-> "state", tool |-> "compare", dataAt |-> tick,
                period |-> call.period, baseline |-> Spending(Baseline)]
    /\ UNCHANGED <<mirror, walk, steady>>

-----------------------------------------------------------------------------
(* Freshness, and the answer                                               *)

SyncedAt_besideTheSummary == IF call.tool = "query" THEN call.countAt ELSE tick

SyncedAt == tick

(* respond: the data first, then readFreshness, whose sync state and       *)
(* accounts are two queries.                                               *)
ReadSyncState ==
    /\ call.pc = "state"
    /\ call' = [pc |-> "accounts", data |-> call, synced |-> SyncedAt]
    /\ UNCHANGED <<mirror, walk, steady>>

ReadAccounts ==
    /\ call.pc = "accounts"
    /\ call' = [pc |-> "answered", data |-> call.data, synced |-> call.synced, accounts |-> tick]
    /\ UNCHANGED <<mirror, walk, steady>>

Continued(data) ==
    [filter |-> data.filter, cursor |-> data.next, done |-> data.next = NoKey,
     began |-> IF walk.cursor = NoKey THEN data.countAt ELSE walk.began,
     ended |-> data.dataAt,
     given |-> walk.given \cup data.lines,
     again |-> walk.again \cup (walk.given \cap data.lines),
     count |-> data.count, cites |-> walk.cites, counted |-> walk.counted]

(* "To cite the transactions behind a number, call query_transactions with *)
(* the same dates and the category_id."                                    *)
Citation(category, range) ==
    [from |-> range[1], to |-> range[2], kinds |-> {k \in Kinds : CategoryOf[k] = category}]

Citing(lines, category, range) ==
    [Start EXCEPT !.filter = Citation(category, range), !.cites = TRUE,
                  !.counted = Of(lines, category)]

(* The categories an answer has a row for, with both numbers, and of those *)
(* the ones the client cites: an uncategorized row has no id to cite.      *)
Shown(data) == {c \in Cited : Of(data.period \cup data.baseline, c) # {}}

Citations(data) ==
    {Citing(data.period, c, Period) : c \in Shown(data)}
        \cup {Citing(data.baseline, c, Baseline) : c \in Shown(data)}

(* The client gets the answer: a page's cursor, or numbers to cite.        *)
Receive ==
    /\ call.pc = "answered"
    /\ walk' \in IF call.data.tool = "query" THEN {Continued(call.data)}
                 ELSE {Start} \cup Citations(call.data)
    /\ call' = Idle
    /\ UNCHANGED <<mirror, steady>>

(* A read fails, or the request ends: the client may ask again.            *)
Fail ==
    /\ call # Idle
    /\ call' = Idle
    /\ UNCHANGED <<mirror, walk, steady>>

NewWalk ==
    /\ call = Idle
    /\ walk # Start
    /\ walk' = Start
    /\ steady' = {}
    /\ UNCHANGED <<mirror, call>>

-----------------------------------------------------------------------------
(* A sync commits                                                          *)

Commit(t) ==
    /\ tick \in 1 .. MaxTicks - 1
    /\ \E row \in TxnRows : txn' = [txn EXCEPT ![t] = row]
    /\ \E parts \in [{s \in Subs : Parent[s] = t} -> SubRows] :
        sub' = [s \in Subs |-> IF Parent[s] = t THEN parts[s] ELSE sub[s]]
    /\ tick' = tick + 1
    /\ steady' = steady \cap Lines'
    /\ UNCHANGED <<call, walk>>

InitialLoad ==
    /\ tick = 0
    /\ txn' \in [Txns -> TxnRows] /\ sub' \in [Subs -> SubRows]
    /\ tick' = 1
    /\ UNCHANGED <<call, walk, steady>>

-----------------------------------------------------------------------------
Init ==
    /\ txn = [t \in Txns |-> NoRow]
    /\ sub = [s \in Subs |-> NoRow]
    /\ tick = 0
    /\ call = Idle
    /\ walk = Start
    /\ steady = {}

Query == (\E f \in Asked, size \in 1 .. MaxPage + 1 : AskPage(f, size))
            \/ CheckArgs \/ Summarize \/ ReadPage

Compare == AskComparison \/ ReadPeriod \/ ReadBaseline

Next ==
    \/ Query \/ Compare
    \/ ReadSyncState \/ ReadAccounts \/ Receive \/ Fail
    \/ NewWalk
    \/ InitialLoad \/ \E t \in Txns : Commit(t)

Spec == Init /\ [][Next]_vars

-----------------------------------------------------------------------------
(* Properties *)

(* A walk whose pages were read with syncs in between still shows every    *)
(* line that no sync touched, once, however the lines around it come, go,  *)
(* split or move; and never a line of other filters than its own.          *)
PagesCoverSteadyLines ==
    /\ walk.again \cap steady = {}
    /\ walk.done => steady \subseteq walk.given
    /\ \A l \in walk.given : Matches(l, walk.filter)

(* "match_count ... across all pages": when nothing was committed during   *)
(* the walk, it is the number of lines its pages gave together.            *)
CountsAddUp ==
    walk.done /\ walk.began = walk.ended => walk.count = Cardinality(walk.given)

(* The pages a client lists to cite a number of compare_spending are of    *)
(* later snapshots, read by another query with a filter of its own.  Of    *)
(* the lines no sync touched since the comparison, they give all the       *)
(* number counted, and beyond that only such as are off budget.            *)
NumbersCanBeCited ==
    walk.cites /\ walk.done =>
        \A l \in steady : l \in walk.counted <=> l \in walk.given /\ l.kind \in OnBudget

(* An answer never says "last synced" of a sync that its data is newer     *)
(* than, and never that the plan was not synced beside data of it.  (The   *)
(* other way round it can: the sync that freshness names may have come     *)
(* between the data and it.)  Nor are its accounts older than that sync.   *)
FreshnessNeverOlderThanData ==
    /\ call.pc \in {"accounts", "answered"} => call.data.dataAt <= call.synced
    /\ call.pc = "answered" => call.synced <= call.accounts

-----------------------------------------------------------------------------
(* Why they hold, whatever the lines and the pages' sizes: an inductive    *)
(* invariant (AnswersProofs).                                              *)

AnyKey  == [date : Dates, t : Txns, s : Subs \cup {0}]
AnyLine == [key : AnyKey, kind : Kinds]
Cursors == AnyKey \cup {NoKey}
AnyFilter == [from : Dates, to : Dates, kinds : SUBSET Kinds]

(* The answers whose data has been read.                                   *)
Pages == [pc : {"state"}, tool : {"query"}, filter : AnyFilter, count : Nat, countAt : Nat,
          dataAt : Nat, lines : SUBSET AnyLine, next : Cursors]
Comparisons == [pc : {"state"}, tool : {"compare"}, dataAt : Nat,
                period : SUBSET AnyLine, baseline : SUBSET AnyLine]
Read == Pages \cup Comparisons

TypeOK ==
    /\ txn \in [Txns -> TxnRows] /\ sub \in [Subs -> SubRows] /\ tick \in Nat
    /\ \/ call = Idle
       \/ call \in [pc : {"names", "summary"}, filter : AnyFilter, size : 1 .. MaxPage]
       \/ call \in [pc : {"page"}, filter : AnyFilter, size : 1 .. MaxPage, count : Nat, countAt : Nat]
       \/ call \in [pc : {"period"}]
       \/ call \in [pc : {"baseline"}, period : SUBSET AnyLine]
       \/ call \in Read
       \/ call \in [pc : {"accounts"}, data : Read, synced : Nat]
       \/ call \in [pc : {"answered"}, data : Read, synced : Nat, accounts : Nat]
    /\ \/ walk = Start
       \/ walk \in [filter : AnyFilter, cursor : Cursors, began : Nat, ended : Nat, done : BOOLEAN,
                    given : SUBSET AnyLine, again : SUBSET AnyLine, count : Nat,
                    cites : BOOLEAN, counted : SUBSET AnyLine]
    /\ steady \subseteq Lines

Data == IF call.pc = "state" THEN call ELSE call.data
HasRead(tool) == call.pc \in {"state", "accounts", "answered"} /\ Data.tool = tool

(* A walk has given what its pages have passed; if nothing was committed   *)
(* since it began, all of that.                                            *)
WalkInv ==
    /\ walk.done => walk.cursor = NoKey /\ steady \subseteq walk.given
    /\ walk.cursor = NoKey /\ ~ walk.done => walk.given = {} /\ walk.began = 0
    /\ walk.again = {} /\ walk.began <= tick
    /\ \A l \in walk.given : Matches(l, walk.filter)
    /\ walk.cursor # NoKey =>
          /\ \A l \in walk.given : ~ After(l.key, walk.cursor)
          /\ \A l \in steady :
                Matches(l, walk.filter) /\ (After(l.key, walk.cursor) \/ l \in walk.given)
          /\ walk.began = tick =>
                walk.given = {l \in Matching(walk.filter) : ~ After(l.key, walk.cursor)}
    /\ CountsAddUp

AskInv ==
    /\ call.pc \in {"names", "summary", "page"} =>
          ~ walk.done /\ (walk.cites => walk.filter = call.filter)
    /\ call.pc \in {"summary", "page"} => CursorFits(call.filter)
    /\ call.pc = "page" =>
          /\ walk.began <= call.countAt /\ call.countAt <= tick
          /\ call.countAt = tick => call.count = Cardinality(Matching(call.filter))

Passed(key) == Data.next = NoKey \/ ~ After(key, Data.next)

Began == IF walk.cursor = NoKey THEN Data.countAt ELSE walk.began

(* A page that was read: of what no commit changed since, it has all       *)
(* between its cursor and the next.                                        *)
PageInv ==
    HasRead("query") =>
        /\ ~ walk.done /\ CursorFits(Data.filter) /\ (walk.cites => walk.filter = Data.filter)
        /\ Began <= Data.dataAt
        /\ \A l \in Data.lines :
              Matches(l, Data.filter) /\ Beyond(l.key, walk.cursor) /\ Passed(l.key)
        /\ Data.next # NoKey => Beyond(Data.next, walk.cursor)
        /\ \A l \in steady :
              /\ Matches(l, Data.filter)
              /\ Beyond(l.key, walk.cursor) /\ Passed(l.key) => l \in Data.lines
        /\ Began = Data.dataAt /\ Data.next = NoKey =>
              Data.count = Cardinality(walk.given \cup Data.lines)
        /\ Began = tick /\ Data.next # NoKey =>
              walk.given \cup Data.lines =
                {l \in Matching(Data.filter) : ~ After(l.key, Data.next)}

(* What a comparison has counted, and what a citing client owes to it.     *)
CompareInv ==
    /\ call.pc \in {"period", "baseline"} => walk = Start
    /\ call.pc = "baseline" =>
          /\ \A l \in call.period : Spent(l.kind)
          /\ \A l \in steady : l \in call.period <=> InDates(l, Period) /\ Spent(l.kind)
    /\ HasRead("compare") =>
          /\ walk = Start
          /\ \A l \in Data.period \cup Data.baseline : Spent(l.kind)
          /\ \A l \in steady : /\ l \in Data.period <=> InDates(l, Period) /\ Spent(l.kind)
                               /\ l \in Data.baseline <=> InDates(l, Baseline) /\ Spent(l.kind)

CiteInv ==
    walk.cites =>
        \A l \in steady : Matches(l, walk.filter) => (l \in walk.counted <=> l.kind \in OnBudget)

AnswerInv ==
    /\ tick = 0 => Lines = {}
    /\ WalkInv /\ AskInv /\ PageInv /\ CompareInv /\ CiteInv
    /\ call.pc = "state" => call.dataAt <= tick
    /\ call.pc \in {"accounts", "answered"} => call.synced <= tick
    /\ FreshnessNeverOlderThanData
=============================================================================
