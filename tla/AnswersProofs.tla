--------------------------- MODULE AnswersProofs ---------------------------
(***************************************************************************)
(* What a client may believe of the answers, for every set of lines, every *)
(* size of a page and every commit between two queries.                    *)
(***************************************************************************)
EXTENDS Answers, FiniteSetTheorems, WellFoundedInduction, TLAPS

USE AnswersAssumption

-----------------------------------------------------------------------------
(* The order of the pages *)

Keys == [date : Nat, t : Nat, s : Nat]

LEMMA Order ==
  /\ \A k \in Keys : ~ After(k, k)
  /\ \A k, a \in Keys : After(k, a) => ~ After(a, k)
  /\ \A k, a \in Keys : After(k, a) \/ After(a, k) \/ k = a
  /\ \A k, a, b \in Keys : After(k, a) /\ After(a, b) => After(k, b)
<1>1. ASSUME NEW k \in Keys, NEW a \in Keys, NEW b \in Keys
      PROVE  /\ ~ After(k, k)
             /\ After(k, a) => ~ After(a, k)
             /\ After(k, a) /\ After(a, b) => After(k, b)
  BY DEF Keys, After
<1>2. ASSUME NEW k \in Keys, NEW a \in Keys, ~ After(k, a), ~ After(a, k) PROVE k = a
  BY <1>2 DEF Keys, After
<1> QED BY <1>1, <1>2

(* Lines that are told apart by their keys. *)
Keyed(L) == /\ IsFiniteSet(L) /\ \A l \in L : l.key \in Keys
            /\ \A l, m \in L : l.key = m.key => l = m

Before(L, l) == {m \in L : After(l.key, m.key)}
Behind(L, l) == {m \in L : After(m.key, l.key)}

LEMMA KeyedSubset ==
  ASSUME NEW L, Keyed(L), NEW S \in SUBSET L PROVE Keyed(S)
  BY FS_Subset DEF Keyed

LEMMA Smallest ==
  ASSUME NEW S, IsFiniteSet(S), NEW T \in SUBSET (SUBSET S), T # {}
  PROVE  \E X \in T : \A Y \in T : ~ (Y \subseteq X /\ Y # X)
<1>1. \A X \in T : X \in FiniteSubsetsOf(S)
  BY FS_Subset DEF FiniteSubsetsOf
<1>2. IsWellFoundedOn(StrictSubsetOrdering(S), FiniteSubsetsOf(S))
  BY FS_StrictSubsetOrderingWellFounded
<1>3. \E X \in T : \A Y \in T : ~ (<<Y, X>> \in StrictSubsetOrdering(S))
  BY <1>1, <1>2, WFMin
<1>4. ASSUME NEW X \in T, NEW Y \in T, Y \subseteq X, Y # X
      PROVE  <<Y, X>> \in StrictSubsetOrdering(S)
  <2>1. <<Y, X>> \in (SUBSET S) \X (SUBSET S) /\ <<Y, X>>[1] = Y /\ <<Y, X>>[2] = X
    OBVIOUS
  <2> QED BY <1>4, <2>1 DEF StrictSubsetOrdering
<1>5. PICK X \in T : \A Y \in T : ~ (<<Y, X>> \in StrictSubsetOrdering(S))
  BY <1>3
<1>6. \A Y \in T : ~ (Y \subseteq X /\ Y # X)
  <2> SUFFICES ASSUME NEW Y \in T, Y \subseteq X, Y # X PROVE FALSE
    OBVIOUS
  <2>1. <<Y, X>> \in StrictSubsetOrdering(S)
    BY <1>4
  <2> QED BY <1>5, <2>1
<1> QED BY <1>6

LEMMA First ==
  ASSUME NEW S, Keyed(S), S # {}
  PROVE  \E l \in S : \A m \in S \ {l} : After(m.key, l.key)
<1> DEFINE T == {Before(S, l) : l \in S}
<1>1. T \in SUBSET (SUBSET S) /\ T # {} /\ IsFiniteSet(S)
  <2>1. \A l \in S : Before(S, l) \in SUBSET S
    BY DEF Before
  <2> QED BY <2>1 DEF Keyed
<1>2. PICK X \in T : \A Y \in T : ~ (Y \subseteq X /\ Y # X)
  <2> HIDE DEF T
  <2> QED BY <1>1, Smallest
<1>3. PICK l \in S : X = Before(S, l)
  OBVIOUS
<1>4. ASSUME NEW m \in S \ {l} PROVE After(m.key, l.key)
  <2>1. l.key \in Keys /\ m.key \in Keys /\ l.key # m.key
    BY <1>4 DEF Keyed
  <2>2. SUFFICES ASSUME After(l.key, m.key) PROVE FALSE
    BY <2>1, Order
  <2>3. Before(S, m) \subseteq Before(S, l)
    BY <2>1, <2>2, Order DEF Before, Keyed
  <2>4. m \in Before(S, l) /\ m \notin Before(S, m)
    BY <1>4, <2>1, <2>2, Order DEF Before
  <2>5. Before(S, m) \in T
    BY <1>4
  <2> QED BY <1>2, <1>3, <2>3, <2>4, <2>5
<1> QED BY <1>4

LEMMA Final ==
  ASSUME NEW S, Keyed(S), S # {}
  PROVE  \E l \in S : \A m \in S \ {l} : After(l.key, m.key)
<1> DEFINE T == {Behind(S, l) : l \in S}
<1>1. T \in SUBSET (SUBSET S) /\ T # {} /\ IsFiniteSet(S)
  <2>1. \A l \in S : Behind(S, l) \in SUBSET S
    BY DEF Behind
  <2> QED BY <2>1 DEF Keyed
<1>2. PICK X \in T : \A Y \in T : ~ (Y \subseteq X /\ Y # X)
  <2> HIDE DEF T
  <2> QED BY <1>1, Smallest
<1>3. PICK l \in S : X = Behind(S, l)
  OBVIOUS
<1>4. ASSUME NEW m \in S \ {l} PROVE After(l.key, m.key)
  <2>1. l.key \in Keys /\ m.key \in Keys /\ l.key # m.key
    BY <1>4 DEF Keyed
  <2>2. SUFFICES ASSUME After(m.key, l.key) PROVE FALSE
    BY <2>1, Order
  <2>3. Behind(S, m) \subseteq Behind(S, l)
    BY <2>1, <2>2, Order DEF Behind, Keyed
  <2>4. m \in Behind(S, l) /\ m \notin Behind(S, m)
    BY <1>4, <2>1, <2>2, Order DEF Behind
  <2>5. Behind(S, m) \in T
    BY <1>4
  <2> QED BY <1>2, <1>3, <2>3, <2>4, <2>5
<1> QED BY <1>4

LEMMA LastKeyIs ==
  ASSUME NEW S, Keyed(S), S # {}
  PROVE  \E l \in S : LastKey(S) = l.key /\ \A m \in S : ~ After(m.key, l.key)
<1> DEFINE l == CHOOSE l \in S : \A m \in S \ {l} : After(l.key, m.key)
<1>1. l \in S /\ \A m \in S \ {l} : After(l.key, m.key)
  BY Final
<1>2. LastKey(S) = l.key
  BY DEF LastKey
<1> HIDE DEF l
<1>3. \A m \in S : ~ After(m.key, l.key)
  BY <1>1, Order DEF Keyed
<1> QED BY <1>1, <1>2, <1>3

-----------------------------------------------------------------------------
(* The first n lines *)

LEMMA FirstOfIs ==
  ASSUME NEW L, NEW n
  PROVE  FirstOf(L, n) = {l \in L : Cardinality(Before(L, l)) < n}
  BY DEF FirstOf, Before

LEMMA BeforeIsFinite ==
  ASSUME NEW L, Keyed(L), NEW l
  PROVE  /\ IsFiniteSet(Before(L, l)) /\ Cardinality(Before(L, l)) \in Nat
         /\ Before(L, l) \in SUBSET L
<1>1. Before(L, l) \in SUBSET L
  BY DEF Before
<1> QED BY <1>1, FS_Subset, FS_CardinalityType DEF Keyed

(* Whoever is before one of the first n is one of them. *)
LEMMA FirstOfIsClosed ==
  ASSUME NEW L, Keyed(L), NEW n \in Nat, NEW l \in FirstOf(L, n), NEW m \in L, After(l.key, m.key)
  PROVE  m \in FirstOf(L, n)
<1>1. l \in L /\ Cardinality(Before(L, l)) < n
  BY FirstOfIs
<1>2. Before(L, m) \in SUBSET Before(L, l)
  BY <1>1, Order DEF Before, Keyed
<1>3. Cardinality(Before(L, m)) <= Cardinality(Before(L, l))
  BY <1>2, BeforeIsFinite, FS_Subset
<1> QED BY <1>1, <1>3, BeforeIsFinite, FirstOfIs

(* There are n of them, or they are all there are. *)
LEMMA FirstOfIsFull ==
  ASSUME NEW L, Keyed(L), NEW n \in Nat
  PROVE  /\ FirstOf(L, n) \in SUBSET L /\ IsFiniteSet(FirstOf(L, n))
         /\ Cardinality(FirstOf(L, n)) \in Nat
         /\ Cardinality(FirstOf(L, n)) < n => FirstOf(L, n) = L
<1>1. FirstOf(L, n) \in SUBSET L
  BY FirstOfIs
<1>2. IsFiniteSet(FirstOf(L, n)) /\ Cardinality(FirstOf(L, n)) \in Nat
  BY <1>1, FS_Subset, FS_CardinalityType DEF Keyed
<1>3. ASSUME FirstOf(L, n) # L PROVE ~ (Cardinality(FirstOf(L, n)) < n)
  <2> DEFINE S == L \ FirstOf(L, n)
  <2>1. S # {} /\ S \in SUBSET L
    BY <1>1, <1>3
  <2>2. PICK l \in S : \A m \in S \ {l} : After(m.key, l.key)
    BY <2>1, KeyedSubset, First
  <2>3. Before(L, l) \in SUBSET FirstOf(L, n)
    BY <2>2, Order DEF Before, Keyed
  <2>4. ~ (Cardinality(Before(L, l)) < n)
    BY FirstOfIs
  <2>5. Cardinality(Before(L, l)) <= Cardinality(FirstOf(L, n)) /\ Cardinality(Before(L, l)) \in Nat
    BY <1>2, <2>3, FS_Subset, BeforeIsFinite
  <2> QED BY <1>2, <2>4, <2>5
<1> QED BY <1>1, <1>2, <1>3

(* A page and the cursor after it. *)
LEMMA PageIs ==
  ASSUME NEW L, Keyed(L), NEW n \in Nat \ {0},
         NEW more, more = FirstOf(L, n + 1), NEW page, page = FirstOf(more, n)
  PROVE  /\ page \in SUBSET L /\ more \in SUBSET L
         /\ ~ (Cardinality(more) > n) => page = L
         /\ Cardinality(more) > n =>
              /\ \E l \in page : LastKey(page) = l.key
              /\ \A l \in page : ~ After(l.key, LastKey(page))
              /\ \A l \in L \ page : After(l.key, LastKey(page))
<1>1. n + 1 \in Nat /\ n \in Nat
  OBVIOUS
<1>2. /\ more \in SUBSET L /\ Cardinality(more) \in Nat
      /\ Cardinality(more) < n + 1 => more = L
  BY <1>1, FirstOfIsFull
<1>3. Keyed(more)
  BY <1>2, KeyedSubset
<1>4. page \in SUBSET more /\ (Cardinality(page) < n => page = more) /\ IsFiniteSet(page)
  BY <1>1, <1>3, FirstOfIsFull
<1>5. Keyed(page)
  BY <1>3, <1>4, KeyedSubset
<1>6. ASSUME ~ (Cardinality(more) > n) PROVE page = L
  <2>1. more = L
    BY <1>2, <1>6
  <2>2. \A l \in more : Cardinality(Before(more, l)) < n
    <3> TAKE l \in more
    <3>1. l \notin Before(more, l)
      BY <1>3, Order DEF Before, Keyed
    <3>2. /\ Before(more, l) \in SUBSET more /\ IsFiniteSet(more)
          /\ Cardinality(Before(more, l)) <= Cardinality(more)
          /\ Cardinality(more) = Cardinality(Before(more, l)) => more = Before(more, l)
      BY <1>3, BeforeIsFinite, FS_Subset DEF Keyed
    <3>3. Cardinality(Before(more, l)) \in Nat
      BY <1>3, BeforeIsFinite
    <3> QED BY <1>2, <1>6, <3>1, <3>2, <3>3
  <2> QED BY <2>1, <2>2, FirstOfIs
<1>7. ASSUME Cardinality(more) > n
      PROVE  /\ \E l \in page : LastKey(page) = l.key
             /\ \A l \in page : ~ After(l.key, LastKey(page))
             /\ \A l \in L \ page : After(l.key, LastKey(page))
  <2>1. page # {}
    <3>1. CASE Cardinality(page) < n
      BY <1>2, <1>4, <1>7, <3>1, FS_EmptySet
    <3>2. CASE ~ (Cardinality(page) < n)
      BY <3>2, FS_EmptySet
    <3> QED BY <3>1, <3>2
  <2>2. PICK z \in page : LastKey(page) = z.key /\ \A m \in page : ~ After(m.key, z.key)
    BY <1>5, <2>1, LastKeyIs
  <2>3. ASSUME NEW l \in L \ page PROVE After(l.key, z.key)
    <3>1. l # z /\ l \in L /\ z \in L /\ z \in more
      BY <1>2, <1>4, <2>3
    <3>2. SUFFICES ASSUME ~ After(l.key, z.key) PROVE FALSE
      OBVIOUS
    <3>3. After(z.key, l.key)
      BY <3>1, <3>2, Order DEF Keyed
    <3>4. l \in more
      BY <1>1, <3>1, <3>3, FirstOfIsClosed
    <3>5. l \in page
      BY <1>1, <1>3, <3>3, <3>4, FirstOfIsClosed
    <3> QED BY <2>3, <3>5
  <2> QED BY <2>2, <2>3
<1> QED BY <1>2, <1>4, <1>6, <1>7

-----------------------------------------------------------------------------
(* Lines and calls *)

LEMMA KeyTypes == AnyKey \subseteq Keys /\ NoKey \notin AnyKey /\ NoKey \in Keys /\ Cursors \subseteq Keys
<1>1. AnyKey \subseteq Keys
  <2>1. Dates \subseteq Nat /\ Txns \subseteq Nat /\ Subs \cup {0} \subseteq Nat
    OBVIOUS
  <2>2. ASSUME NEW k \in AnyKey PROVE k \in Keys
    BY <2>1 DEF AnyKey, Keys
  <2> QED BY <2>2
<1>2. NoKey \notin AnyKey
  BY DEF AnyKey, NoKey
<1>3. NoKey \in Keys
  BY DEF NoKey, Keys
<1> QED BY <1>1, <1>2, <1>3 DEF Cursors

LEMMA ImageIsFinite ==
  ASSUME NEW S, IsFiniteSet(S), NEW f, DOMAIN f = S
  PROVE  IsFiniteSet({f[x] : x \in S})
<1> DEFINE T == {f[x] : x \in S}
<1>1. [x \in S |-> f[x]] \in Surjection(S, T)
  BY DEF Surjection
<1>2. IsFiniteSet(T)
  <2> HIDE DEF T
  <2> QED BY <1>1, FS_Surjection
<1> QED BY <1>2

LEMMA TxnIs ==
  ASSUME TypeOK, NEW t \in Txns, txn[t].live
  PROVE  txn[t].date \in Dates /\ txn[t].kind \in Kinds
<1>1. txn[t] \in TxnRows
  BY DEF TypeOK
<1>2. txn[t] # NoRow
  BY DEF NoRow
<1> QED BY <1>1, <1>2 DEF TxnRows

LEMMA WholeIs ==
  ASSUME TypeOK, NEW t \in Txns, txn[t].live
  PROVE  /\ Whole(t) \in AnyLine
         /\ Whole(t).key.t = t /\ Whole(t).key.s = 0
<1>1. txn[t].date \in Dates /\ txn[t].kind \in Kinds
  BY TxnIs
<1>2. Whole(t).key = [date |-> txn[t].date, t |-> t, s |-> 0] /\ Whole(t).kind = txn[t].kind
  BY DEF Whole
<1>3. Whole(t).key \in AnyKey
  BY <1>1, <1>2 DEF AnyKey
<1>4. Whole(t) \in AnyLine
  BY <1>1, <1>3 DEF AnyLine, Whole
<1> QED BY <1>2, <1>4

LEMMA PartIs ==
  ASSUME TypeOK, NEW s \in Subs, sub[s].live, txn[Parent[s]].live
  PROVE  /\ Part(s) \in AnyLine
         /\ Part(s).key.t = Parent[s] /\ Part(s).key.s = s
<1>1. txn[Parent[s]].date \in Dates /\ sub[s].kind \in Kinds /\ Parent[s] \in Txns
  <2>1. Parent[s] \in Txns
    OBVIOUS
  <2>2. sub[s] \in SubRows
    BY DEF TypeOK
  <2>3. sub[s] # NoRow
    BY DEF NoRow
  <2>4. sub[s].kind \in Kinds
    BY <2>2, <2>3 DEF SubRows
  <2> QED BY <2>1, <2>4, TxnIs
<1>2. /\ Part(s).key = [date |-> txn[Parent[s]].date, t |-> Parent[s], s |-> s]
      /\ Part(s).kind = sub[s].kind
  BY DEF Part
<1>3. Part(s).key \in AnyKey
  BY <1>1, <1>2 DEF AnyKey
<1>4. Part(s) \in AnyLine
  BY <1>1, <1>3 DEF AnyLine, Part
<1> QED BY <1>2, <1>4

(* There are finitely many lines, each with a key of its own. *)
LEMMA LinesKeyed ==
  ASSUME TypeOK PROVE Keyed(Lines) /\ Lines \subseteq AnyLine
<1> DEFINE W == {t \in Txns : txn[t].live /\ Parts(t) = {}}
           P == {s \in Subs : sub[s].live /\ txn[Parent[s]].live}
           f == [t \in W |-> Whole(t)]
           g == [s \in P |-> Part(s)]
           A == {f[t] : t \in W}
           B == {g[s] : s \in P}
<1>1. Lines = A \cup B
  BY DEF Lines
<1>2. IsFiniteSet(A) /\ IsFiniteSet(B)
  <2>1. IsFiniteSet(W) /\ IsFiniteSet(P)
    BY FS_Subset
  <2>2. DOMAIN f = W /\ DOMAIN g = P
    OBVIOUS
  <2> HIDE DEF W, P, f, g
  <2> QED BY <2>1, <2>2, ImageIsFinite
<1>3. IsFiniteSet(Lines)
  BY <1>1, <1>2, FS_Union
<1>4. \A l \in A : l \in AnyLine /\ l.key.s = 0 /\ l.key.t \in Txns /\ l = Whole(l.key.t)
  <2>1. ASSUME NEW t \in W
        PROVE  Whole(t) \in AnyLine /\ Whole(t).key.s = 0 /\ Whole(t).key.t = t /\ t \in Txns
    BY <2>1, WholeIs
  <2>2. ASSUME NEW l \in A
        PROVE  l \in AnyLine /\ l.key.s = 0 /\ l.key.t \in Txns /\ l = Whole(l.key.t)
    <3>1. PICK t \in W : l = Whole(t)
      OBVIOUS
    <3> HIDE DEF W
    <3>2. l.key.t = t
      BY <2>1, <3>1
    <3> QED BY <2>1, <3>1, <3>2
  <2> QED BY <2>2
<1>5. \A l \in B : l \in AnyLine /\ l.key.s \in Subs /\ l = Part(l.key.s)
  <2>1. ASSUME NEW s \in P
        PROVE  Part(s) \in AnyLine /\ Part(s).key.s = s /\ s \in Subs
    BY <2>1, PartIs
  <2>2. ASSUME NEW l \in B PROVE l \in AnyLine /\ l.key.s \in Subs /\ l = Part(l.key.s)
    <3>1. PICK s \in P : l = Part(s)
      OBVIOUS
    <3> HIDE DEF P
    <3>2. l.key.s = s
      BY <2>1, <3>1
    <3> QED BY <2>1, <3>1, <3>2
  <2> QED BY <2>2
<1> HIDE DEF A, B
<1>6. Lines \subseteq AnyLine
  BY <1>1, <1>4, <1>5
<1>7. \A l \in Lines : l.key \in Keys
  BY <1>6, KeyTypes DEF AnyLine
<1>8. ASSUME NEW l \in Lines, NEW m \in Lines, l.key = m.key PROVE l = m
  <2>1. 0 \notin Subs
    OBVIOUS
  <2> QED BY <1>1, <1>4, <1>5, <1>8, <2>1
<1> QED BY <1>3, <1>6, <1>7, <1>8 DEF Keyed

LEMMA SameLines == ASSUME UNCHANGED <<txn, sub>> PROVE Lines' = Lines
  BY DEF Lines, Whole, Part, Parts

Asks      == [pc : {"names", "summary"}, filter : AnyFilter, size : 1 .. MaxPage]
Counts    == [pc : {"page"}, filter : AnyFilter, size : 1 .. MaxPage, count : Nat, countAt : Nat]
Baselines == [pc : {"baseline"}, period : SUBSET AnyLine]
Syncs     == [pc : {"accounts"}, data : Read, synced : Nat]
Answers   == [pc : {"answered"}, data : Read, synced : Nat, accounts : Nat]
Walks     == [filter : AnyFilter, cursor : Cursors, began : Nat, ended : Nat, done : BOOLEAN,
              given : SUBSET AnyLine, again : SUBSET AnyLine, count : Nat,
              cites : BOOLEAN, counted : SUBSET AnyLine]

CallOK == \/ call = Idle \/ call \in Asks \/ call \in Counts \/ call \in [pc : {"period"}]
          \/ call \in Baselines \/ call \in Read \/ call \in Syncs \/ call \in Answers

LEMMA TypeIs ==
  TypeOK <=> /\ txn \in [Txns -> TxnRows] /\ sub \in [Subs -> SubRows] /\ tick \in Nat
             /\ CallOK
             /\ walk = Start \/ walk \in Walks
             /\ steady \subseteq Lines
  BY DEF TypeOK, CallOK, Asks, Counts, Baselines, Syncs, Answers, Walks

LEMMA PcIs ==
  /\ Idle.pc = "idle"
  /\ \A c \in Asks : c.pc \in {"names", "summary"}
  /\ \A c \in Counts : c.pc = "page"
  /\ \A c \in [pc : {"period"}] : c.pc = "period"
  /\ \A c \in Baselines : c.pc = "baseline"
  /\ \A c \in Read : c.pc = "state"
  /\ \A c \in Syncs : c.pc = "accounts"
  /\ \A c \in Answers : c.pc = "answered"
  BY DEF Idle, Asks, Counts, Baselines, Read, Pages, Comparisons, Syncs, Answers

LEMMA CallIs ==
  ASSUME TypeOK
  PROVE  /\ call = Idle <=> call.pc = "idle"
         /\ call.pc \in {"names", "summary"} => call \in Asks
         /\ call.pc = "page" => call \in Counts
         /\ call.pc = "baseline" => call \in Baselines
         /\ call.pc = "state" => call \in Read
         /\ call.pc = "accounts" => call \in Syncs
         /\ call.pc = "answered" => call \in Answers
<1>1. CallOK
  BY TypeIs
<1> QED BY <1>1, PcIs DEF CallOK

LEMMA ReadIs ==
  /\ \A d \in Read : /\ d.tool \in {"query", "compare"} /\ d.dataAt \in Nat
                     /\ d.tool = "query" => d \in Pages
                     /\ d.tool = "compare" => d \in Comparisons
  BY DEF Read, Pages, Comparisons

LEMMA DataIs ==
  ASSUME TypeOK
  PROVE  /\ call.pc \in {"state", "accounts", "answered"} => Data \in Read
         /\ HasRead("query") => Data \in Pages
         /\ HasRead("compare") => Data \in Comparisons
<1>1. call.pc \in {"state", "accounts", "answered"} => Data \in Read
  BY CallIs DEF Data, Syncs, Answers
<1> QED BY <1>1, ReadIs DEF HasRead

(* The client's walk. *)
LEMMA WalkIs ==
  ASSUME TypeOK
  PROVE  /\ walk.cursor \in Cursors /\ walk.began \in Nat
         /\ walk.given \in SUBSET AnyLine /\ walk.done \in BOOLEAN
         /\ walk = Start => /\ walk.cursor = NoKey /\ walk.began = 0 /\ walk.given = {}
                            /\ walk.again = {} /\ ~ walk.done /\ ~ walk.cites
         /\ walk.cites \in BOOLEAN /\ walk.counted \in SUBSET AnyLine
<1>1. CASE walk = Start
  BY <1>1 DEF Start, Cursors
<1>2. CASE walk \in Walks
  BY <1>2 DEF Walks, Start
<1> QED BY <1>1, <1>2, TypeIs

LEMMA KeyIs == \A l \in AnyLine : l.key \in Keys /\ l.key # NoKey /\ l.key \in AnyKey
  BY KeyTypes DEF AnyLine

-----------------------------------------------------------------------------
(* What a step leaves as it was *)

LEMMA SameWalk ==
  ASSUME WalkInv, UNCHANGED <<txn, sub, tick, walk, steady>>
  PROVE  WalkInv'
<1>1. Lines' = Lines
  BY SameLines
<1> QED BY <1>1 DEF WalkInv, Matching, Matches, CountsAddUp

LEMMA SameCitation ==
  ASSUME CiteInv, UNCHANGED walk, steady' \subseteq steady
  PROVE  CiteInv'
  BY DEF CiteInv, Matches

LEMMA SameData ==
  ASSUME PageInv, CompareInv, UNCHANGED <<txn, sub, tick, walk, steady>>,
         call.pc \in {"state", "accounts"}, call'.pc \in {"accounts", "answered"}, Data' = Data
  PROVE  PageInv' /\ CompareInv'
<1>1. Lines' = Lines
  BY SameLines
<1>2. (HasRead("query"))' = HasRead("query") /\ (HasRead("compare"))' = HasRead("compare")
  BY DEF HasRead
<1>3. PageInv'
  BY <1>1, <1>2 DEF PageInv, CursorFits, Began, Passed, Matching, Matches, Beyond
<1>4. CompareInv'
  BY <1>2 DEF CompareInv, InDates
<1> QED BY <1>3, <1>4

(* A step that asks, or gives up. *)
LEMMA Asking ==
  ASSUME TypeOK, AnswerInv, UNCHANGED <<txn, sub, tick, walk, steady>>,
         CallOK', call'.pc \notin {"baseline", "state", "accounts", "answered"},
         AskInv', call'.pc = "period" => walk = Start
  PROVE  TypeOK' /\ AnswerInv'
<1>1. Lines' = Lines
  BY SameLines
<1>2. TypeOK'
  BY <1>1, TypeIs DEF TypeOK, CallOK, Asks, Counts, Baselines, Syncs, Answers, Walks
<1>3. WalkInv'
  BY SameWalk DEF AnswerInv
<1>4. PageInv' /\ CompareInv' /\ FreshnessNeverOlderThanData'
  BY DEF PageInv, CompareInv, HasRead, FreshnessNeverOlderThanData
<1>5. CiteInv'
  BY SameCitation DEF AnswerInv
<1> QED BY <1>1, <1>2, <1>3, <1>4, <1>5 DEF AnswerInv

LEMMA AskPageKeeps ==
  ASSUME TypeOK, AnswerInv, NEW f \in Asked, NEW size \in 1 .. MaxPage + 1, AskPage(f, size)
  PROVE  TypeOK' /\ AnswerInv'
<1> DEFINE n == IF size > MaxPage THEN MaxPage ELSE size
<1>1. n \in 1 .. MaxPage
  OBVIOUS
<1>2. call' = [pc |-> "names", filter |-> f, size |-> n] /\ ~ walk.done
      /\ UNCHANGED <<txn, sub, tick, walk, steady>>
  BY DEF AskPage, mirror
<1> HIDE DEF n
<1>3. f \in AnyFilter /\ (walk.cites => walk.filter = f)
  <2>1. CASE walk.cites
    <3>1. walk # Start
      BY <2>1, WalkIs
    <3>2. walk.filter \in AnyFilter
      BY <3>1, TypeIs DEF Walks
    <3> QED BY <2>1, <3>2 DEF Asked
  <2>2. CASE ~ walk.cites
    BY <2>2 DEF Asked, AnyFilter
  <2> QED BY <2>1, <2>2
<1>4. call' \in Asks /\ call'.pc = "names" /\ call'.filter = f
  BY <1>1, <1>2, <1>3 DEF Asks
<1>5. CallOK'
  BY <1>4 DEF CallOK
<1>6. AskInv'
  BY <1>2, <1>3, <1>4 DEF AskInv
<1> QED BY <1>2, <1>4, <1>5, <1>6, Asking

LEMMA IdleKeeps ==
  ASSUME TypeOK, AnswerInv, UNCHANGED <<txn, sub, tick, walk, steady>>, call' = Idle
  PROVE  TypeOK' /\ AnswerInv'
<1>1. CallOK' /\ call'.pc = "idle"
  BY PcIs DEF CallOK
<1>2. AskInv'
  BY <1>1 DEF AskInv
<1> QED BY <1>1, <1>2, Asking

LEMMA CheckArgsKeeps ==
  ASSUME TypeOK, AnswerInv, CheckArgs PROVE TypeOK' /\ AnswerInv'
<1>1. UNCHANGED <<txn, sub, tick, walk, steady>>
  BY DEF CheckArgs, mirror
<1>2. CASE call' = Idle
  BY <1>1, <1>2, IdleKeeps
<1>3. CASE call' = [call EXCEPT !.pc = "summary"] /\ CursorFits(call.filter)
  <2>1. call \in Asks /\ call.pc = "names"
    BY CallIs DEF CheckArgs
  <2>2. call' \in Asks /\ call'.pc = "summary" /\ call'.filter = call.filter
    <3>1. PICK c \in Asks : c = call
      BY <2>1
    <3>2. [c EXCEPT !.pc = "summary"] \in Asks
          /\ [c EXCEPT !.pc = "summary"].pc = "summary"
          /\ [c EXCEPT !.pc = "summary"].filter = c.filter
      BY DEF Asks
    <3> QED BY <1>3, <3>1, <3>2
  <2>3. AskInv'
    BY <1>1, <1>3, <2>1, <2>2 DEF AskInv, CursorFits, AnswerInv
  <2> QED BY <1>1, <2>2, <2>3, Asking DEF CallOK
<1> QED BY <1>2, <1>3 DEF CheckArgs

LEMMA SummarizeKeeps ==
  ASSUME TypeOK, AnswerInv, Summarize PROVE TypeOK' /\ AnswerInv'
<1>1. /\ UNCHANGED <<txn, sub, tick, walk, steady>> /\ call.pc = "summary"
      /\ call' = [pc |-> "page", filter |-> call.filter, size |-> call.size,
                  count |-> Counted(call.filter), countAt |-> tick]
  BY DEF Summarize, mirror
<1>2. call \in Asks
  BY <1>1, CallIs
<1>3. Matching(call.filter) \in SUBSET Lines
  BY DEF Matching
<1>4. Counted(call.filter) \in Nat
  <2>1. IsFiniteSet(Matching(call.filter))
    BY <1>3, LinesKeyed, FS_Subset DEF Keyed
  <2> QED BY <2>1, FS_CardinalityType DEF Counted
<1>5. call' \in Counts
  BY <1>1, <1>2, <1>4 DEF Asks, Counts, TypeOK
<1>6. /\ call'.pc = "page" /\ call'.filter = call.filter /\ call'.countAt = tick
      /\ call'.count = Cardinality(Matching(call.filter))
  BY <1>1 DEF Counted
<1>7. (Matching(call.filter))' = Matching(call.filter)
  BY <1>1, <1>6, SameLines DEF Matching, Matches
<1>8. walk.began <= tick /\ tick \in Nat
  BY DEF AnswerInv, WalkInv, TypeOK
<1>9. AskInv'
  BY <1>1, <1>6, <1>7, <1>8 DEF AskInv, CursorFits, AnswerInv
<1> QED BY <1>1, <1>5, <1>6, <1>9, Asking DEF CallOK

LEMMA AskComparisonKeeps ==
  ASSUME TypeOK, AnswerInv, AskComparison PROVE TypeOK' /\ AnswerInv'
<1>1. UNCHANGED <<txn, sub, tick, walk, steady>> /\ call' = [pc |-> "period"] /\ walk = Start
  BY DEF AskComparison, mirror
<1>2. CallOK' /\ call'.pc = "period"
  BY <1>1 DEF CallOK
<1>3. AskInv'
  BY <1>2 DEF AskInv
<1> QED BY <1>1, <1>2, <1>3, Asking

LEMMA FailKeeps ==
  ASSUME TypeOK, AnswerInv, Fail PROVE TypeOK' /\ AnswerInv'
  BY IdleKeeps DEF Fail, mirror

(* A walk that has not begun. *)
LEMMA UnbegunWalk ==
  ASSUME walk'.cursor = NoKey, walk'.began = 0, walk'.given = {}, walk'.again = {}, ~ walk'.done,
         tick' \in Nat
  PROVE  WalkInv'
  BY DEF WalkInv, CountsAddUp

LEMMA StartWalk ==
  ASSUME walk' = Start, tick' \in Nat
  PROVE  WalkInv' /\ CiteInv'
<1>1. /\ walk'.cursor = NoKey /\ walk'.began = 0 /\ walk'.given = {}
      /\ walk'.again = {} /\ ~ walk'.done /\ ~ walk'.cites
  BY DEF Start
<1> QED BY <1>1, UnbegunWalk DEF CiteInv

LEMMA SpendingIs ==
  ASSUME TypeOK, NEW range
  PROVE  /\ Spending(range) \in SUBSET AnyLine
         /\ \A l \in Spending(range) : Spent(l.kind)
         /\ \A l \in Lines : l \in Spending(range) <=> InDates(l, range) /\ Spent(l.kind)
  BY LinesKeyed DEF Spending

LEMMA ReadPeriodKeeps ==
  ASSUME TypeOK, AnswerInv, ReadPeriod PROVE TypeOK' /\ AnswerInv'
<1>1. /\ UNCHANGED <<txn, sub, tick, walk>> /\ call.pc = "period" /\ steady' = Lines
      /\ call' = [pc |-> "baseline", period |-> Spending(Period)]
  BY DEF ReadPeriod, mirror
<1>2. Lines' = Lines /\ walk = Start /\ tick \in Nat
  BY <1>1, SameLines DEF AnswerInv, CompareInv, TypeOK
<1>3. call' \in Baselines /\ call'.pc = "baseline" /\ call'.period = Spending(Period)
  BY <1>1, SpendingIs DEF Baselines
<1>4. TypeOK'
  BY <1>1, <1>2, <1>3, TypeIs DEF TypeOK, Baselines
<1>5. WalkInv' /\ CiteInv'
  BY <1>1, <1>2, StartWalk
<1>6. CompareInv'
  <2>1. /\ \A l \in Spending(Period) : Spent(l.kind)
        /\ \A l \in Lines : l \in Spending(Period) <=> InDates(l, Period) /\ Spent(l.kind)
    BY SpendingIs
  <2> QED BY <1>1, <1>2, <1>3, <2>1 DEF CompareInv, HasRead, InDates
<1>7. AskInv' /\ PageInv' /\ FreshnessNeverOlderThanData'
  BY <1>3 DEF AskInv, PageInv, HasRead, FreshnessNeverOlderThanData
<1> QED BY <1>1, <1>2, <1>3, <1>4, <1>5, <1>6, <1>7 DEF AnswerInv

LEMMA ReadBaselineKeeps ==
  ASSUME TypeOK, AnswerInv, ReadBaseline PROVE TypeOK' /\ AnswerInv'
<1>1. /\ UNCHANGED <<txn, sub, tick, walk, steady>> /\ call.pc = "baseline"
      /\ call' = [pc |-> "state", tool |-> "compare", dataAt |-> tick,
                  period |-> call.period, baseline |-> Spending(Baseline)]
  BY DEF ReadBaseline, mirror
<1>2. Lines' = Lines /\ walk = Start /\ tick \in Nat /\ steady \subseteq Lines
  BY <1>1, SameLines DEF AnswerInv, CompareInv, TypeOK
<1>3. call \in Baselines
  BY <1>1, CallIs
<1>4. /\ call' \in Comparisons /\ call'.pc = "state" /\ call'.tool = "compare"
      /\ call'.dataAt = tick /\ call'.period = call.period
      /\ call'.baseline = Spending(Baseline)
  BY <1>1, <1>2, <1>3, SpendingIs DEF Baselines, Comparisons
<1>5. TypeOK'
  BY <1>1, <1>2, <1>4 DEF TypeOK, Read
<1>6. WalkInv' /\ CiteInv'
  BY <1>1, <1>2, StartWalk
<1>7. Data' = call'
  BY <1>4 DEF Data
<1>8. CompareInv'
  <2>1. /\ \A l \in call.period : Spent(l.kind)
        /\ \A l \in steady : l \in call.period <=> InDates(l, Period) /\ Spent(l.kind)
    BY <1>1 DEF AnswerInv, CompareInv
  <2>2. /\ \A l \in Spending(Baseline) : Spent(l.kind)
        /\ \A l \in steady : l \in Spending(Baseline) <=> InDates(l, Baseline) /\ Spent(l.kind)
    BY <1>2, SpendingIs
  <2> QED BY <1>1, <1>2, <1>4, <1>7, <2>1, <2>2 DEF CompareInv, HasRead, InDates
<1>9. AskInv' /\ PageInv' /\ FreshnessNeverOlderThanData'
  BY <1>4, <1>7 DEF AskInv, PageInv, HasRead, FreshnessNeverOlderThanData
<1> QED BY <1>1, <1>2, <1>4, <1>5, <1>6, <1>8, <1>9 DEF AnswerInv

LEMMA ReadSyncStateKeeps ==
  ASSUME TypeOK, AnswerInv, ReadSyncState PROVE TypeOK' /\ AnswerInv'
<1>1. /\ UNCHANGED <<txn, sub, tick, walk, steady>> /\ call.pc = "state"
      /\ call' = [pc |-> "accounts", data |-> call, synced |-> tick]
  BY DEF ReadSyncState, mirror, SyncedAt
<1>2. call \in Read /\ tick \in Nat /\ Lines' = Lines
  BY <1>1, CallIs, SameLines DEF TypeOK
<1>3. call' \in Syncs /\ call'.pc = "accounts" /\ call'.data = call /\ call'.synced = tick
  BY <1>1, <1>2 DEF Syncs
<1>4. TypeOK'
  BY <1>1, <1>2, <1>3 DEF TypeOK, Syncs
<1>5. Data' = Data
  BY <1>1, <1>3 DEF Data
<1>6. WalkInv' /\ PageInv' /\ CompareInv' /\ CiteInv'
  BY <1>1, <1>3, <1>5, SameWalk, SameData, SameCitation DEF AnswerInv
<1>7. AskInv'
  BY <1>3 DEF AskInv
<1>8. FreshnessNeverOlderThanData'
  BY <1>1, <1>3 DEF AnswerInv, FreshnessNeverOlderThanData
<1> QED BY <1>1, <1>2, <1>3, <1>4, <1>6, <1>7, <1>8 DEF AnswerInv

LEMMA ReadAccountsKeeps ==
  ASSUME TypeOK, AnswerInv, ReadAccounts PROVE TypeOK' /\ AnswerInv'
<1>1. /\ UNCHANGED <<txn, sub, tick, walk, steady>> /\ call.pc = "accounts"
      /\ call' = [pc |-> "answered", data |-> call.data, synced |-> call.synced, accounts |-> tick]
  BY DEF ReadAccounts, mirror
<1>2. call \in Syncs /\ tick \in Nat /\ Lines' = Lines
  BY <1>1, CallIs, SameLines DEF TypeOK
<1>3. /\ call' \in Answers /\ call'.pc = "answered" /\ call'.data = call.data
      /\ call'.synced = call.synced /\ call'.accounts = tick
  BY <1>1, <1>2 DEF Syncs, Answers
<1>4. TypeOK'
  BY <1>1, <1>2, <1>3 DEF TypeOK, Answers
<1>5. Data' = Data
  BY <1>1, <1>3 DEF Data
<1>6. WalkInv' /\ PageInv' /\ CompareInv' /\ CiteInv'
  BY <1>1, <1>3, <1>5, SameWalk, SameData, SameCitation DEF AnswerInv
<1>7. AskInv'
  BY <1>3 DEF AskInv
<1>8. FreshnessNeverOlderThanData'
  BY <1>1, <1>3 DEF AnswerInv, FreshnessNeverOlderThanData
<1> QED BY <1>1, <1>2, <1>3, <1>4, <1>6, <1>7, <1>8 DEF AnswerInv

LEMMA NewWalkKeeps ==
  ASSUME TypeOK, AnswerInv, NewWalk PROVE TypeOK' /\ AnswerInv'
<1>1. UNCHANGED <<txn, sub, tick, call>> /\ call = Idle /\ walk' = Start /\ steady' = {}
  BY DEF NewWalk, mirror
<1>2. Lines' = Lines /\ tick \in Nat /\ call.pc = "idle"
  BY <1>1, SameLines, PcIs DEF TypeOK
<1>3. TypeOK'
  BY <1>1, <1>2 DEF TypeOK
<1>4. WalkInv' /\ CiteInv'
  BY <1>1, <1>2, StartWalk
<1>5. AskInv' /\ PageInv' /\ CompareInv' /\ FreshnessNeverOlderThanData'
  BY <1>1, <1>2 DEF AskInv, PageInv, CompareInv, HasRead, FreshnessNeverOlderThanData
<1> QED BY <1>1, <1>2, <1>3, <1>4, <1>5 DEF AnswerInv

-----------------------------------------------------------------------------
(* Commits: what they touched is out of the steady lines, and the answers' *)
(* own numbers are of before.                                              *)

LEMMA CommitType ==
  ASSUME TypeOK, NEW t \in Txns, Commit(t) PROVE TypeOK'
<1>1. /\ UNCHANGED <<call, walk>> /\ tick' = tick + 1 /\ steady' = steady \cap Lines'
      /\ \E row \in TxnRows : txn' = [txn EXCEPT ![t] = row]
      /\ \E parts \in [{s \in Subs : Parent[s] = t} -> SubRows] :
           sub' = [s \in Subs |-> IF Parent[s] = t THEN parts[s] ELSE sub[s]]
  BY DEF Commit
<1>2. txn' \in [Txns -> TxnRows]
  BY <1>1 DEF TypeOK
<1>3. sub' \in [Subs -> SubRows]
  <2>1. PICK parts \in [{s \in Subs : Parent[s] = t} -> SubRows] :
           sub' = [s \in Subs |-> IF Parent[s] = t THEN parts[s] ELSE sub[s]]
    BY <1>1
  <2>2. sub \in [Subs -> SubRows]
    BY DEF TypeOK
  <2>3. \A s \in Subs : (IF Parent[s] = t THEN parts[s] ELSE sub[s]) \in SubRows
    BY <2>1, <2>2
  <2> QED BY <2>1, <2>3
<1>4. steady' \subseteq Lines' /\ tick' \in Nat
  BY <1>1 DEF TypeOK
<1> QED BY <1>1, <1>2, <1>3, <1>4 DEF TypeOK

LEMMA InitialLoadType ==
  ASSUME TypeOK, AnswerInv, InitialLoad PROVE TypeOK' /\ steady = {}
<1>1. /\ UNCHANGED <<call, walk, steady>> /\ tick = 0 /\ tick' = 1
      /\ txn' \in [Txns -> TxnRows] /\ sub' \in [Subs -> SubRows]
  BY DEF InitialLoad
<1>2. steady = {}
  BY <1>1 DEF AnswerInv, TypeOK
<1> QED BY <1>1, <1>2 DEF TypeOK

LEMMA CommitKeeps ==
  ASSUME TypeOK, AnswerInv, UNCHANGED <<call, walk>>, tick' = tick + 1, steady' \subseteq steady
  PROVE  AnswerInv'
<1>1. tick \in Nat /\ tick' \in Nat /\ tick' # 0 /\ walk.began \in Nat
  BY WalkIs DEF TypeOK
<1>2. walk.began <= tick
  BY DEF AnswerInv, WalkInv
<1>3. WalkInv'
  <2>1. walk.began # tick' /\ walk.began <= tick'
    BY <1>1, <1>2
  <2> QED BY <2>1 DEF AnswerInv, WalkInv, CountsAddUp, Matches
<1>4. AskInv'
  <2>1. CASE call.pc # "page"
    BY <2>1 DEF AnswerInv, AskInv, CursorFits
  <2>2. CASE call.pc = "page"
    <3>1. call \in Counts
      BY <2>2, CallIs
    <3>2. call.countAt \in Nat
      BY <3>1 DEF Counts
    <3>3. call.countAt # tick' /\ call.countAt <= tick'
      BY <1>1, <2>2, <3>2 DEF AnswerInv, AskInv
    <3> QED BY <2>2, <3>3 DEF AnswerInv, AskInv, CursorFits
  <2> QED BY <2>1, <2>2
<1>5. Data' = Data /\ (HasRead("query"))' = HasRead("query")
      /\ (HasRead("compare"))' = HasRead("compare")
  BY DEF Data, HasRead
<1>6. call.pc \in {"state", "accounts", "answered"} => Data.dataAt \in Nat /\ Data.dataAt <= tick
  <2>1. CASE call.pc = "state"
    BY <2>1, DataIs, ReadIs DEF AnswerInv, Data
  <2>2. CASE call.pc \in {"accounts", "answered"}
    <3>1. call.synced \in Nat
      BY <2>2, CallIs DEF Syncs, Answers
    <3>2. Data = call.data /\ Data.dataAt \in Nat
      BY <2>2, DataIs, ReadIs DEF Data
    <3>3. call.data.dataAt <= call.synced /\ call.synced <= tick
      BY <2>2 DEF AnswerInv, FreshnessNeverOlderThanData
    <3> QED BY <1>1, <3>1, <3>2, <3>3
  <2> QED BY <2>1, <2>2
<1>7. PageInv'
  <2> SUFFICES ASSUME HasRead("query") PROVE PageInv'
    BY <1>5 DEF PageInv
  <2>1. Data \in Pages /\ Data.countAt \in Nat
    BY DataIs DEF Pages
  <2>2. Began <= Data.dataAt /\ Began \in Nat /\ Began' = Began
    BY <1>1, <1>5, <2>1 DEF AnswerInv, PageInv, Began
  <2>3. Began' # tick'
    BY <1>1, <1>6, <2>2 DEF HasRead
  <2> QED BY <1>5, <2>2, <2>3 DEF AnswerInv, PageInv, CursorFits, Beyond, Passed, Matches
<1>8. CompareInv'
  BY <1>5 DEF AnswerInv, CompareInv, InDates
<1>9. /\ call'.pc = "state" => call'.dataAt <= tick'
      /\ call'.pc \in {"accounts", "answered"} => call'.synced <= tick'
  <2>1. call.pc = "state" => call.dataAt <= tick'
    BY <1>1, <1>6 DEF Data
  <2>2. call.pc \in {"accounts", "answered"} => call.synced \in Nat
    BY CallIs DEF Syncs, Answers
  <2>3. call.pc \in {"accounts", "answered"} => call.synced <= tick'
    BY <1>1, <2>2 DEF AnswerInv
  <2> QED BY <2>1, <2>3
<1>10. FreshnessNeverOlderThanData'
  BY DEF AnswerInv, FreshnessNeverOlderThanData
<1>11. CiteInv'
  BY SameCitation DEF AnswerInv
<1> QED BY <1>1, <1>3, <1>4, <1>7, <1>8, <1>9, <1>10, <1>11 DEF AnswerInv

-----------------------------------------------------------------------------
(* A page is read: a snapshot, in which the lines passed so far, this page *)
(* and what is behind its cursor are all the filter's lines.               *)

LEMMA ReadPageKeeps ==
  ASSUME TypeOK, AnswerInv, ReadPage PROVE TypeOK' /\ AnswerInv'
<1> DEFINE f == call.filter
           cursor == walk.cursor
           M == Matching(f)
           L == {l \in M : Beyond(l.key, cursor)}
           more == FirstOf(L, call.size + 1)
           page == FirstOf(more, call.size)
           next == NextCursor(more, call.size)
<1>1. /\ UNCHANGED <<txn, sub, tick, walk>> /\ call.pc = "page"
      /\ call' = [pc |-> "state", tool |-> "query", filter |-> f,
                  count |-> call.count, countAt |-> call.countAt, dataAt |-> tick,
                  lines |-> page, next |-> next]
      /\ steady' = IF cursor # NoKey THEN steady ELSE IF walk.cites THEN steady \cap M ELSE M
  BY DEF ReadPage, mirror
<1>2. /\ call \in Counts /\ call.filter \in AnyFilter /\ call.size \in Nat \ {0}
      /\ call.count \in Nat /\ call.countAt \in Nat /\ tick \in Nat
  <2>1. call \in Counts
    BY <1>1, CallIs
  <2>2. call.size \in 1 .. MaxPage
    BY <2>1 DEF Counts
  <2> QED BY <2>1, <2>2 DEF Counts, TypeOK
<1>3. Lines' = Lines /\ Lines \subseteq AnyLine /\ Keyed(Lines)
  BY <1>1, SameLines, LinesKeyed
<1>4. M \in SUBSET Lines /\ (\A l \in M : Matches(l, f)) /\ L \in SUBSET M
  BY DEF Matching
<1>5. Keyed(L)
  BY <1>3, <1>4, KeyedSubset
<1>6. \A l \in L : Beyond(l.key, cursor)
  OBVIOUS
<1>7. \A l \in M : l \in L \/ ~ Beyond(l.key, cursor)
  OBVIOUS
<1>8. more = FirstOf(L, call.size + 1) /\ page = FirstOf(more, call.size)
  OBVIOUS
<1>9. next = IF Cardinality(more) > call.size THEN LastKey(page) ELSE NoKey
  BY DEF NextCursor
<1>10. M = {l \in Lines : Matches(l, call.filter)} /\ M = Matching(call.filter)
  BY DEF Matching
<1> HIDE DEF f, cursor, M, L, more, page, next
<1>11. /\ page \in SUBSET L
       /\ ~ (Cardinality(more) > call.size) => page = L
       /\ Cardinality(more) > call.size =>
            /\ \E l \in page : LastKey(page) = l.key
            /\ \A l \in page : ~ After(l.key, LastKey(page))
            /\ \A l \in L \ page : After(l.key, LastKey(page))
  <2>1. more \in SUBSET L /\ call.size + 1 \in Nat
    BY <1>2, <1>5, <1>8, FirstOfIsFull
  <2> QED BY <1>2, <1>5, <1>8, PageIs
<1>12. next = NoKey => page = L
  <2>1. SUFFICES ASSUME Cardinality(more) > call.size PROVE next # NoKey
    BY <1>11
  <2>2. PICK l \in page : next = l.key
    BY <1>9, <1>11, <2>1
  <2>3. l \in AnyLine
    BY <1>3, <1>4, <1>11, <2>2
  <2> QED BY <2>2, <2>3, KeyIs
<1>13. next # NoKey => /\ \E l \in page : next = l.key
                       /\ \A l \in page : ~ After(l.key, next)
                       /\ \A l \in L \ page : After(l.key, next)
  BY <1>9, <1>11
<1>14. next \in Cursors
  <2>1. CASE next = NoKey
    BY <2>1 DEF Cursors
  <2>2. CASE next # NoKey
    <3>1. PICK l \in page : next = l.key
      BY <1>13, <2>2
    <3>2. l \in AnyLine
      BY <1>3, <1>4, <1>11, <3>1
    <3> QED BY <3>1, <3>2, KeyIs DEF Cursors
  <2> QED BY <2>1, <2>2
<1>15. page \in SUBSET AnyLine
  BY <1>3, <1>4, <1>11
<1>16. call' \in Pages
  <2>1. f \in AnyFilter
    BY <1>2 DEF f
  <2> QED BY <1>1, <1>2, <1>14, <1>15, <2>1 DEF Pages
<1>17. /\ call'.pc = "state" /\ call'.tool = "query" /\ call'.filter = f
       /\ call'.count = call.count /\ call'.countAt = call.countAt /\ call'.dataAt = tick
       /\ call'.lines = page /\ call'.next = next
  BY <1>1
<1>18. steady' \subseteq Lines'
  BY <1>1, <1>3, <1>4 DEF TypeOK
<1>19. TypeOK'
  BY <1>1, <1>16, <1>18 DEF TypeOK, Read
<1>20. Data' = call' /\ (HasRead("query"))' /\ ~ (HasRead("compare"))'
  BY <1>17 DEF Data, HasRead
<1>21. cursor = walk.cursor /\ f = call.filter /\ cursor \in Keys
  BY WalkIs, KeyTypes DEF cursor, f
(* What is known of the walk. *)
<1>22. /\ ~ walk.done /\ (cursor = NoKey \/ walk.filter = f)
       /\ walk.cites => walk.filter = f
       /\ walk.began <= call.countAt /\ call.countAt <= tick
       /\ call.countAt = tick => call.count = Cardinality(M)
  <2>1. /\ ~ walk.done /\ CursorFits(call.filter) /\ (walk.cites => walk.filter = call.filter)
        /\ walk.began <= call.countAt /\ call.countAt <= tick
        /\ call.countAt = tick => call.count = Cardinality(Matching(call.filter))
    BY <1>1 DEF AnswerInv, AskInv
  <2> QED BY <1>10, <1>21, <2>1 DEF CursorFits
<1>23. cursor = NoKey => walk.given = {} /\ walk.again = {} /\ walk.began = 0
  BY <1>21, <1>22, WalkIs DEF AnswerInv, WalkInv
<1>24. cursor # NoKey =>
          /\ \A l \in walk.given : ~ After(l.key, cursor)
          /\ \A l \in steady : Matches(l, f) /\ (After(l.key, cursor) \/ l \in walk.given)
          /\ walk.began = tick => walk.given = {l \in M : ~ After(l.key, cursor)}
  <2> SUFFICES ASSUME cursor # NoKey
               PROVE  /\ \A l \in walk.given : ~ After(l.key, cursor)
                      /\ \A l \in steady : Matches(l, f) /\ (After(l.key, cursor) \/ l \in walk.given)
                      /\ walk.began = tick => walk.given = {l \in M : ~ After(l.key, cursor)}
    OBVIOUS
  <2>1. walk.filter = f /\ Matching(walk.filter) = M
    BY <1>10, <1>21, <1>22
  <2> QED BY <1>21, <2>1 DEF AnswerInv, WalkInv
<1>25. WalkInv'
  <2>1. CASE cursor = NoKey
    BY <1>1, <1>2, <1>21, <1>22, <1>23, <2>1, UnbegunWalk
  <2>2. CASE cursor # NoKey
    BY <1>1, <1>21, <2>2, SameWalk DEF AnswerInv
  <2> QED BY <2>1, <2>2
<1>26. Began' = (IF cursor = NoKey THEN call.countAt ELSE walk.began)
  BY <1>1, <1>17, <1>20, <1>21 DEF Began
<1>27. walk.began \in Nat
  BY WalkIs
(* The page's own promises. *)
<1>28. /\ (~ walk.done /\ CursorFits(Data.filter) /\ (walk.cites => walk.filter = Data.filter))'
       /\ Began' <= Data'.dataAt
  BY <1>1, <1>2, <1>17, <1>20, <1>21, <1>22, <1>26, <1>27 DEF CursorFits
<1>29. \A l \in page : Matches(l, f) /\ Beyond(l.key, cursor) /\ (next = NoKey \/ ~ After(l.key, next))
  BY <1>4, <1>6, <1>11, <1>13
<1>30. next # NoKey => Beyond(next, cursor)
  BY <1>6, <1>11, <1>13
<1>31. ASSUME NEW l \in steady'
       PROVE  /\ Matches(l, f)
              /\ Beyond(l.key, cursor) /\ (next = NoKey \/ ~ After(l.key, next)) => l \in page
  <2>1. l \in M
    <3>1. CASE cursor = NoKey
      BY <1>1, <1>31, <3>1
    <3>2. CASE cursor # NoKey
      <4>1. l \in steady /\ l \in Lines /\ Matches(l, f)
        BY <1>1, <1>24, <1>31, <3>2 DEF TypeOK
      <4> QED BY <1>10, <1>21, <4>1
    <3> QED BY <3>1, <3>2
  <2> QED BY <1>4, <1>7, <1>12, <1>13, <2>1
<1>32. Began' = tick /\ next = NoKey => call.count = Cardinality(walk.given \cup page)
  <2> SUFFICES ASSUME Began' = tick, next = NoKey
               PROVE  call.count = Cardinality(walk.given \cup page)
    OBVIOUS
  <2>1. call.countAt = tick
    BY <1>2, <1>22, <1>26, <1>27
  <2>2. walk.given \cup page = M
    <3>1. page = L
      BY <1>12
    <3>2. CASE cursor = NoKey
      BY <1>4, <1>7, <1>23, <3>1, <3>2 DEF Beyond
    <3>3. CASE cursor # NoKey
      <4>1. walk.given = {l \in M : ~ After(l.key, cursor)}
        BY <1>24, <1>26, <3>3
      <4> QED BY <1>4, <1>7, <3>1, <3>3, <4>1 DEF Beyond
    <3> QED BY <3>2, <3>3
  <2> QED BY <1>22, <2>1, <2>2
<1>33. Began' = tick /\ next # NoKey =>
          walk.given \cup page = {l \in M : ~ After(l.key, next)}
  <2> SUFFICES ASSUME Began' = tick, next # NoKey
               PROVE  walk.given \cup page = {l \in M : ~ After(l.key, next)}
    OBVIOUS
  <2>1. next \in Keys
    BY <1>14, KeyTypes
  <2>2. CASE cursor = NoKey
    <3>1. walk.given = {}
      BY <1>23, <2>2
    <3>2. L = M
      BY <1>4, <1>7, <2>2 DEF Beyond
    <3>3. \A l \in page : l \in M /\ ~ After(l.key, next)
      BY <1>4, <1>11, <1>13
    <3>4. \A l \in M : ~ After(l.key, next) => l \in page
      BY <1>13, <3>2
    <3> QED BY <3>1, <3>3, <3>4
  <2>3. CASE cursor # NoKey
    <3>1. walk.given = {l \in M : ~ After(l.key, cursor)}
      BY <1>24, <1>26, <2>3
    <3>2. After(next, cursor)
      BY <1>30, <2>3 DEF Beyond
    <3>3. ASSUME NEW l \in walk.given PROVE l \in M /\ ~ After(l.key, next)
      <4>1. l \in M /\ l.key \in Keys /\ ~ After(l.key, cursor)
        BY <1>3, <1>4, <3>1, <3>3 DEF Keyed
      <4> QED BY <1>21, <2>1, <3>2, <4>1, Order
    <3>4. \A l \in page : l \in M /\ ~ After(l.key, next)
      BY <1>4, <1>11, <1>13
    <3>5. \A l \in M : ~ After(l.key, next) => l \in page \/ l \in walk.given
      BY <1>7, <1>13, <2>3, <3>1 DEF Beyond
    <3> QED BY <3>3, <3>4, <3>5
  <2> QED BY <2>2, <2>3
<1>34. PageInv'
  <2>1. walk' = walk /\ Matching(Data.filter)' = M /\ Data'.filter = f
    BY <1>1, <1>3, <1>10, <1>17, <1>20, <1>21 DEF Matching, Matches
  <2>2. \A k : Beyond(k, walk.cursor)' <=> Beyond(k, cursor)
    BY <1>1, <1>21 DEF Beyond
  <2> QED BY <1>1, <1>17, <1>20, <1>21, <1>28, <1>29, <1>30, <1>31, <1>32, <1>33, <2>1
          DEF PageInv, Passed, Matches
<1>35. AskInv' /\ CompareInv' /\ FreshnessNeverOlderThanData'
  BY <1>17, <1>20 DEF AskInv, CompareInv, FreshnessNeverOlderThanData
<1>36. CiteInv'
  <2>1. walk.cites => steady' \subseteq steady
    BY <1>1
  <2> QED BY <1>1, <2>1 DEF AnswerInv, CiteInv, Matches
<1> QED BY <1>1, <1>2, <1>3, <1>17, <1>19, <1>25, <1>34, <1>35, <1>36 DEF AnswerInv

-----------------------------------------------------------------------------
(* The client gets a page: what it has been given is what is passed.       *)

LEMMA CitingIs ==
  ASSUME NEW lines \in SUBSET AnyLine, NEW c, NEW range, range[1] \in Dates, range[2] \in Dates,
         NEW w, w = Citing(lines, c, range)
  PROVE  /\ w \in Walks
         /\ w.cursor = NoKey /\ w.began = 0 /\ w.given = {} /\ w.again = {} /\ ~ w.done
         /\ w.filter = Citation(c, range) /\ w.cites /\ w.counted = Of(lines, c)
<1>1. PICK f : f = Citation(c, range)
  OBVIOUS
<1>2. f \in AnyFilter
  BY <1>1 DEF Citation, AnyFilter
<1>3. PICK counted \in SUBSET AnyLine : counted = Of(lines, c)
  BY DEF Of
<1>4. w = [filter |-> f, cursor |-> NoKey, began |-> 0, ended |-> 0, done |-> FALSE,
           given |-> {}, again |-> {}, count |-> 0, cites |-> TRUE, counted |-> counted]
  BY <1>1, <1>3 DEF Citing, Start
<1>5. NoKey \in Cursors
  BY DEF Cursors
<1>6. w \in Walks
  BY <1>2, <1>4, <1>5 DEF Walks
<1> QED BY <1>1, <1>3, <1>4, <1>6

(* A category that is shown is no income, and what of it was not counted   *)
(* in its dates is off budget.                                             *)
LEMMA CitedIsSpent ==
  ASSUME NEW lines, \A l \in lines : Spent(l.kind), NEW c \in Cited, Of(lines, c) # {}
  PROVE  \A kind : CategoryOf[kind] = c => (Spent(kind) <=> kind \in OnBudget)
<1>1. PICK l \in lines : CategoryOf[l.kind] = c
  BY DEF Of
<1>2. c \notin Inflow /\ c # "none"
  BY <1>1 DEF Spent
<1> QED BY <1>2 DEF Spent

LEMMA ReceiveComparison ==
  ASSUME TypeOK, AnswerInv, Receive, call.data.tool # "query"
  PROVE  TypeOK' /\ AnswerInv'
<1>1. /\ UNCHANGED <<txn, sub, tick, steady>> /\ call' = Idle /\ call.pc = "answered"
      /\ walk' \in {Start} \cup Citations(call.data)
  BY DEF Receive, mirror
<1>2. Lines' = Lines /\ tick \in Nat /\ call'.pc = "idle"
  BY <1>1, SameLines, PcIs DEF TypeOK
<1>3. PICK d : d = call.data
  OBVIOUS
<1>4. Data = d /\ HasRead("compare") /\ d \in Comparisons
  <2>1. Data = d /\ Data \in Read
    BY <1>1, <1>3, DataIs DEF Data
  <2>2. HasRead("compare")
    BY <1>1, <1>3, <2>1, ReadIs DEF HasRead
  <2> QED BY <2>1, <2>2, DataIs
<1>5. /\ d.period \in SUBSET AnyLine /\ d.baseline \in SUBSET AnyLine
      /\ \A l \in d.period \cup d.baseline : Spent(l.kind)
      /\ \A l \in steady : /\ l \in d.period <=> InDates(l, Period) /\ Spent(l.kind)
                           /\ l \in d.baseline <=> InDates(l, Baseline) /\ Spent(l.kind)
  BY <1>4 DEF AnswerInv, CompareInv, Comparisons
<1>6. CASE walk' = Start
  <2>1. TypeOK'
    BY <1>1, <1>2, <1>6 DEF TypeOK
  <2> QED BY <1>1, <1>2, <1>6, <2>1, StartWalk
          DEF AnswerInv, AskInv, PageInv, CompareInv, HasRead, FreshnessNeverOlderThanData
<1>7. ASSUME NEW c \in Cited, Of(d.period \cup d.baseline, c) # {},
             NEW lines \in SUBSET AnyLine, NEW range \in Dates \X Dates,
             \A l \in steady : l \in lines <=> InDates(l, range) /\ Spent(l.kind),
             walk' = Citing(lines, c, range)
      PROVE  TypeOK' /\ AnswerInv'
  <2>1. /\ walk' \in Walks /\ walk'.cursor = NoKey /\ walk'.began = 0 /\ walk'.given = {}
        /\ walk'.again = {} /\ ~ walk'.done
        /\ walk'.filter = Citation(c, range) /\ walk'.counted = Of(lines, c)
    <3>1. PICK w : w = Citing(lines, c, range)
      OBVIOUS
    <3>2. range[1] \in Dates /\ range[2] \in Dates
      OBVIOUS
    <3>3. /\ w \in Walks /\ w.cursor = NoKey /\ w.began = 0 /\ w.given = {}
          /\ w.again = {} /\ ~ w.done
          /\ w.filter = Citation(c, range) /\ w.counted = Of(lines, c)
      BY <3>1, <3>2, CitingIs
    <3>4. walk' = w
      BY <1>7, <3>1
    <3> QED BY <3>3, <3>4
  <2>2. TypeOK'
    BY <1>1, <1>2, <2>1 DEF TypeOK, Walks
  <2>3. WalkInv'
    BY <1>1, <1>2, <2>1, UnbegunWalk
  <2>4. \A kind : CategoryOf[kind] = c => (Spent(kind) <=> kind \in OnBudget)
    BY <1>5, <1>7, CitedIsSpent
  <2>5. ASSUME NEW l \in steady, Matches(l, Citation(c, range))
        PROVE  l \in Of(lines, c) <=> l.kind \in OnBudget
    <3>1. InDates(l, range) /\ CategoryOf[l.kind] = c
      BY <2>5 DEF Matches, Citation, InDates
    <3>2. l \in Of(lines, c) <=> l \in lines
      BY <3>1 DEF Of
    <3> QED BY <1>7, <2>4, <3>1, <3>2
  <2>6. CiteInv'
    BY <1>1, <2>1, <2>5 DEF CiteInv, Matches
  <2> QED BY <1>1, <1>2, <2>2, <2>3, <2>6
          DEF AnswerInv, AskInv, PageInv, CompareInv, HasRead, FreshnessNeverOlderThanData
<1>8. CASE walk' \in Citations(d)
  <2>1. PICK c \in Shown(d) : walk' = Citing(d.period, c, Period) \/ walk' = Citing(d.baseline, c, Baseline)
    BY <1>8 DEF Citations
  <2>2. c \in Cited /\ Of(d.period \cup d.baseline, c) # {}
    BY <2>1 DEF Shown
  <2>3. CASE walk' = Citing(d.period, c, Period)
    BY <1>5, <1>7, <2>2, <2>3
  <2>4. CASE walk' = Citing(d.baseline, c, Baseline)
    BY <1>5, <1>7, <2>2, <2>4
  <2> QED BY <2>1, <2>3, <2>4
<1> QED BY <1>1, <1>3, <1>6, <1>8

LEMMA ReceivePage ==
  ASSUME TypeOK, AnswerInv, Receive, call.data.tool = "query"
  PROVE  TypeOK' /\ AnswerInv'
<1>1. /\ UNCHANGED <<txn, sub, tick, steady>> /\ call' = Idle /\ call.pc = "answered"
      /\ walk' = Continued(call.data)
  BY DEF Receive, mirror
<1>2. PICK d : d = call.data
  OBVIOUS
<1>3. Data = d /\ HasRead("query") /\ d \in Pages
  <2>1. Data = d /\ HasRead("query")
    BY <1>1, <1>2 DEF Data, HasRead
  <2> QED BY <2>1, DataIs
<1>4. /\ d.filter \in AnyFilter /\ d.count \in Nat /\ d.countAt \in Nat /\ d.dataAt \in Nat
      /\ d.lines \in SUBSET AnyLine /\ d.next \in Cursors /\ d.next \in Keys
  BY <1>3, KeyTypes DEF Pages
<1>5. PICK began : began = Began
  OBVIOUS
<1>6. /\ walk.cursor \in Cursors /\ walk.cursor \in Keys /\ walk.began \in Nat
      /\ walk.given \in SUBSET AnyLine /\ walk.done \in BOOLEAN
      /\ walk.cites \in BOOLEAN /\ walk.counted \in SUBSET AnyLine
  BY WalkIs, KeyTypes
<1>7. began \in Nat /\ began = IF walk.cursor = NoKey THEN d.countAt ELSE walk.began
  BY <1>3, <1>4, <1>5, <1>6 DEF Began
<1>8. walk.again = {} /\ WalkInv /\ PageInv /\ tick \in Nat
  BY DEF AnswerInv, WalkInv, TypeOK
<1>9. walk' = [filter |-> d.filter, cursor |-> d.next, done |-> d.next = NoKey,
               began |-> began, ended |-> d.dataAt, given |-> walk.given \cup d.lines,
               again |-> walk.again \cup (walk.given \cap d.lines), count |-> d.count,
               cites |-> walk.cites, counted |-> walk.counted]
  BY <1>1, <1>2, <1>7 DEF Continued
<1>10. /\ walk'.filter = d.filter /\ walk'.cursor = d.next /\ (walk'.done <=> d.next = NoKey)
       /\ walk'.began = began /\ walk'.ended = d.dataAt
       /\ walk'.given = walk.given \cup d.lines
       /\ walk'.again = walk.given \cap d.lines /\ walk'.count = d.count
       /\ walk'.cites = walk.cites /\ walk'.counted = walk.counted
  BY <1>8, <1>9
<1>11. walk' \in Walks
  <2>1. (d.next = NoKey) \in BOOLEAN
    OBVIOUS
  <2>2. walk.given \cup d.lines \in SUBSET AnyLine
        /\ walk.again \cup (walk.given \cap d.lines) \in SUBSET AnyLine
    BY <1>4, <1>6, <1>8
  <2>3. PICK given \in SUBSET AnyLine : given = walk.given \cup d.lines
    BY <2>2
  <2>4. PICK again \in SUBSET AnyLine : again = walk.again \cup (walk.given \cap d.lines)
    BY <2>2
  <2>5. PICK done \in BOOLEAN : done = (d.next = NoKey)
    BY <2>1
  <2>6. walk' = [filter |-> d.filter, cursor |-> d.next, done |-> done,
                 began |-> began, ended |-> d.dataAt, given |-> given, again |-> again,
                 count |-> d.count, cites |-> walk.cites, counted |-> walk.counted]
    BY <1>9, <2>3, <2>4, <2>5
  <2> QED BY <1>4, <1>6, <1>7, <2>6 DEF Walks
<1>12. Lines' = Lines /\ call'.pc = "idle"
  BY <1>1, SameLines, PcIs
<1>13. TypeOK'
  BY <1>1, <1>11, <1>12 DEF TypeOK, Walks
(* What is known of the page, and of the walk before it. *)
<1>14. /\ walk.cursor = NoKey \/ walk.filter = d.filter
       /\ walk.cites => walk.filter = d.filter
       /\ ~ walk.done /\ began <= d.dataAt
       /\ \A l \in d.lines :
            /\ Matches(l, d.filter) /\ Beyond(l.key, walk.cursor)
            /\ d.next = NoKey \/ ~ After(l.key, d.next)
       /\ d.next # NoKey => Beyond(d.next, walk.cursor)
       /\ \A l \in steady :
            /\ Matches(l, d.filter)
            /\ Beyond(l.key, walk.cursor) /\ (d.next = NoKey \/ ~ After(l.key, d.next))
                 => l \in d.lines
       /\ began = d.dataAt /\ d.next = NoKey => d.count = Cardinality(walk.given \cup d.lines)
       /\ began = tick /\ d.next # NoKey =>
            walk.given \cup d.lines = {l \in Matching(d.filter) : ~ After(l.key, d.next)}
  BY <1>3, <1>5, <1>8 DEF PageInv, CursorFits, Passed
<1>15. walk.cursor = NoKey => walk.given = {}
  BY <1>8, <1>14, WalkIs DEF WalkInv
<1>16. walk.cursor # NoKey =>
          /\ \A l \in walk.given : ~ After(l.key, walk.cursor) /\ Matches(l, d.filter)
          /\ \A l \in steady : After(l.key, walk.cursor) \/ l \in walk.given
  BY <1>8, <1>14 DEF WalkInv
<1>17. began <= tick
  <2>1. d.dataAt <= tick
    <3>1. call.synced \in Nat
      BY <1>1, CallIs DEF Answers
    <3>2. d.dataAt <= call.synced /\ call.synced <= tick
      BY <1>1, <1>2 DEF AnswerInv, FreshnessNeverOlderThanData
    <3> QED BY <1>4, <1>8, <3>1, <3>2
  <2> QED BY <1>4, <1>7, <1>8, <1>14, <2>1
<1>18. \A l \in steady : l \in walk.given \cup d.lines \/ (d.next # NoKey /\ After(l.key, d.next))
  BY <1>14, <1>16 DEF Beyond
<1>19. walk.given \cap d.lines = {}
  BY <1>14, <1>15, <1>16 DEF Beyond
<1>20. \A l \in walk.given \cup d.lines : Matches(l, d.filter)
  BY <1>14, <1>15, <1>16
<1>21. d.next # NoKey => \A l \in walk.given \cup d.lines : ~ After(l.key, d.next)
  <2> SUFFICES ASSUME d.next # NoKey, NEW l \in walk.given PROVE ~ After(l.key, d.next)
    BY <1>14
  <2>1. walk.cursor # NoKey /\ After(d.next, walk.cursor) /\ ~ After(l.key, walk.cursor)
    BY <1>14, <1>15, <1>16 DEF Beyond
  <2>2. l.key \in Keys
    BY <1>6, KeyIs
  <2> QED BY <1>4, <1>6, <2>1, <2>2, Order
<1>22. (Matching(walk.filter))' = Matching(d.filter)
  BY <1>10, <1>12 DEF Matching, Matches
<1>23. WalkInv'
  <2>1. CountsAddUp'
    BY <1>10, <1>14 DEF CountsAddUp
  <2>2. walk'.done => walk'.cursor = NoKey /\ steady' \subseteq walk'.given
    BY <1>1, <1>10, <1>18
  <2>3. walk'.cursor = NoKey /\ ~ walk'.done => walk'.given = {} /\ walk'.began = 0
    BY <1>10
  <2>4. walk'.again = {} /\ walk'.began <= tick'
    BY <1>1, <1>10, <1>17, <1>19
  <2>5. \A l \in walk'.given : Matches(l, walk'.filter)
    BY <1>10, <1>20
  <2>6. walk'.cursor # NoKey =>
          /\ \A l \in walk'.given : ~ After(l.key, walk'.cursor)
          /\ \A l \in steady' :
               Matches(l, walk'.filter) /\ (After(l.key, walk'.cursor) \/ l \in walk'.given)
          /\ walk'.began = tick' =>
               walk'.given = {l \in Matching(walk.filter)' : ~ After(l.key, walk'.cursor)}
    BY <1>1, <1>10, <1>14, <1>18, <1>21, <1>22
  <2> QED BY <2>1, <2>2, <2>3, <2>4, <2>5, <2>6 DEF WalkInv, Matches
<1>24. AskInv' /\ PageInv' /\ CompareInv' /\ FreshnessNeverOlderThanData'
  BY <1>12 DEF AskInv, PageInv, CompareInv, HasRead, FreshnessNeverOlderThanData
<1>25. CiteInv'
  BY <1>1, <1>10, <1>14 DEF AnswerInv, CiteInv, Matches
<1> QED BY <1>1, <1>12, <1>13, <1>23, <1>24, <1>25 DEF AnswerInv

LEMMA StillKeeps ==
  ASSUME TypeOK, AnswerInv, UNCHANGED vars PROVE TypeOK' /\ AnswerInv'
<1>1. UNCHANGED <<txn, sub, tick, call, walk, steady>>
  BY DEF vars
<1>2. Lines' = Lines
  BY <1>1, SameLines
<1>3. TypeOK'
  BY <1>1, <1>2 DEF TypeOK
<1>4. WalkInv' /\ CiteInv'
  BY <1>1, SameWalk, SameCitation DEF AnswerInv
<1>5. AskInv'
  BY <1>1, <1>2 DEF AnswerInv, AskInv, CursorFits, Matching, Matches
<1>6. (HasRead("query"))' = HasRead("query") /\ (HasRead("compare"))' = HasRead("compare")
      /\ Data' = Data
  BY <1>1 DEF HasRead, Data
<1>7. PageInv' /\ CompareInv'
  BY <1>1, <1>2, <1>6
     DEF AnswerInv, PageInv, CompareInv, CursorFits, Began, Passed, Matching, Matches, Beyond, InDates
<1>8. FreshnessNeverOlderThanData'
  BY <1>1 DEF AnswerInv, FreshnessNeverOlderThanData
<1> QED BY <1>1, <1>2, <1>3, <1>4, <1>5, <1>7, <1>8 DEF AnswerInv

-----------------------------------------------------------------------------
(* The theorems *)

LEMMA InitHolds == ASSUME Init PROVE TypeOK /\ AnswerInv
<1>1. /\ txn = [t \in Txns |-> NoRow] /\ sub = [s \in Subs |-> NoRow] /\ tick = 0
      /\ call = Idle /\ walk = Start /\ steady = {} /\ call.pc = "idle"
  BY PcIs DEF Init
<1>2. ~ NoRow.live
  BY DEF NoRow
<1>3. Lines = {}
  BY <1>1, <1>2 DEF Lines
<1>4. TypeOK
  BY <1>1, <1>3 DEF TypeOK, TxnRows, SubRows
<1>5. WalkInv /\ CiteInv
  BY <1>1, <1>4, WalkIs DEF WalkInv, CountsAddUp, CiteInv
<1>6. AskInv /\ PageInv /\ CompareInv /\ FreshnessNeverOlderThanData
  BY <1>1 DEF AskInv, PageInv, CompareInv, HasRead, FreshnessNeverOlderThanData
<1> QED BY <1>1, <1>3, <1>4, <1>5, <1>6 DEF AnswerInv

LEMMA StepKeeps == ASSUME TypeOK, AnswerInv, [Next]_vars PROVE TypeOK' /\ AnswerInv'
<1>1. CASE \E f \in Asked, size \in 1 .. MaxPage + 1 : AskPage(f, size)
  BY <1>1, AskPageKeeps
<1>2. CASE CheckArgs
  BY <1>2, CheckArgsKeeps
<1>3. CASE Summarize
  BY <1>3, SummarizeKeeps
<1>4. CASE ReadPage
  BY <1>4, ReadPageKeeps
<1>5. CASE Compare
  BY <1>5, AskComparisonKeeps, ReadPeriodKeeps, ReadBaselineKeeps DEF Compare
<1>6. CASE ReadSyncState
  BY <1>6, ReadSyncStateKeeps
<1>7. CASE ReadAccounts
  BY <1>7, ReadAccountsKeeps
<1>8. CASE Receive
  BY <1>8, ReceivePage, ReceiveComparison
<1>9. CASE Fail
  BY <1>9, FailKeeps
<1>10. CASE NewWalk
  BY <1>10, NewWalkKeeps
<1>11. CASE InitialLoad
  <2>1. TypeOK' /\ UNCHANGED <<call, walk>> /\ tick' = tick + 1 /\ steady' \subseteq steady
    BY <1>11, InitialLoadType DEF InitialLoad
  <2> QED BY <2>1, CommitKeeps
<1>12. CASE \E t \in Txns : Commit(t)
  <2>1. TypeOK' /\ UNCHANGED <<call, walk>> /\ tick' = tick + 1 /\ steady' \subseteq steady
    BY <1>12, CommitType DEF Commit
  <2> QED BY <2>1, CommitKeeps
<1>13. CASE UNCHANGED vars
  BY <1>13, StillKeeps
<1> QED BY <1>1, <1>2, <1>3, <1>4, <1>5, <1>6, <1>7, <1>8, <1>9, <1>10, <1>11, <1>12, <1>13
        DEF Next, Query

(* Every answer that is put together, whatever commits between its         *)
(* queries: types, and what a walk, a page and a comparison have read.     *)
THEOREM AnswerInvariant == Spec => [](TypeOK /\ AnswerInv)
<1>1. Init => TypeOK /\ AnswerInv
  BY InitHolds
<1>2. TypeOK /\ AnswerInv /\ [Next]_vars => (TypeOK /\ AnswerInv)'
  BY StepKeeps
<1> QED BY <1>1, <1>2, PTL DEF Spec

(* The pages of a walk show every line no commit touched, once, whatever   *)
(* its key and the pages' sizes, and no line of another filter             *)
(* (store/transactions_read.go: cursor and ORDER BY of QueryLines).        *)
THEOREM WalksCoverSteadyLines == Spec => []PagesCoverSteadyLines
<1>1. TypeOK /\ AnswerInv => PagesCoverSteadyLines
  BY DEF AnswerInv, WalkInv, PagesCoverSteadyLines
<1> QED BY <1>1, AnswerInvariant, PTL

(* match_count is the number of lines of all the pages, if no commit came  *)
(* in between (the summary of QueryLines).                                 *)
THEOREM WalksCount == Spec => []CountsAddUp
<1>1. TypeOK /\ AnswerInv => CountsAddUp
  BY DEF AnswerInv, WalkInv
<1> QED BY <1>1, AnswerInvariant, PTL

(* The transactions behind a number of compare_spending: of the lines that *)
(* no commit touched since, a citing client is given those the number      *)
(* counted, and only off-budget ones beside them (CategoryTotals and       *)
(* QueryLines).                                                            *)
THEOREM CitationsAgree == Spec => []NumbersCanBeCited
<1>1. TypeOK /\ AnswerInv => NumbersCanBeCited
  BY DEF AnswerInv, WalkInv, CiteInv, NumbersCanBeCited
<1> QED BY <1>1, AnswerInvariant, PTL

(* The sync an answer names is not older than its data, nor its accounts   *)
(* older than that sync (respond, readFreshness).                          *)
THEOREM AnswersAreNotNewer == Spec => []FreshnessNeverOlderThanData
<1>1. TypeOK /\ AnswerInv => FreshnessNeverOlderThanData
  BY DEF AnswerInv
<1> QED BY <1>1, AnswerInvariant, PTL
=============================================================================
