--------------------------- MODULE ExplorerProofs ---------------------------
(***************************************************************************)
(* Proofs about the listings of the Explorer: a walk through pages never   *)
(* turns back, and skips nothing that stays where it is, for every set of  *)
(* events, every grouping, every query and every page size.                *)
(***************************************************************************)
EXTENDS Explorer, SequenceTheorems, FiniteSetTheorems, TLAPS

Cursor == Int \X Int

\* What a page tells of an item.
Listed == [item : {ItemOf(l, e) : l \in Listings, e \in Events}, key : Cursor]

\* The client has not begun, or holds a query, the cursor for the next page and a page
\* that fits the limit.
Shapes ==
  /\ row \subseteq Events
  /\ seen \subseteq Listed
  /\ \/ walk = NoWalk /\ seen = {} /\ steady = {}
     \/ /\ walk \in [pc : {"paging", "done", "failed"}, query : Queries,
                     cursor : Cursor \cup {None}, page : Seq(Listed), pages : Nat]
        /\ Len(walk.page) <= walk.query.limit
        /\ Range(walk.page) \subseteq seen

\* Everything listed so far is at the cursor or before it; without a cursor nothing is
\* listed yet.
Behind ==
  walk.pc = "paging" => \A x \in seen : ~Beyond(walk.query, x.key, walk.cursor)

\* An item that stays where it is has been listed or is still to come.
Covered ==
  walk.pc = "paging" =>
    \A i \in steady :
      /\ i \in Items(walk.query)
      /\ Alone(walk.query, i) =>
           \/ \E x \in seen : x.item = i
           \/ Beyond(walk.query, Key(walk.query, i), walk.cursor)

IInv == Shapes /\ Behind /\ Covered /\ NothingSkipped

-----------------------------------------------------------------------------
(* Minima                                                                  *)

\* The least-number principle, from the well-foundedness of < on the naturals.
LEMMA LeastNatural ==
  ASSUME NEW T \in SUBSET Nat, T # {}
  PROVE  \E n \in T : \A m \in T : n <= m
<1> DEFINE R == OpToRel(<, Nat)
<1>1. IsWellFoundedOn(R, Nat)
  BY NatLessThanWellFounded
<1> HIDE DEF R
<1>2. PICK x \in T : \A y \in T : ~ (<<y, x>> \in R)
  BY <1>1, WFMin
<1>3. \A y \in T : y < x => <<y, x>> \in R
  BY DEF R, OpToRel
<1>4. \A y \in T : ~(y < x)
  BY Zenon, <1>2, <1>3
<1>5. \A y \in T : y \in Nat
  OBVIOUS
<1>6. \A y \in T : x <= y
  BY <1>4, <1>5
<1> QED  BY <1>6

\* MIN(event_time) over the rows of an item has a value: by induction on the largest ID.
LEMMA EarliestEvent ==
  ASSUME NEW E \in SUBSET Events, E # {}
  PROVE  \E e \in E : \A f \in E : Time[e] <= Time[f]
<1> DEFINE HasFirst(F) == \E e \in F : \A f \in F : Time[e] <= Time[f]
           Bad == {n \in Nat : \E F \in SUBSET Events :
                      F \subseteq 1..n /\ F # {} /\ ~HasFirst(F)}
<1>1. SUFFICES Bad = {}
  <2>1. E \subseteq 1..N /\ N \in Nat
    BY NAssumption DEF Events
  <2> QED  BY Zenon, <1>1, <2>1
<1>2. SUFFICES ASSUME Bad # {} PROVE FALSE
  OBVIOUS
<1>3. PICK n \in Bad : \A m \in Bad : n <= m
  <2>1. Bad \in SUBSET Nat
    OBVIOUS
  <2> HIDE DEF Bad
  <2> QED  BY <1>2, <2>1, LeastNatural
<1>4. n \in Nat
  OBVIOUS
<1>5. PICK F \in SUBSET Events : F \subseteq 1..n /\ F # {} /\ ~HasFirst(F)
  OBVIOUS
<1>6. n # 0
  <2>1. 1..0 = {}
    OBVIOUS
  <2>2. F \subseteq 1..n /\ F # {}
    BY Zenon, <1>5
  <2> QED  BY Zenon, <2>1, <2>2
<1>7. n - 1 \in Nat /\ ~(n <= n - 1)
  BY <1>4, <1>6
<1>8. n - 1 \notin Bad
  BY <1>3, <1>7
<1> DEFINE G == F \ {n}
<1>9. G \in SUBSET Events /\ G \subseteq 1..(n - 1)
  BY <1>4, <1>5
<1>10. G # {} => HasFirst(G)
  <2> HIDE DEF HasFirst
  <2> QED  BY <1>7, <1>8, <1>9
<1>11. \A e \in F : Time[e] \in Int
  BY TimeAssumption
<1>12. n \in F
  <2>1. CASE n \notin F
    <3>1. G = F
      BY <2>1
    <3> QED  BY Zenon, <1>5, <1>10, <3>1
  <2> QED  BY <2>1
<1>13. CASE G = {}
  <2>1. F = {n}
    BY <1>12, <1>13
  <2>2. Time[n] <= Time[n]
    BY <1>11, <1>12
  <2> QED  BY Zenon, <1>5, <2>1, <2>2
<1>14. CASE G # {}
  <2>1. PICK e \in G : \A f \in G : Time[e] <= Time[f]
    BY <1>10, <1>14
  <2>2. e \in F /\ \A f \in F : f = n \/ f \in G
    OBVIOUS
  <2>3. CASE Time[e] <= Time[n]
    <3>1. \A f \in F : Time[e] <= Time[f]
      BY Zenon, <2>1, <2>2, <2>3
    <3> QED  BY Zenon, <1>5, <2>2, <3>1
  <2>4. CASE ~(Time[e] <= Time[n])
    <3>1. \A f \in F : Time[n] <= Time[f]
      BY <1>11, <1>12, <2>1, <2>2, <2>4
    <3> QED  BY Zenon, <1>5, <1>12, <3>1
  <2> QED  BY <2>3, <2>4
<1> QED  BY <1>13, <1>14

\* Min({Len(s), q.limit}): the smaller of the two.
LEMMA MinOfTwo ==
  ASSUME NEW a \in Nat, NEW b \in Nat
  PROVE  Min({a, b}) = IF a <= b THEN a ELSE b
<1> DEFINE P(x) == \A y \in {a, b} : x <= y
<1>1. \E x \in {a, b} : P(x)
  OBVIOUS
<1>2. Min({a, b}) \in {a, b} /\ P(Min({a, b}))
  BY <1>1 DEF Min
<1> QED  BY <1>2

-----------------------------------------------------------------------------
(* Keys and their order                                                    *)

\* Before is the order of (time, ID) pairs: strict, transitive and total.
LEMMA BeforeOrder ==
  ASSUME NEW a \in Cursor, NEW b \in Cursor, NEW c \in Cursor
  PROVE  /\ ~Before(a, a)
         /\ Before(a, b) => ~Before(b, a)
         /\ Before(a, b) /\ Before(b, c) => Before(a, c)
         /\ Before(a, b) \/ Before(b, a) \/ a = b
<1>1. /\ a = <<a[1], a[2]>> /\ a[1] \in Int /\ a[2] \in Int
      /\ b = <<b[1], b[2]>> /\ b[1] \in Int /\ b[2] \in Int
      /\ c = <<c[1], c[2]>> /\ c[1] \in Int /\ c[2] \in Int
  BY DEF Cursor
<1>2. ~(a[1] < b[1]) /\ ~(b[1] < a[1]) /\ ~(a[2] < b[2]) /\ ~(b[2] < a[2]) => a = b
  BY <1>1
<1> QED  BY <1>1, <1>2 DEF Before

\* The ORDER BY of a query puts b after a or leaves them in any order.
NotAfter(q, a, b) == IF q.desc THEN ~Before(a, b) ELSE ~Before(b, a)

\* With a cursor, Beyond is the strict order the query asks for: it orders keys that differ,
\* and what is beyond c is beyond everything that is not.
LEMMA BeyondOrder ==
  ASSUME NEW q, NEW a \in Cursor, NEW b \in Cursor, NEW c \in Cursor
  PROVE  /\ ~Beyond(q, a, a)
         /\ ~Beyond(q, a, c) /\ Beyond(q, b, c) => Beyond(q, b, a)
         /\ Beyond(q, a, b) /\ Beyond(q, b, c) => Beyond(q, a, c)
         /\ NotAfter(q, a, b) => ~Beyond(q, a, b) /\ (Beyond(q, b, a) \/ a = b)
<1>1. a # None /\ b # None /\ c # None
  BY NoneAssumption DEF Cursor
<1>2. CASE q.desc
  BY <1>1, <1>2, BeforeOrder DEF Beyond, NotAfter
<1>3. CASE ~q.desc
  BY <1>1, <1>3, BeforeOrder DEF Beyond, NotAfter
<1> QED  BY <1>2, <1>3

LEMMA SortedOrder ==
  ASSUME NEW q, NEW a \in Cursor, NEW b \in Cursor, NotAfter(q, a, b)
  PROVE  ~Beyond(q, a, b) /\ (Beyond(q, b, a) \/ a = b)
BY BeyondOrder

\* An item a query selects has rows, one of them the earliest, which gives it its time.
LEMMA KeyTime ==
  ASSUME row \subseteq Events, NEW q, NEW i \in Items(q)
  PROVE  \E e \in q.where : /\ e \in Events
                            /\ i = ItemOf(q.listing, e) /\ i # None
                            /\ Key(q, i)[1] = Time[e]
<1> DEFINE R == Rows(q, i)
           T == {Time[f] : f \in R}
<1>1. i # None /\ \E e \in row \cap q.where : i = ItemOf(q.listing, e)
  BY Zenon DEF Items
<1>2. /\ R \in SUBSET Events /\ R # {}
      /\ \A e \in R : e \in q.where /\ e \in Events /\ ItemOf(q.listing, e) = i
  BY <1>1 DEF Rows
<1>3. Key(q, i)[1] = Min(T)
  BY DEF Key
<1> HIDE DEF R
<1>4. PICK f \in R : \A g \in R : Time[f] <= Time[g]
  BY <1>2, EarliestEvent
<1>5. \E x \in T : \A y \in T : x <= y
  BY <1>4
<1>6. Min(T) \in T
  <2> HIDE DEF T
  <2> QED  BY <1>5 DEF Min
<1>7. PICK e \in R : Min(T) = Time[e]
  BY <1>6
<1> QED  BY Zenon, <1>1, <1>2, <1>3, <1>7

\* The key of an item is a cursor.
LEMMA KeyType ==
  ASSUME row \subseteq Events, NEW q \in Queries, NEW i \in Items(q)
  PROVE  /\ Key(q, i) \in Cursor
         /\ \E e \in Events : i = ItemOf(q.listing, e) /\ i # None
<1>1. PICK e \in q.where : /\ e \in Events
                           /\ i = ItemOf(q.listing, e) /\ i # None
                           /\ Key(q, i)[1] = Time[e]
  BY KeyTime
<1>2. q.listing \in Listings
  BY DEF Queries
<1>3. IDOf(q.listing, i) \in Int
  <2>1. CASE q.listing = "events"
    BY <1>1, <2>1, NAssumption DEF IDOf, ItemOf, Events
  <2>2. CASE q.listing # "events"
    BY <1>1, <1>2, <2>2, IDAssumption DEF IDOf, ItemOf
  <2> QED  BY <2>1, <2>2
<1>4. Time[e] \in Int
  BY <1>1, TimeAssumption
<1>5. Key(q, i) = <<Key(q, i)[1], IDOf(q.listing, i)>>
  BY DEF Key
<1>6. Key(q, i) \in Cursor
  <2>1. Key(q, i)[1] \in Int
    BY Zenon, <1>1, <1>4
  <2> QED  BY <1>3, <1>5, <2>1 DEF Cursor
<1> QED  BY <1>1, <1>6

\* The items of a query are finitely many.
LEMMA FiniteItems ==
  ASSUME row \subseteq Events, NEW q, NEW S \in SUBSET Items(q)
  PROVE  IsFiniteSet(S) /\ Cardinality(S) \in Nat
<1> DEFINE E == row \cap q.where
           T == {ItemOf(q.listing, e) : e \in E}
           f == [e \in E |-> ItemOf(q.listing, e)]
<1>1. IsFiniteSet(E)
  <2>1. IsFiniteSet(1..N)
    BY NAssumption, FS_Interval
  <2>2. E \in SUBSET (1..N)
    BY DEF Events
  <2> QED  BY <2>1, <2>2, FS_Subset
<1>2. f \in Surjection(E, T)
  BY DEF Surjection
<1>3. IsFiniteSet(T)
  <2> HIDE DEF E, T, f
  <2> QED  BY <1>1, <1>2, FS_Surjection
<1>4. S \in SUBSET T
  BY DEF Items
<1>5. IsFiniteSet(S)
  <2> HIDE DEF T
  <2> QED  BY <1>3, <1>4, FS_Subset
<1> QED  BY <1>5, FS_CardinalityType

-----------------------------------------------------------------------------
(* Pages                                                                   *)

Selected(q, cursor) == {i \in Items(q) : Beyond(q, Key(q, i), cursor)}
PageFrom(q, s) == makePage(q, SubSeq(s, 1, Min({Len(s), q.limit + 1})))

\* The result of a query lists each selected item once, in order.
LEMMA SelectLists ==
  ASSUME row \subseteq Events, NEW q \in Queries, NEW cursor, NEW s \in Select(q, cursor)
  PROVE  /\ s \in Seq(Selected(q, cursor))
         /\ DOMAIN s = 1..Len(s)
         /\ \A a, b \in 1..Len(s) : s[a] = s[b] => a = b
         /\ \A i \in Selected(q, cursor) : \E a \in 1..Len(s) : s[a] = i
         /\ \A a, b \in 1..Len(s) : a < b => NotAfter(q, Key(q, s[a]), Key(q, s[b]))
<1> DEFINE S == Selected(q, cursor)
           n == Cardinality(S)
<1>1. n \in Nat
  <2>1. S \in SUBSET Items(q)
    BY DEF Selected
  <2> HIDE DEF S
  <2> QED  BY <2>1, FiniteItems
<1>2. s \in OrderBy(q, S)
  BY DEF Select, Selected
<1> HIDE DEF S
<1>3. /\ s \in Bijection(1..n, S)
      /\ \A a, b \in DOMAIN s : a < b => NotAfter(q, Key(q, s[a]), Key(q, s[b]))
  BY Zenon, <1>2 DEF OrderBy, NotAfter
<1>4. /\ s \in [1..n -> S]
      /\ \A a, b \in DOMAIN s : s[a] = s[b] => a = b
      /\ \A i \in S : \E a \in 1..n : s[a] = i
  BY Zenon, <1>3 DEF Bijection, Injection, Surjection, IsInjective
<1> HIDE DEF n
<1>5. s \in Seq(S) /\ Len(s) = n /\ DOMAIN s = 1..n
  BY <1>1, <1>4, SeqDef
<1> QED  BY Zenon, <1>3, <1>4, <1>5 DEF S

\* makePage on limit + 1 rows: the first limit of them, and a cursor if there was one more.
LEMMA PageItems ==
  ASSUME NEW q, q.limit \in Nat \ {0}, NEW S, NEW s \in Seq(S)
  PROVE  LET p == PageFrom(q, s)
             k == IF Len(s) <= q.limit THEN Len(s) ELSE q.limit
         IN  /\ k \in Nat /\ k <= q.limit /\ k <= Len(s)
             /\ DOMAIN p.items = 1..k
             /\ \A a \in 1..k : p.items[a] = s[a]
             /\ p.more <=> Len(s) > q.limit
             /\ p.next = IF Len(s) > q.limit THEN Key(q, s[q.limit]) ELSE None
<1> DEFINE l == q.limit
           n == Len(s)
           t == SubSeq(s, 1, Min({n, l + 1}))
           m == IF n <= l + 1 THEN n ELSE l + 1
           k == IF n <= l THEN n ELSE l
<1>1. n \in Nat /\ l \in Nat /\ l # 0
  BY LenProperties
<1>2. Min({n, l + 1}) = m
  BY <1>1, MinOfTwo
<1> HIDE DEF n, l
<1>3. m \in Nat /\ k \in Nat /\ k <= l /\ k <= m /\ m <= n /\ (m > l <=> n > l) /\ k <= n
  BY <1>1
<1>4. /\ t \in Seq(S) /\ Len(t) = m
      /\ \A a \in 1..m : t[a] = s[a]
  <2>1. t = SubSeq(s, 1, m)
    BY <1>2
  <2> HIDE DEF t, m
  <2>2. 1 \in 1..(Len(s) + 1) /\ m \in (1 - 1)..Len(s) /\ m - 1 + 1 = m
    BY <1>1, <1>3 DEF n
  <2>3. /\ t \in Seq(S) /\ Len(t) = m - 1 + 1
        /\ \A a \in 1..(m - 1 + 1) : t[a] = s[1 + a - 1]
    BY <2>1, <2>2, SubSeqProperties
  <2>4. \A a \in 1..m : 1 + a - 1 = a
    BY <1>3
  <2> QED  BY Zenon, <2>2, <2>3, <2>4
<1>5. Min({Len(t), l}) = k
  <2>1. Min({m, l}) = k
    BY <1>1, <1>3, MinOfTwo
  <2> HIDE DEF t, m, k
  <2> QED  BY <1>4, <2>1
<1> DEFINE u == SubSeq(t, 1, k)
<1> HIDE DEF t, m, k
<1>6. /\ DOMAIN u = 1..k
      /\ \A a \in 1..k : u[a] = s[a]
  <2>1. 1 \in 1..(Len(t) + 1) /\ k \in (1 - 1)..Len(t) /\ k - 1 + 1 = k
    BY <1>3, <1>4
  <2>2. /\ u \in Seq(S) /\ Len(u) = k - 1 + 1
        /\ \A a \in 1..(k - 1 + 1) : u[a] = t[1 + a - 1]
    BY <1>4, <2>1, SubSeqProperties
  <2>3. \A a \in 1..k : 1 + a - 1 = a /\ a \in 1..m
    BY <1>3
  <2>4. \A a \in 1..k : u[a] = s[a]
    BY Zenon, <1>4, <2>1, <2>2, <2>3
  <2> HIDE DEF u
  <2>5. DOMAIN u = 1..k
    BY <2>1, <2>2, LenProperties
  <2> QED  BY <2>4, <2>5
<1>7. /\ PageFrom(q, s).items = u
      /\ PageFrom(q, s).more <=> n > l
      /\ PageFrom(q, s).next = IF n > l THEN Key(q, t[l]) ELSE None
  <2>1. PageFrom(q, s) = makePage(q, t)
    BY DEF PageFrom, t, n, l
  <2>2. /\ makePage(q, t).items = SubSeq(t, 1, Min({Len(t), q.limit}))
        /\ makePage(q, t).more = (Len(t) > q.limit)
        /\ makePage(q, t).next = IF Len(t) > q.limit THEN Key(q, t[q.limit]) ELSE None
    BY Zenon DEF makePage
  <2>3. Len(t) = m /\ q.limit = l /\ SubSeq(t, 1, Min({Len(t), q.limit})) = u
    BY Zenon, <1>4, <1>5 DEF l
  <2> HIDE DEF u
  <2>4. m > l <=> n > l
    BY <1>3
  <2>5. PageFrom(q, s).items = u
    BY Zenon, <2>1, <2>2, <2>3
  <2>6. PageFrom(q, s).more <=> n > l
    BY Zenon, <2>1, <2>2, <2>3, <2>4
  <2>7. PageFrom(q, s).next = IF n > l THEN Key(q, t[l]) ELSE None
    <3>1. CASE n > l
      BY Zenon, <2>1, <2>2, <2>3, <2>4, <3>1
    <3>2. CASE ~(n > l)
      BY Zenon, <2>1, <2>2, <2>3, <2>4, <3>2
    <3> QED  BY Zenon, <3>1, <3>2
  <2> QED  BY Zenon, <2>5, <2>6, <2>7
<1>8. n > l => t[l] = s[l]
  <2>1. n > l => l \in 1..m
    BY <1>1, <1>3
  <2> QED  BY Zenon, <1>4, <2>1
<1>9. PageFrom(q, s).next = IF n > l THEN Key(q, s[l]) ELSE None
  BY Zenon, <1>7, <1>8
<1> HIDE DEF u
<1> QED  BY Zenon, <1>3, <1>6, <1>7, <1>9 DEF k, n, l

-----------------------------------------------------------------------------
(* Steps                                                                   *)

\* Every listing is the selected items in order, or refused.
LEMMA ListSelects ==
  ASSUME NEW q \in Queries, NEW cursor, NEW s \in List(q, cursor)
  PROVE  s \in Select(q, cursor)
<1>1. q.listing \in Listings
  BY DEF Queries
<1> QED  BY <1>1 DEF List, listEvents, ListFlows, ListExecutions, SearchEntities, Listings

LEMMA QueryLimit ==
  ASSUME NEW q \in Queries
  PROVE  q.limit \in Nat \ {0} /\ q.listing \in Listings
<1>1. q.limit \in Limits /\ q.listing \in Listings
  BY DEF Queries
<1>2. \A k \in 1..MaxLimit : k \in Nat \ {0}
  OBVIOUS
<1> QED  BY Zenon, <1>1, <1>2, LimitAssumption

\* The page s brings to the client.
PageRecord(q, s) ==
  LET k == IF Len(s) <= q.limit THEN Len(s) ELSE q.limit
  IN  [a \in 1..k |-> [item |-> s[a], key |-> Key(q, s[a])]]

\* A page as NextPage gives it to the client: which items it holds under which keys, and
\* where the next one starts.
LEMMA PageStep ==
  ASSUME row \subseteq Events, NEW q \in Queries, NEW cursor, NEW s \in List(q, cursor)
  PROVE  LET p == PageFrom(q, s)
             k == IF Len(s) <= q.limit THEN Len(s) ELSE q.limit
             page == [a \in DOMAIN p.items |-> [item |-> p.items[a], key |-> Key(q, p.items[a])]]
         IN  /\ Len(s) \in Nat /\ k \in Nat /\ k <= q.limit /\ k <= Len(s)
             /\ page = PageRecord(q, s)
             /\ PageRecord(q, s) \in Seq(Listed) /\ Len(PageRecord(q, s)) = k
             /\ p.more <=> Len(s) > q.limit
             /\ p.next = IF Len(s) > q.limit THEN Key(q, s[q.limit]) ELSE None
             /\ p.next \in Cursor \cup {None}
             /\ \A a \in 1..Len(s) :
                  s[a] \in Items(q) /\ Key(q, s[a]) \in Cursor /\ Beyond(q, Key(q, s[a]), cursor)
<1> DEFINE p == PageFrom(q, s)
           n == Len(s)
           l == q.limit
           k == IF n <= l THEN n ELSE l
           page == [a \in DOMAIN p.items |-> [item |-> p.items[a], key |-> Key(q, p.items[a])]]
           S == Selected(q, cursor)
<1>1. s \in Select(q, cursor)
  BY ListSelects
<1>2. s \in Seq(S) /\ DOMAIN s = 1..n
  BY <1>1, SelectLists
<1>3. n \in Nat /\ l \in Nat \ {0}
  BY <1>2, QueryLimit, LenProperties
<1>4. /\ k \in Nat /\ k <= l /\ k <= n
      /\ DOMAIN p.items = 1..k
      /\ \A a \in 1..k : p.items[a] = s[a]
      /\ p.more <=> n > l
      /\ p.next = IF n > l THEN Key(q, s[l]) ELSE None
  <2> HIDE DEF S
  <2> QED  BY Zenon, <1>2, <1>3, PageItems
<1>5. \A a \in 1..n : s[a] \in Items(q) /\ Beyond(q, Key(q, s[a]), cursor)
  <2>1. \A a \in 1..n : s[a] \in S
    <3> HIDE DEF S
    <3> QED  BY <1>2, ElementOfSeq
  <2> QED  BY Zenon, <2>1 DEF Selected
<1>6. \A a \in 1..n : Key(q, s[a]) \in Cursor /\ \E e \in Events : s[a] = ItemOf(q.listing, e)
  BY Zenon, <1>5, KeyType
<1> HIDE DEF p
<1>7. page = [a \in 1..k |-> [item |-> s[a], key |-> Key(q, s[a])]]
  BY Zenon, <1>4
<1> HIDE DEF page
<1>8. \A a \in 1..k : a \in 1..n
  BY <1>3, <1>4
<1>9. page \in Seq(Listed) /\ Len(page) = k
  <2>1. \A a \in 1..k : [item |-> s[a], key |-> Key(q, s[a])] \in Listed
    BY <1>6, <1>8, QueryLimit DEF Listed
  <2> HIDE DEF k
  <2>2. page \in [1..k -> Listed]
    BY <1>7, <2>1
  <2> QED  BY <1>4, <2>2, SeqDef
<1>10. p.next \in Cursor \cup {None}
  <2>1. n > l => l \in 1..n
    BY <1>3
  <2> QED  BY Zenon, <1>4, <1>6, <2>1
<1>11. page = PageRecord(q, s)
  BY Zenon, <1>7 DEF PageRecord
<1> QED  BY Zenon, <1>3, <1>4, <1>5, <1>6, <1>9, <1>10, <1>11 DEF p, page

\* Of the rows of a page none is beyond its cursor.
LEMMA PageBehind ==
  ASSUME row \subseteq Events, NEW q \in Queries, NEW cursor, NEW s \in List(q, cursor),
         Len(s) > q.limit, NEW a \in 1..q.limit
  PROVE  ~Beyond(q, Key(q, s[a]), Key(q, s[q.limit]))
<1> DEFINE l == q.limit
<1>1. Len(s) \in Nat /\ l \in Nat \ {0}
  BY PageStep, QueryLimit
<1>2. a \in 1..Len(s) /\ l \in 1..Len(s)
  BY <1>1
<1>3. Key(q, s[a]) \in Cursor /\ Key(q, s[l]) \in Cursor
  BY <1>2, PageStep
<1>4. CASE a = l
  BY <1>3, <1>4, BeyondOrder
<1>5. CASE a # l
  <2>1. a < l
    BY <1>1, <1>5
  <2>2. NotAfter(q, Key(q, s[a]), Key(q, s[l]))
    BY <1>2, <2>1, ListSelects, SelectLists
  <2> QED  BY <1>3, <2>2, SortedOrder
<1> QED  BY <1>4, <1>5

\* A selected item that ties with no other is on the page or beyond its cursor.
LEMMA PageCovers ==
  ASSUME row \subseteq Events, NEW q \in Queries, NEW cursor, NEW s \in List(q, cursor),
         NEW i \in Items(q), Alone(q, i), Beyond(q, Key(q, i), cursor)
  PROVE  \/ \E a \in 1..Len(s) : a <= q.limit /\ s[a] = i
         \/ Len(s) > q.limit /\ Beyond(q, Key(q, i), Key(q, s[q.limit]))
<1> DEFINE l == q.limit
<1>1. Len(s) \in Nat /\ l \in Nat \ {0}
  BY PageStep, QueryLimit
<1>2. i \in Selected(q, cursor)
  BY DEF Selected
<1>3. PICK a \in 1..Len(s) : s[a] = i
  BY <1>2, ListSelects, SelectLists
<1>4. CASE a <= l
  BY <1>3, <1>4
<1>5. CASE ~(a <= l)
  <2>1. l \in 1..Len(s) /\ l < a /\ Len(s) > l
    BY <1>1, <1>3, <1>5
  <2>2. NotAfter(q, Key(q, s[l]), Key(q, i))
    BY <1>3, <2>1, ListSelects, SelectLists
  <2>3. s[l] # i
    <3>1. l # a
      BY <1>1, <2>1
    <3>2. s[a] = s[l] => a = l
      BY <2>1, ListSelects, SelectLists
    <3> QED  BY Zenon, <1>3, <3>1, <3>2
  <2>4. s[l] \in Items(q) /\ Key(q, s[l]) \in Cursor
    BY <2>1, PageStep
  <2>5. PICK e \in q.where : /\ s[l] = ItemOf(q.listing, e) /\ s[l] # None
                             /\ Key(q, s[l])[1] = Time[e]
    BY Zenon, <2>4, KeyTime
  <2>6. ~(/\ Key(q, s[l])[1] = Key(q, i)[1]
          /\ IDOf(q.listing, s[l]) = IDOf(q.listing, i))
    <3>1. ItemOf(q.listing, e) \notin {i, None}
      BY Zenon, <2>3, <2>5
    <3> QED  BY Zenon, <2>5, <3>1 DEF Alone
  <2>7. Key(q, s[l]) # Key(q, i)
    <3>1. Key(q, s[l])[2] = IDOf(q.listing, s[l]) /\ Key(q, i)[2] = IDOf(q.listing, i)
      BY DEF Key
    <3> QED  BY Zenon, <2>6, <3>1
  <2>8. Key(q, i) \in Cursor
    BY KeyType
  <2>9. Beyond(q, Key(q, i), Key(q, s[l]))
    BY <2>2, <2>4, <2>7, <2>8, SortedOrder
  <2> QED  BY <2>1, <2>9
<1> QED  BY <1>4, <1>5

\* StatusOf, as a function of the rows.
NewestStatus(R) ==
  LET told == {e \in R : Status[e] # None}
  IN IF told = {} THEN None
     ELSE Status[CHOOSE e \in told : \A f \in told \ {e} : Before(<<Time[f], f>>, <<Time[e], e>>)]

\* A step that leaves the rows and the query alone leaves the listing alone.
LEMMA SameRows ==
  ASSUME row' = row, walk'.query = walk.query
  PROVE  /\ Items(walk.query)' = Items(walk.query)
         /\ \A i : Key(walk.query, i)' = Key(walk.query, i)
<1>1. \A i : Rows(walk.query, i)' = Rows(walk.query, i)
  BY DEF Rows
<1>2. \A i : Key(walk.query, i)' = Key(walk.query, i)
  BY <1>1 DEF Key
<1>3. \A i : StatusOf(walk.query, i)' = StatusOf(walk.query, i)
  <2>1. \A i : /\ StatusOf(walk.query, i) = NewestStatus(Rows(walk.query, i))
               /\ StatusOf(walk.query, i)' = NewestStatus(Rows(walk.query, i)')
    BY Zenon DEF StatusOf, NewestStatus
  <2> QED  BY Zenon, <1>1, <2>1
<1>4. Items(walk.query)' = Items(walk.query)
  BY <1>3 DEF Items
<1> QED  BY <1>2, <1>4

-----------------------------------------------------------------------------
(* The invariant                                                           *)

LEMMA InitIInv ==
  ASSUME Init
  PROVE  IInv
<1>1. walk = NoWalk /\ walk.pc = "idle" /\ seen = {} /\ steady = {} /\ row \subseteq Events
  BY DEF Init, NoWalk
<1>2. Shapes
  BY <1>1 DEF Shapes
<1> QED  BY <1>1, <1>2 DEF IInv, Behind, Covered, NothingSkipped

LEMMA BeginIInv ==
  ASSUME IInv, NEW q \in Queries, Begin(q)
  PROVE  IInv'
<1>1. walk' = [pc |-> "paging", query |-> q, cursor |-> None, page |-> <<>>, pages |-> 0]
  BY DEF Begin
<1>2. walk'.pc = "paging" /\ walk'.query = q /\ walk'.cursor = None /\ walk'.page = <<>>
  BY <1>1
<1>3. seen' = {} /\ row' = row /\ row \subseteq Events
  BY DEF Begin, IInv, Shapes
<1>4. Shapes'
  <2>1. /\ <<>> \in Seq(Listed) /\ Len(<<>>) = 0 /\ Range(<<>>) = {}
    BY DEF Range
  <2>2. walk' \in [pc : {"paging", "done", "failed"}, query : Queries,
                   cursor : Cursor \cup {None}, page : Seq(Listed), pages : Nat]
    BY <1>1, <2>1
  <2>3. 0 <= q.limit
    BY QueryLimit
  <2> QED  BY Zenon, <1>2, <1>3, <2>1, <2>2, <2>3 DEF Shapes
<1>5. Behind'
  BY <1>3 DEF Behind
<1>6. Covered'
  <2>1. steady' = Items(q) /\ Items(walk.query)' = Items(q)
    <3>1. \A i : StatusOf(walk.query, i)' = StatusOf(q, i)
      <4>1. \A i : Rows(walk.query, i)' = Rows(q, i)
        BY <1>2, <1>3 DEF Rows
      <4>2. \A i : /\ StatusOf(q, i) = NewestStatus(Rows(q, i))
                   /\ StatusOf(walk.query, i)' = NewestStatus(Rows(walk.query, i)')
        BY Zenon DEF StatusOf, NewestStatus
      <4> QED  BY Zenon, <4>1, <4>2
    <3>2. Items(walk.query)' = Items(q)
      BY <1>2, <1>3, <3>1 DEF Items
    <3> QED  BY <3>2 DEF Begin
  <2>2. \A i : Beyond(walk'.query, Key(walk.query, i)', walk'.cursor)
    BY <1>2 DEF Beyond
  <2> QED  BY Zenon, <2>1, <2>2 DEF Covered
<1>7. NothingSkipped'
  BY <1>2 DEF NothingSkipped
<1> QED  BY <1>4, <1>5, <1>6, <1>7 DEF IInv

\* An item that keeps its key ties with what it tied with.
LEMMA SameAlone ==
  ASSUME walk'.query = walk.query, NEW i, Key(walk.query, i)' = Key(walk.query, i)
  PROVE  Alone(walk.query, i)' <=> Alone(walk.query, i)
BY Zenon DEF Alone

\* Events that come or go move items away; those that stay keep their key.
LEMMA RowsIInv ==
  ASSUME IInv, row' \subseteq Events, UNCHANGED <<walk, seen>>, Steady
  PROVE  IInv'
<1>1. Shapes'
  <2>1. walk = NoWalk => steady' = steady
    BY DEF Steady, NoWalk
  <2> QED  BY Zenon, <2>1 DEF IInv, Shapes
<1>2. Behind'
  BY Zenon DEF IInv, Behind
<1>3. Covered'
  <2>1. SUFFICES ASSUME walk.pc = "paging", NEW i \in steady'
                 PROVE  /\ i \in Items(walk.query)'
                        /\ Alone(walk.query, i)' =>
                             \/ \E x \in seen : x.item = i
                             \/ Beyond(walk.query, Key(walk.query, i)', walk.cursor)
    BY Zenon DEF Covered
  <2>2. i \in steady /\ Same(i)
    BY <2>1 DEF Steady
  <2>3. i \in Items(walk.query)' /\ Key(walk.query, i)' = Key(walk.query, i)
    BY Zenon, <2>2 DEF Same
  <2>4. Alone(walk.query, i)' => Alone(walk.query, i)
    BY Zenon, <2>3, SameAlone
  <2> QED  BY Zenon, <2>1, <2>2, <2>3, <2>4 DEF IInv, Covered
<1>4. NothingSkipped'
  <2>1. SUFFICES ASSUME walk.pc = "done", NEW i \in steady', Alone(walk.query, i)'
                 PROVE  \E x \in seen : x.item = i
    BY Zenon DEF NothingSkipped
  <2>2. i \in steady /\ Same(i)
    BY <2>1 DEF Steady
  <2>3. Alone(walk.query, i)
    BY Zenon, <2>1, <2>2, SameAlone DEF Same
  <2> QED  BY Zenon, <2>1, <2>2, <2>3 DEF IInv, NothingSkipped
<1> QED  BY <1>1, <1>2, <1>3, <1>4 DEF IInv

\* The two outcomes of a request, field by field.
LEMMA NextPageFields ==
  ASSUME Shapes, NextPage
  PROVE  /\ walk.pc = "paging" /\ walk.query \in Queries /\ walk.cursor \in Cursor \cup {None}
         /\ row' = row /\ steady' = steady /\ row \subseteq Events
         /\ walk'.query = walk.query
         /\ walk' \in [pc : {"paging", "done", "failed"}, query : Queries,
                       cursor : Cursor \cup {None}, page : Seq(Listed), pages : Nat]
         /\ \/ walk'.pc = "failed" /\ walk'.page = <<>> /\ seen' = seen
            \/ \E s \in List(walk.query, walk.cursor) :
                 /\ walk'.pc = IF Len(s) > walk.query.limit THEN "paging" ELSE "done"
                 /\ walk'.cursor = IF Len(s) > walk.query.limit
                                   THEN Key(walk.query, s[walk.query.limit]) ELSE None
                 /\ walk'.page = PageRecord(walk.query, s)
                 /\ seen' = seen \cup Range(walk'.page)
<1> DEFINE q == walk.query
           W == [pc : {"paging", "done", "failed"}, query : Queries,
                 cursor : Cursor \cup {None}, page : Seq(Listed), pages : Nat]
<1>1. walk.pc = "paging" /\ row' = row /\ steady' = steady /\ row \subseteq Events
  BY DEF NextPage, Shapes
<1>2. walk \in W
  BY <1>1 DEF Shapes, NoWalk
<1>3. q \in Queries /\ walk.cursor \in Cursor \cup {None}
  BY <1>2
<1>4. CASE /\ walk' = [walk EXCEPT !.pc = "failed", !.page = <<>>]
           /\ UNCHANGED seen
  <2>1. walk'.query = q /\ walk'.pc = "failed" /\ walk'.page = <<>>
    BY <1>2, <1>4
  <2>2. walk' \in W
    <3>1. <<>> \in Seq(Listed)
      OBVIOUS
    <3> QED  BY <1>2, <1>4, <3>1
  <2> QED  BY Zenon, <1>1, <1>3, <1>4, <2>1, <2>2
<1>5. ASSUME NEW s \in List(q, walk.cursor),
             LET p == makePage(q, SubSeq(s, 1, Min({Len(s), q.limit + 1}))) IN
             /\ walk' = [walk EXCEPT
                  !.pc = IF p.more THEN "paging" ELSE "done",
                  !.cursor = p.next,
                  !.pages = @ + 1,
                  !.page = [a \in DOMAIN p.items |-> [item |-> p.items[a], key |-> Key(q, p.items[a])]]]
             /\ seen' = seen \cup Range(walk'.page)
      PROVE  /\ walk'.query = q /\ walk' \in W
             /\ walk'.pc = IF Len(s) > q.limit THEN "paging" ELSE "done"
             /\ walk'.cursor = IF Len(s) > q.limit THEN Key(q, s[q.limit]) ELSE None
             /\ walk'.page = PageRecord(q, s)
             /\ seen' = seen \cup Range(walk'.page)
  <2> DEFINE p == PageFrom(q, s)
             page == [a \in DOMAIN p.items |-> [item |-> p.items[a], key |-> Key(q, p.items[a])]]
  <2>1. /\ page = PageRecord(q, s) /\ PageRecord(q, s) \in Seq(Listed)
        /\ p.more <=> Len(s) > q.limit
        /\ p.next = IF Len(s) > q.limit THEN Key(q, s[q.limit]) ELSE None
        /\ p.next \in Cursor \cup {None}
    BY <1>1, <1>3, PageStep
  <2>2. /\ walk' = [walk EXCEPT !.pc = IF p.more THEN "paging" ELSE "done",
                                !.cursor = p.next, !.pages = @ + 1, !.page = page]
        /\ seen' = seen \cup Range(walk'.page)
    BY Zenon, <1>5 DEF PageFrom
  <2> HIDE DEF p, page
  <2>3. /\ walk'.pc = (IF p.more THEN "paging" ELSE "done") /\ walk'.cursor = p.next
        /\ walk'.page = page /\ walk'.query = q
    BY <1>2, <2>2
  <2>4. walk' \in W
    <3>1. walk.pages + 1 \in Nat
      BY <1>2
    <3> DEFINE n == walk.pages + 1
               pc == IF p.more THEN "paging" ELSE "done"
    <3>2. walk' = [walk EXCEPT !.pc = pc, !.cursor = p.next, !.pages = n, !.page = page]
      BY <2>2
    <3>3. pc \in {"paging", "done", "failed"} /\ page \in Seq(Listed) /\ n \in Nat
      BY <2>1, <3>1
    <3> HIDE DEF n, pc
    <3> QED  BY <1>2, <2>1, <3>2, <3>3
  <2> QED  BY Zenon, <2>1, <2>2, <2>3, <2>4
<1>6. \/ /\ walk' = [walk EXCEPT !.pc = "failed", !.page = <<>>]
         /\ UNCHANGED seen
      \/ \E s \in List(q, walk.cursor) :
             LET p == makePage(q, SubSeq(s, 1, Min({Len(s), q.limit + 1}))) IN
             /\ walk' = [walk EXCEPT
                  !.pc = IF p.more THEN "paging" ELSE "done",
                  !.cursor = p.next,
                  !.pages = @ + 1,
                  !.page = [a \in DOMAIN p.items |-> [item |-> p.items[a], key |-> Key(q, p.items[a])]]]
             /\ seen' = seen \cup Range(walk'.page)
  BY Zenon DEF NextPage
<1> QED  BY Zenon, <1>1, <1>3, <1>4, <1>5, <1>6

\* What PageRecord holds.
LEMMA PageRecordItems ==
  ASSUME row \subseteq Events, NEW q \in Queries, NEW cursor, NEW s \in List(q, cursor)
  PROVE  /\ Len(PageRecord(q, s)) <= q.limit
         /\ Range(PageRecord(q, s)) \subseteq Listed
         /\ \A x \in Range(PageRecord(q, s)) :
              \E a \in 1..Len(s) : a \in 1..q.limit /\ x.item = s[a] /\ x.key = Key(q, s[a])
         /\ \A a \in 1..Len(s) : a <= q.limit =>
              \E x \in Range(PageRecord(q, s)) : x.item = s[a]
<1> DEFINE page == PageRecord(q, s)
           k == IF Len(s) <= q.limit THEN Len(s) ELSE q.limit
<1>1. /\ Len(s) \in Nat /\ k \in Nat /\ k <= q.limit /\ k <= Len(s)
      /\ page \in Seq(Listed) /\ Len(page) = k
  BY PageStep
<1>2. page = [a \in 1..k |-> [item |-> s[a], key |-> Key(q, s[a])]]
  BY Zenon DEF PageRecord
<1>3. q.limit \in Nat
  BY QueryLimit
<1>4. \A a \in 1..k : a \in 1..Len(s) /\ a \in 1..q.limit
  BY <1>1, <1>3
<1>5. \A a \in 1..Len(s) : a <= q.limit => a \in 1..k
  BY <1>1, <1>3
<1> HIDE DEF page, k
<1>6. /\ DOMAIN page = 1..k
      /\ \A a \in 1..k : page[a].item = s[a] /\ page[a].key = Key(q, s[a])
  BY <1>2
<1>7. \A x \in Range(page) : \E a \in 1..k : x = page[a]
  BY Zenon, <1>6 DEF Range
<1>8. \A a \in 1..k : page[a] \in Range(page)
  BY Zenon, <1>6 DEF Range
<1>9. Range(page) \subseteq Listed
  <2>1. \A a \in 1..k : page[a] \in Listed
    BY <1>1, ElementOfSeq
  <2> QED  BY Zenon, <1>7, <2>1
<1>10. \A x \in Range(page) :
         \E a \in 1..Len(s) : a \in 1..q.limit /\ x.item = s[a] /\ x.key = Key(q, s[a])
  <2>1. ASSUME NEW x \in Range(page)
        PROVE  \E a \in 1..Len(s) : a \in 1..q.limit /\ x.item = s[a] /\ x.key = Key(q, s[a])
    <3>1. PICK a \in 1..k : x = page[a]
      BY Zenon, <1>7
    <3>2. x.item = s[a] /\ x.key = Key(q, s[a])
      BY Zenon, <1>6, <3>1
    <3>3. a \in 1..Len(s) /\ a \in 1..q.limit
      BY Zenon, <1>4
    <3> QED  BY Zenon, <3>2, <3>3
  <2> QED  BY Zenon, <2>1
<1>11. \A a \in 1..Len(s) : a <= q.limit => \E x \in Range(page) : x.item = s[a]
  BY Zenon, <1>5, <1>6, <1>8
<1> QED  BY Zenon, <1>1, <1>9, <1>10, <1>11 DEF page

LEMMA NextPageIInv ==
  ASSUME IInv, NextPage
  PROVE  IInv'
<1> DEFINE q == walk.query
           W == [pc : {"paging", "done", "failed"}, query : Queries,
                 cursor : Cursor \cup {None}, page : Seq(Listed), pages : Nat]
<1>0. Shapes /\ Behind /\ Covered
  BY DEF IInv
<1>1. /\ walk.pc = "paging" /\ q \in Queries /\ walk.cursor \in Cursor \cup {None}
      /\ row' = row /\ steady' = steady /\ row \subseteq Events
      /\ walk'.query = q /\ walk' \in W
  BY Zenon, <1>0, NextPageFields
<1>2. /\ Items(walk.query)' = Items(q)
      /\ \A i : Key(walk.query, i)' = Key(q, i)
  BY Zenon, <1>1, SameRows
<1>3. CASE walk'.pc = "failed" /\ walk'.page = <<>> /\ seen' = seen
  <2>1. Len(<<>>) = 0 /\ Range(<<>>) = {} /\ 0 <= q.limit
    BY <1>1, QueryLimit DEF Range
  <2>2. Shapes'
    BY Zenon, <1>0, <1>1, <1>3, <2>1 DEF Shapes
  <2> QED  BY <1>3, <2>2 DEF IInv, Behind, Covered, NothingSkipped
<1>4. ASSUME NEW s \in List(q, walk.cursor),
             walk'.pc = IF Len(s) > q.limit THEN "paging" ELSE "done",
             walk'.cursor = IF Len(s) > q.limit THEN Key(q, s[q.limit]) ELSE None,
             walk'.page = PageRecord(q, s),
             seen' = seen \cup Range(walk'.page)
      PROVE  IInv'
  <2> DEFINE page == PageRecord(q, s)
  <2>1. /\ Len(page) <= q.limit /\ Range(page) \subseteq Listed
        /\ \A x \in Range(page) :
             \E a \in 1..Len(s) : a \in 1..q.limit /\ x.item = s[a] /\ x.key = Key(q, s[a])
        /\ \A a \in 1..Len(s) : a <= q.limit => \E x \in Range(page) : x.item = s[a]
    BY <1>1, PageRecordItems
  <2> HIDE DEF page
  <2>2. walk'.page = page /\ seen' = seen \cup Range(page)
    BY Zenon, <1>4 DEF page
  <2>3. Shapes'
    <3>1. seen \subseteq Listed
      BY <1>0 DEF Shapes
    <3>2. seen' \subseteq Listed /\ Range(page) \subseteq seen'
      BY <2>1, <2>2, <3>1
    <3> QED  BY Zenon, <1>1, <2>1, <2>2, <3>2 DEF Shapes
  <2>4. Behind'
    <3>1. SUFFICES ASSUME walk'.pc = "paging", NEW x \in seen'
                   PROVE  ~Beyond(q, x.key, walk'.cursor)
      BY Zenon, <1>1 DEF Behind
    <3>2. Len(s) > q.limit /\ walk'.cursor = Key(q, s[q.limit])
      BY <1>4, <3>1
    <3>3. CASE x \in Range(page)
      BY <1>1, <2>1, <3>2, <3>3, PageBehind
    <3>4. CASE x \in seen
      <4>1. x.key \in Cursor
        BY <1>0, <3>4 DEF Shapes, Listed
      <4>2. ~Beyond(q, x.key, walk.cursor)
        BY Zenon, <1>0, <1>1, <3>4 DEF Behind
      <4>3. walk.cursor \in Cursor
        BY <1>1, <4>2 DEF Beyond
      <4>4. Key(q, s[q.limit]) \in Cursor /\ Beyond(q, Key(q, s[q.limit]), walk.cursor)
        <5>1. Len(s) \in Nat /\ q.limit \in Nat \ {0}
          BY <1>1, PageStep, QueryLimit
        <5>2. q.limit \in 1..Len(s)
          BY <3>2, <5>1
        <5> QED  BY <1>1, <5>2, PageStep
      <4> DEFINE c == walk.cursor
                 d == Key(q, s[q.limit])
                 y == x.key
      <4> HIDE DEF q, c, d, y
      <4>5. ~(Beyond(q, y, d) /\ Beyond(q, d, c)) \/ Beyond(q, y, c)
        BY <4>1, <4>3, <4>4, BeyondOrder DEF c, d, y
      <4> QED  BY Zenon, <3>2, <4>2, <4>4, <4>5 DEF c, d, y
    <3> QED  BY <2>2, <3>3, <3>4
  <2>5. ASSUME NEW i \in steady, Alone(q, i)
        PROVE  \/ \E x \in seen' : x.item = i
               \/ Len(s) > q.limit /\ Beyond(q, Key(q, i), Key(q, s[q.limit]))
    <3>1. i \in Items(q)
      BY Zenon, <1>0, <1>1 DEF Covered
    <3>2. CASE \E x \in seen : x.item = i
      BY Zenon, <2>2, <3>2
    <3>3. CASE Beyond(q, Key(q, i), walk.cursor)
      <4>1. \/ \E a \in 1..Len(s) : a <= q.limit /\ s[a] = i
            \/ Len(s) > q.limit /\ Beyond(q, Key(q, i), Key(q, s[q.limit]))
        BY <1>1, <2>5, <3>1, <3>3, PageCovers
      <4> QED  BY Zenon, <2>1, <2>2, <4>1
    <3> QED  BY Zenon, <1>0, <1>1, <2>5, <3>2, <3>3 DEF Covered
  <2>6. Covered'
    <3>1. SUFFICES ASSUME walk'.pc = "paging", NEW i \in steady
                   PROVE  /\ i \in Items(q)
                          /\ Alone(q, i) =>
                               \/ \E x \in seen' : x.item = i
                               \/ Beyond(q, Key(q, i), walk'.cursor)
      BY Zenon, <1>1, <1>2, SameAlone DEF Covered
    <3>2. walk'.cursor = Key(q, s[q.limit])
      BY <1>4, <3>1
    <3>3. i \in Items(q)
      BY Zenon, <1>0, <1>1 DEF Covered
    <3> QED  BY Zenon, <2>5, <3>2, <3>3
  <2>7. NothingSkipped'
    <3>1. SUFFICES ASSUME walk'.pc = "done", NEW i \in steady, Alone(q, i)
                   PROVE  \E x \in seen' : x.item = i
      BY Zenon, <1>1, <1>2, SameAlone DEF NothingSkipped
    <3>2. ~(Len(s) > q.limit)
      BY <1>4, <3>1
    <3> QED  BY Zenon, <2>5, <3>1, <3>2
  <2> QED  BY <2>3, <2>4, <2>6, <2>7 DEF IInv
<1>5. \/ walk'.pc = "failed" /\ walk'.page = <<>> /\ seen' = seen
      \/ \E s \in List(q, walk.cursor) :
           /\ walk'.pc = IF Len(s) > q.limit THEN "paging" ELSE "done"
           /\ walk'.cursor = IF Len(s) > q.limit THEN Key(q, s[q.limit]) ELSE None
           /\ walk'.page = PageRecord(q, s)
           /\ seen' = seen \cup Range(walk'.page)
  BY Zenon, <1>0, NextPageFields
<1> QED  BY Zenon, <1>3, <1>4, <1>5

LEMMA NextIInv ==
  ASSUME IInv, [Next]_vars
  PROVE  IInv'
<1>1. ASSUME NEW q \in Queries, Begin(q) PROVE IInv'
  BY <1>1, BeginIInv
<1>2. CASE NextPage
  BY <1>2, NextPageIInv
<1>3. ASSUME NEW e \in Events, Ingest(e) \/ Delete(e) PROVE IInv'
  <2>1. row' \subseteq Events /\ UNCHANGED <<walk, seen>> /\ Steady
    BY <1>3 DEF Ingest, Delete, IInv, Shapes
  <2> QED  BY <2>1, RowsIInv
<1>4. CASE UNCHANGED vars
  <2>1. /\ walk' = walk /\ seen' = seen /\ steady' = steady /\ row' = row
        /\ walk'.query = walk.query
    BY <1>4 DEF vars
  <2>2. Items(walk.query)' = Items(walk.query) /\ \A i : Key(walk.query, i)' = Key(walk.query, i)
    BY <2>1, SameRows
  <2>3. Shapes' /\ Behind'
    BY Zenon, <2>1 DEF IInv, Shapes, Behind
  <2>4. Covered' /\ NothingSkipped'
    BY Zenon, <2>1, <2>2, SameAlone DEF IInv, Covered, NothingSkipped
  <2> QED  BY <2>3, <2>4 DEF IInv
<1> QED  BY <1>1, <1>2, <1>3, <1>4 DEF Next

LEMMA Invariant == Spec => []IInv
<1> QED  BY InitIInv, NextIInv, PTL DEF Spec

\* A page never exceeds the limit asked for (makePage), and the client holds nothing that
\* was not listed, for every set of events, grouping and query.
THEOREM TypesOK == Spec => []TypeOK
<1>1. IInv => TypeOK
  <2>1. SUFFICES ASSUME Shapes PROVE TypeOK
    BY DEF IInv
  <2>2. CASE walk = NoWalk
    <3>1. walk.pc = "idle" /\ Range(walk.page) = {}
      BY <2>2 DEF NoWalk, Range
    <3> QED  BY <2>1, <3>1 DEF TypeOK, Shapes
  <2>3. CASE walk # NoWalk
    BY <2>1, <2>3 DEF TypeOK, Shapes
  <2> QED  BY <2>2, <2>3
<1> QED  BY <1>1, Invariant, PTL

\* A walk that comes to its last page has listed every item with an ID of its own that kept
\* its key all the while: for every history of inserts and deletes between the pages, every
\* filter, order and page size (the cursor conditions and makePage).
THEOREM NothingIsSkipped == Spec => []NothingSkipped
<1>1. IInv => NothingSkipped
  BY DEF IInv
<1> QED  BY <1>1, Invariant, PTL

\* The step behind InOrder: a new page starts beyond the cursor, everything listed is not
\* beyond it, and the rows of the page are sorted and distinct.
LEMMA PageInOrder ==
  ASSUME IInv, NextPage, NEW b \in DOMAIN walk'.page
  PROVE  /\ \A x \in seen : Follows(x, walk'.page[b])
         /\ \A a \in 1..(b - 1) : Follows(walk'.page[a], walk'.page[b])
<1> DEFINE q == walk.query
           new == walk'.page
<1>0. Shapes /\ Behind
  BY DEF IInv
<1>1. /\ walk.pc = "paging" /\ q \in Queries /\ walk.cursor \in Cursor \cup {None}
      /\ row \subseteq Events
  BY Zenon, <1>0, NextPageFields
<1>2. CASE new = <<>>
  BY <1>2
<1>3. ASSUME NEW s \in List(q, walk.cursor), new = PageRecord(q, s)
      PROVE  /\ \A x \in seen : Follows(x, new[b])
             /\ \A a \in 1..(b - 1) : Follows(new[a], new[b])
  <2> DEFINE k == IF Len(s) <= q.limit THEN Len(s) ELSE q.limit
  <2>1. new = [a \in 1..k |-> [item |-> s[a], key |-> Key(q, s[a])]]
    BY Zenon, <1>3 DEF PageRecord
  <2>2. Len(s) \in Nat /\ k \in Nat /\ k <= Len(s)
    BY <1>1, PageStep
  <2>3. \A a \in 1..k : a \in 1..Len(s)
    BY <2>2
  <2>4. /\ DOMAIN new = 1..k
        /\ \A a \in 1..k : new[a].item = s[a] /\ new[a].key = Key(q, s[a])
    <3> HIDE DEF k, new
    <3> QED  BY <2>1
  <2>5. b \in 1..k /\ b \in 1..Len(s)
    BY Zenon, <2>3, <2>4
  <2>6. Key(q, s[b]) \in Cursor /\ Beyond(q, Key(q, s[b]), walk.cursor)
    BY <1>1, <2>5, PageStep
  <2>7. ASSUME NEW x \in seen
        PROVE  Follows(x, new[b])
    <3>1. x.key \in Cursor
      BY <1>0 DEF Shapes, Listed
    <3>2. ~Beyond(q, x.key, walk.cursor)
      BY Zenon, <1>0, <1>1 DEF Behind
    <3>3. walk.cursor \in Cursor
      BY <1>1, <3>2 DEF Beyond
    <3>4. Beyond(q, Key(q, s[b]), x.key)
      BY <2>6, <3>1, <3>2, <3>3, BeyondOrder
    <3>5. x.key # None
      BY <3>1, NoneAssumption DEF Cursor
    <3> QED  BY Zenon, <2>4, <2>5, <3>4, <3>5 DEF Follows, After, Beyond
  <2>8. ASSUME NEW a \in 1..(b - 1)
        PROVE  Follows(new[a], new[b])
    <3>1. a \in 1..k /\ a \in 1..Len(s) /\ a < b
      BY <2>2, <2>5
    <3>2. Key(q, s[a]) \in Cursor
      BY <1>1, <3>1, PageStep
    <3>3. NotAfter(q, Key(q, s[a]), Key(q, s[b]))
      BY <1>1, <2>5, <3>1, ListSelects, SelectLists
    <3>4. Beyond(q, Key(q, s[b]), Key(q, s[a])) \/ Key(q, s[a]) = Key(q, s[b])
      BY <2>6, <3>2, <3>3, SortedOrder
    <3>5. s[a] # s[b]
      <4>1. a # b
        BY <3>1, <2>5
      <4>2. s[a] = s[b] => a = b
        BY <1>1, <2>5, <3>1, ListSelects, SelectLists
      <4> QED  BY <4>1, <4>2
    <3>6. Key(q, s[a]) # None
      BY <3>2, NoneAssumption DEF Cursor
    <3> QED  BY Zenon, <2>4, <2>5, <3>1, <3>4, <3>5, <3>6 DEF Follows, After, Beyond
  <2> QED  BY <2>7, <2>8
<1>4. new = <<>> \/ \E s \in List(q, walk.cursor) : new = PageRecord(q, s)
  BY Zenon, <1>0, NextPageFields
<1> QED  BY Zenon, <1>2, <1>3, <1>4

\* However events come and go between the pages of a walk, it never turns back and never
\* lists an item twice under the same key: the cursor of makePage separates what was listed
\* from what is to come.
THEOREM WalkInOrder == Spec => InOrder
<1>1. ASSUME IInv, [Next]_vars
      PROVE  [walk'.pages # walk.pages =>
                \A b \in DOMAIN walk'.page :
                  /\ \A x \in seen : Follows(x, walk'.page[b])
                  /\ \A a \in 1..(b - 1) : Follows(walk'.page[a], walk'.page[b])]_vars
  <2>1. CASE NextPage
    BY Zenon, <1>1, <2>1, PageInOrder
  <2>2. ASSUME NEW q \in Queries, Begin(q) PROVE walk'.page = <<>>
    BY <2>2 DEF Begin
  <2>3. CASE UNCHANGED walk
    BY Zenon, <2>3
  <2>4. NextPage \/ UNCHANGED walk \/ \E q \in Queries : Begin(q)
    BY Zenon, <1>1 DEF Next, Ingest, Delete, vars
  <2>5. CASE \E q \in Queries : Begin(q)
    <3>1. walk'.page = <<>> /\ DOMAIN <<>> = {}
      BY <2>2, <2>5
    <3> QED  BY Zenon, <3>1
  <2> QED  BY Zenon, <2>1, <2>3, <2>4, <2>5
<1> QED  BY <1>1, Invariant, PTL DEF Spec, InOrder

\* next_cursor is never the cursor the page was asked for with, nor one before it, whatever
\* is inserted or deleted meanwhile: makePage keeps the key of the last row it returns, not
\* of the row it looked ahead to, and that row is beyond the cursor.
THEOREM CursorMovesOn == Spec => CursorAdvances
<1> DEFINE A == walk'.pages # walk.pages /\ walk'.pc = "paging" =>
                  /\ walk'.cursor # None
                  /\ walk.cursor # None => After(walk.cursor, walk'.cursor)
           q == walk.query
<1>1. ASSUME IInv, [Next]_vars
      PROVE  A
  <2>0. Shapes
    BY <1>1 DEF IInv
  <2>1. ASSUME NextPage, walk'.pc = "paging"
        PROVE  /\ walk'.cursor # None
               /\ walk.cursor # None => After(walk.cursor, walk'.cursor)
    <3>1. q \in Queries /\ row \subseteq Events
      BY Zenon, <2>0, <2>1, NextPageFields
    <3>2. PICK s \in List(q, walk.cursor) :
            /\ walk'.pc = IF Len(s) > q.limit THEN "paging" ELSE "done"
            /\ walk'.cursor = IF Len(s) > q.limit THEN Key(q, s[q.limit]) ELSE None
      <4>1. walk'.pc # "failed"
        BY <2>1
      <4> QED  BY Zenon, <2>0, <2>1, <4>1, NextPageFields
    <3>3. Len(s) > q.limit /\ walk'.cursor = Key(q, s[q.limit])
      BY <2>1, <3>2
    <3>4. Len(s) \in Nat /\ q.limit \in Nat \ {0}
      BY <3>1, PageStep, QueryLimit
    <3>5. q.limit \in 1..Len(s)
      BY <3>3, <3>4
    <3>6. walk'.cursor \in Cursor /\ Beyond(q, walk'.cursor, walk.cursor)
      BY <3>1, <3>3, <3>5, PageStep
    <3>7. walk'.cursor # None
      BY <3>6, NoneAssumption DEF Cursor
    <3> QED  BY Zenon, <3>6, <3>7 DEF Beyond, After
  <2>2. ASSUME NEW r \in Queries, Begin(r) PROVE walk'.pages = walk.pages
    BY <2>0, <2>2 DEF Begin, Shapes, NoWalk
  <2>3. NextPage \/ UNCHANGED walk \/ \E r \in Queries : Begin(r)
    BY Zenon, <1>1 DEF Next, Ingest, Delete, vars
  <2> QED  BY Zenon, <2>1, <2>2, <2>3
<1>2. ASSUME IInv, [Next]_vars
      PROVE  [A]_vars
  BY Zenon, <1>1, <1>2
<1> QED  BY <1>2, Invariant, PTL DEF Spec, CursorAdvances

=============================================================================
