------------------------------ MODULE Explorer ------------------------------
(***************************************************************************)
(* A client of the Explorer API walks through a listing of the PostgreSQL  *)
(* store, page after page, while the ingestor adds events and retention    *)
(* deletes them.  There is no snapshot over a walk: a page starts behind   *)
(* the cursor of the page before it, the (time, ID) of its last item.      *)
(* Events are listed as they are; flows, executions and entities are       *)
(* groups of events, and the time of a group is that of its first event.   *)
(***************************************************************************)
EXTENDS Integers, Sequences, FiniteSets, FiniteSetsExt, Functions

CONSTANTS
  N,          \* events 1..N, whose IDs order them
  Time,       \* [event -> event_time]
  Group,      \* [listing -> [event -> the group it belongs to, or None]]
  GroupID,    \* [listing -> [group -> the ID in its cursor]]
  Status,     \* [event -> flow_status and execution_status, or None]
  Where,      \* sets of events that the filters of a query may select
  Statuses,   \* status filters, None included
  Limits,     \* page sizes a client asks for
  None

Events == 1..N
Listings == {"events", "flows", "executions", "entities"}
MaxLimit == 500

ASSUME NAssumption == N \in Nat
ASSUME TimeAssumption == Time \in [Events -> Int]
ASSUME IDAssumption ==
  \A l \in Listings \ {"events"} : \A e \in Events :
    Group[l][e] # None => GroupID[l][Group[l][e]] \in Int
ASSUME WhereAssumption == Where \subseteq SUBSET Events
ASSUME LimitAssumption == Limits \subseteq 1..MaxLimit
ASSUME NoneAssumption == None \notin Int \X Int

VARIABLES
  row,      \* trail_events
  walk,     \* the client: its query, its cursor, the page it got last and how many it got
  seen,     \* what the walk has listed, with its keys
  steady    \* history: items whose listing has not changed since the walk began

vars == <<row, walk, seen, steady>>

Before(a, b) == a[1] < b[1] \/ (a[1] = b[1] /\ a[2] < b[2])

-----------------------------------------------------------------------------
(* Queries                                                                 *)

\* An event is its own item and carries its own ID.
ItemOf(l, e) == IF l = "events" THEN e ELSE Group[l][e]
IDOf(l, i) == IF l = "events" THEN i ELSE GroupID[l][i]

\* The rows the WHERE clause leaves to the item i.
Rows(q, i) == {e \in row \cap q.where : ItemOf(q.listing, e) = i}

Key(q, i) == <<Min({Time[e] : e \in Rows(q, i)}), IDOf(q.listing, i)>>

\* The newest status of a group.
StatusOf(q, i) ==
  LET told == {e \in Rows(q, i) : Status[e] # None}
  IN IF told = {} THEN None
     ELSE Status[CHOOSE e \in told : \A f \in told \ {e} : Before(<<Time[f], f>>, <<Time[e], e>>)]

Items(q) ==
  {i \in {ItemOf(q.listing, e) : e \in row \cap q.where} \ {None} :
     q.status # None => StatusOf(q, i) = q.status}

Beyond_Inclusive(q, key, cursor) ==
  \/ cursor = None
  \/ IF q.desc THEN ~Before(cursor, key) ELSE ~Before(key, cursor)

Beyond(q, key, cursor) ==
  \/ cursor = None
  \/ IF q.desc THEN Before(key, cursor) ELSE Before(cursor, key)

\* ORDER BY time, ID: rows with equal keys come in any order.
OrderBy(q, S) ==
  {s \in Bijection(1..Cardinality(S), S) :
     \A a, b \in DOMAIN s : a < b =>
       IF q.desc THEN ~Before(Key(q, s[a]), Key(q, s[b])) ELSE ~Before(Key(q, s[b]), Key(q, s[a]))}

Select(q, cursor) == OrderBy(q, {i \in Items(q) : Beyond(q, Key(q, i), cursor)})

\* paginateGrouped adds its own HAVING to that of the status filter: PostgreSQL
\* refuses the second page of a listing by status.
TwoHavings(q, cursor) == q.status # None /\ cursor # None

ListFlows(q, cursor) == IF TwoHavings(q, cursor) THEN {} ELSE Select(q, cursor)
ListExecutions(q, cursor) == IF TwoHavings(q, cursor) THEN {} ELSE Select(q, cursor)
SearchEntities(q, cursor) == Select(q, cursor)
listEvents(q, cursor) == Select(q, cursor)

List(q, cursor) ==
  CASE q.listing = "events" -> listEvents(q, cursor)
    [] q.listing = "flows" -> ListFlows(q, cursor)
    [] q.listing = "executions" -> ListExecutions(q, cursor)
    [] q.listing = "entities" -> SearchEntities(q, cursor)

makePage_Untrimmed(q, s) ==
  [items |-> s, more |-> Len(s) > q.limit,
   next |-> IF Len(s) > q.limit THEN Key(q, s[q.limit]) ELSE None]

makePage_CursorPastPage(q, s) ==
  [items |-> SubSeq(s, 1, Min({Len(s), q.limit})), more |-> Len(s) > q.limit,
   next |-> IF Len(s) > q.limit THEN Key(q, s[q.limit + 1]) ELSE None]

\* The query asked for one item more than the page holds.
makePage(q, s) ==
  [items |-> SubSeq(s, 1, Min({Len(s), q.limit})), more |-> Len(s) > q.limit,
   next |-> IF Len(s) > q.limit THEN Key(q, s[q.limit]) ELSE None]

-----------------------------------------------------------------------------
(* The client and the server                                               *)

\* Only flows and executions have a status filter.
Queries ==
  {q \in [listing : Listings, where : Where, status : Statuses, desc : BOOLEAN, limit : Limits] :
     q.listing \in {"events", "entities"} => q.status = None}

NoWalk == [pc |-> "idle", cursor |-> None, page |-> <<>>, pages |-> 0]

Init ==
  /\ row \in SUBSET Events
  /\ walk = NoWalk
  /\ seen = {}
  /\ steady = {}

\* The first request of a walk: no cursor.
Begin(q) ==
  /\ walk.pc = "idle"
  /\ walk' = [pc |-> "paging", query |-> q, cursor |-> None, page |-> <<>>, pages |-> 0]
  /\ steady' = Items(q)
  /\ UNCHANGED <<row, seen>>

\* A page; the client sends next_cursor back while has_more, as it got it: its ID parses.
NextPage ==
  LET q == walk.query IN
  /\ walk.pc = "paging"
  /\ \/ /\ List(q, walk.cursor) = {}
        /\ walk' = [walk EXCEPT !.pc = "failed", !.page = <<>>]
        /\ UNCHANGED seen
     \/ \E s \in List(q, walk.cursor) :
          LET p == makePage(q, SubSeq(s, 1, Min({Len(s), q.limit + 1}))) IN
          /\ walk' = [walk EXCEPT
               !.pc = IF p.more THEN "paging" ELSE "done",
               !.cursor = p.next,
               !.pages = @ + 1,
               !.page = [a \in DOMAIN p.items |-> [item |-> p.items[a], key |-> Key(q, p.items[a])]]]
          /\ seen' = seen \cup Range(walk'.page)
  /\ UNCHANGED <<row, steady>>

\* The walk lists i as it did.
Same(i) ==
  /\ i \in Items(walk.query) /\ i \in Items(walk.query)'
  /\ Key(walk.query, i)' = Key(walk.query, i)

Steady == steady' = IF walk.pc = "idle" THEN steady ELSE {i \in steady : Same(i)}

\* The ingestor writes an event, or a restore brings it back.
Ingest(e) ==
  /\ e \notin row
  /\ row' = row \cup {e}
  /\ UNCHANGED <<walk, seen>>
  /\ Steady

\* Retention deletes it.
Delete(e) ==
  /\ e \in row
  /\ row' = row \ {e}
  /\ UNCHANGED <<walk, seen>>
  /\ Steady

Next ==
  \/ \E q \in Queries : Begin(q)
  \/ NextPage
  \/ \E e \in Events : Ingest(e) \/ Delete(e)

Spec == Init /\ [][Next]_vars

-----------------------------------------------------------------------------
(* Properties                                                              *)

TypeOK ==
  /\ row \subseteq Events
  /\ walk.pc \in {"idle", "paging", "done", "failed"}
  /\ walk.pc # "idle" => walk.query \in Queries /\ Len(walk.page) <= walk.query.limit
  /\ Range(walk.page) \subseteq seen

\* The key b comes after the key a in the order asked for.
After(a, b) == IF walk.query.desc THEN Before(b, a) ELSE Before(a, b)

\* y is listed after x, or ties with it.
Follows(x, y) == After(x.key, y.key) \/ (x.key = y.key /\ x.item # y.item)

\* A walk never turns back and never lists an item twice under the same key: however
\* events come and go between its pages, each item of a page follows all the items listed
\* before it, and items with equal keys are different ones.  (A group whose first
\* event is deleted moves on to a later key, and may be listed again.)
InOrder ==
  [][walk'.pages # walk.pages =>
       \A b \in DOMAIN walk'.page :
         /\ \A x \in seen : Follows(x, walk'.page[b])
         /\ \A a \in 1..(b - 1) : Follows(walk'.page[a], walk'.page[b])]_vars

\* No event the query selects puts another item at the time and the cursor ID of i.
Alone(q, i) ==
  \A e \in q.where :
    Time[e] = Key(q, i)[1] /\ ItemOf(q.listing, e) \notin {i, None} =>
      IDOf(q.listing, ItemOf(q.listing, e)) # IDOf(q.listing, i)

\* A walk that reaches its last page has listed every item that was there, with
\* the same key, from its first page to its last, whatever was inserted or
\* deleted around it.  Only an item that can tie with another one in time and ID (an
\* entity of two scopes, a flow of two services) may be passed over.
NothingSkipped ==
  walk.pc = "done" =>
    \A i \in steady : Alone(walk.query, i) => \E x \in seen : x.item = i

\* A page that announces another one moves the cursor on, strictly, in the order asked
\* for: no next_cursor asks for a page again, whatever was inserted or deleted meanwhile.
\* (Following the cursors need not come to an end: with order=asc the events that keep
\* arriving lie ahead of the cursor.)
CursorAdvances ==
  [][walk'.pages # walk.pages /\ walk'.pc = "paging" =>
       /\ walk'.cursor # None
       /\ walk.cursor # None => After(walk.cursor, walk'.cursor)]_vars
=============================================================================
