-------------------------- MODULE RetentionProofs --------------------------
(***************************************************************************)
(* Proofs about module Retention, for any number of events, payloads,      *)
(* engines and policies, and for every batch size and limit.               *)
(***************************************************************************)
EXTENDS Retention, FiniteSetTheorems, WellFoundedInduction, TLAPS

Fields == {"pc", "dry", "at", "cursor", "scanned", "more", "batch", "archive", "todo",
           "left", "page", "live", "gone", "failed", "full"}
Columns == {"eligible", "since", "retry", "archive"}

\* The record of an engine, given the copies, the bundles and the catalogue: what it is
\* about to seal is copied or still on its list, what it records is sealed, what it
\* deletes is catalogued, and the keys it collects have copies.
Holds(v, cp, bd, ct) ==
  /\ v = [x \in Fields |-> v[x]]
  /\ v.batch \subseteq Events \ UnknownClass
  /\ v.page \subseteq cp
  /\ v.pc \in {"copy", "record", "delete"} => DOMAIN v.archive = v.batch
  /\ v.pc = "copy" => \A e \in v.batch : KeysOf(e) \subseteq cp \cup v.todo
  /\ v.pc \in {"record", "delete"} => v.archive \in bd
  /\ v.pc = "delete" => v.archive \in ct

\* A manifest is written only after every payload of its events is copied.
BundlesFull == \A a \in bundle :
  /\ DOMAIN a \subseteq Events \ UnknownClass
  /\ \A e \in DOMAIN a : KeysOf(e) \subseteq copy

Shapes ==
  /\ row = [e \in Events |-> row[e]]
  /\ eng = [g \in Engine |-> eng[g]]
  /\ cand = [k \in Key |-> cand[k]]
  /\ \A k \in Key : cand[k] = NoRow \/ cand[k] = [x \in Columns |-> cand[k][x]]

IInv ==
  /\ Shapes
  /\ \A g \in Engine : Holds(eng[g], copy, bundle, catalog)
  /\ BundlesFull
  /\ catalog \subseteq bundle
  /\ CandidateBacked
  /\ ContentSurvives

Grows == copy \subseteq copy' /\ bundle \subseteq bundle' /\ catalog \subseteq catalog'

-----------------------------------------------------------------------------
(* Records of engines                                                      *)

LEMMA HoldsGrows ==
  ASSUME NEW v, NEW cp, NEW bd, NEW ct, Holds(v, cp, bd, ct),
         NEW cp2, NEW bd2, NEW ct2, cp \subseteq cp2, bd \subseteq bd2, ct \subseteq ct2
  PROVE  Holds(v, cp2, bd2, ct2)
<1>1. v.pc = "copy" => \A e \in v.batch : KeysOf(e) \subseteq cp2 \cup v.todo
  BY DEF Holds
<1> QED
  BY <1>1 DEF Holds

LEMMA IdleHolds ==
  ASSUME NEW cp, NEW bd, NEW ct
  PROVE  Holds(Idle, cp, bd, ct)
<1>1. Idle = [x \in Fields |-> Idle[x]]
  BY DEF Idle, Fields
<1>2. Idle.pc = "idle" /\ Idle.batch = {} /\ Idle.page = {}
  BY DEF Idle
<1> QED
  BY <1>1, <1>2 DEF Holds

\* A run that changes nothing but harmless fields, or that goes to a harmless place.
LEMMA HarmlessHolds ==
  ASSUME NEW v, NEW w, NEW cp, NEW bd, NEW ct, Holds(v, cp, bd, ct),
         w = [x \in Fields |-> w[x]], w.batch = v.batch \/ w.batch = {}, w.page \subseteq cp,
         w.pc \notin {"copy", "record", "delete"}
  PROVE  Holds(w, cp, bd, ct)
BY DEF Holds

LEMMA AfterPageHolds ==
  ASSUME NEW v, NEW more, NEW cp, NEW bd, NEW ct, Holds(v, cp, bd, ct)
  PROVE  Holds(AfterPage(v, more), cp, bd, ct)
<1>1. v = [x \in Fields |-> v[x]] /\ v.page \subseteq cp
  BY DEF Holds
<1>2. CASE more
  <2>1. LET w == [v EXCEPT !.pc = "scan"] IN
          /\ w = [x \in Fields |-> w[x]] /\ w.batch = v.batch /\ w.page = v.page /\ w.pc = "scan"
    BY <1>1 DEF Fields
  <2> QED
    BY <1>1, <1>2, <2>1, HarmlessHolds DEF AfterPage
<1>3. CASE ~more /\ v.dry
  BY <1>3, IdleHolds DEF AfterPage
<1>4. CASE ~more /\ ~v.dry
  <2> DEFINE w == [Idle EXCEPT !.pc = "list", !.at = v.at, !.left = MaxPayloads]
  <2>1. w = [x \in Fields |-> w[x]] /\ w.batch = {} /\ w.page = {} /\ w.pc = "list"
    BY DEF Fields, Idle
  <2>2. AfterPage(v, more) = w
    BY <1>4 DEF AfterPage
  <2> HIDE DEF w
  <2> QED
    BY <2>1, <2>2 DEF Holds
<1> QED
  BY <1>2, <1>3, <1>4

-----------------------------------------------------------------------------
(* A step of one engine                                                    *)

\* Where an engine's step leaves its record, the other records and the archives.
Moved(g) ==
  /\ Grows
  /\ eng' = [h \in Engine |-> eng'[h]]
  /\ \A h \in Engine \ {g} : eng'[h] = eng[h]
  /\ Holds(eng'[g], copy', bundle', catalog')
  /\ BundlesFull'
  /\ catalog' \subseteq bundle'

\* Steps that touch neither the archive store nor the catalogue.
LEMMA QuietMoved ==
  ASSUME IInv, NEW g \in Engine, NEW w,
         eng' = [eng EXCEPT ![g] = w], UNCHANGED <<copy, bundle, catalog>>,
         Holds(w, copy, bundle, catalog)
  PROVE  Moved(g)
<1>1. eng = [h \in Engine |-> eng[h]]
  BY DEF IInv, Shapes
<1>2. eng'[g] = w /\ eng' = [h \in Engine |-> eng'[h]] /\ \A h \in Engine \ {g} : eng'[h] = eng[h]
  BY <1>1
<1> QED
  BY <1>2 DEF Moved, Grows, IInv, BundlesFull

LEMMA ScanMoved ==
  ASSUME IInv, NEW g \in Engine, Scan(g)
  PROVE  Moved(g)
<1> DEFINE v == eng[g]
           rest == {e \in Live : e > v.cursor}
           page == FirstOf(rest, PageLimit(v))
           due == {e \in page : eventExpiry(Ev[e]) # Never /\ eventExpiry(Ev[e]) <= v.at}
           w == [v EXCEPT !.cursor = Max(page), !.scanned = @ + Cardinality(page),
                          !.more = page # rest]
           x == [w EXCEPT !.pc = "load", !.batch = due]
<1>1. Holds(v, copy, bundle, catalog) /\ v = [f \in Fields |-> v[f]] /\ v.page \subseteq copy
  BY DEF IInv, Holds
<1>2. due \subseteq Events \ UnknownClass
  <2>1. due \subseteq Events
    BY DEF FirstOf, Live
  <2>2. \A e \in UnknownClass : eventExpiry(Ev[e]) = Never
    BY DEF UnknownClass, eventExpiry, Expiry
  <2> QED
    BY <2>1, <2>2
<1>3. At(g, "scan") /\ v.pc = "scan"
  BY DEF Scan, At
<1>4. Holds(w, copy, bundle, catalog)
  <2>1. w = [f \in Fields |-> w[f]] /\ w.batch = v.batch /\ w.page = v.page /\ w.pc = v.pc
    <3> HIDE DEF page, rest
    <3> QED BY <1>1 DEF Fields
  <2> HIDE DEF w
  <2> QED
    BY <1>1, <1>3, <2>1, HarmlessHolds
<1>5. Holds(x, copy, bundle, catalog)
  <2>1. w = [f \in Fields |-> w[f]] /\ w.page \subseteq copy
    BY <1>4 DEF Holds
  <2> HIDE DEF w, due
  <2>2. x = [f \in Fields |-> x[f]] /\ x.batch = due /\ x.page = w.page /\ x.pc = "load"
    BY <2>1 DEF Fields
  <2> HIDE DEF x
  <2> QED
    BY <1>2, <2>1, <2>2 DEF Holds
<1> DEFINE y == IF v.scanned >= MaxEvents \/ page = {} THEN AfterPage(v, FALSE)
                ELSE IF due = {} \/ v.dry THEN AfterPage(w, w.more)
                ELSE x
<1>6. Holds(y, copy, bundle, catalog)
  <2> HIDE DEF v, w, x, page, due
  <2> QED
    BY <1>1, <1>4, <1>5, AfterPageHolds
<1>7. eng' = [eng EXCEPT ![g] = y] /\ UNCHANGED <<copy, bundle, catalog>>
  BY DEF Scan, stores, tables
<1> HIDE DEF y
<1> QED
  BY <1>6, <1>7, QuietMoved

LEMMA LoadMoved ==
  ASSUME IInv, NEW g \in Engine, Load(g)
  PROVE  Moved(g)
<1> DEFINE v == eng[g]
           w == [v EXCEPT !.pc = "copy", !.archive = [e \in v.batch |-> row[e]],
                          !.todo = UNION {KeysOf(e) : e \in v.batch}]
<1>1. Holds(v, copy, bundle, catalog) /\ v = [f \in Fields |-> v[f]] /\ v.page \subseteq copy
  BY DEF IInv, Holds
<1>2. Holds(w, copy, bundle, catalog)
  <2>1. /\ w = [f \in Fields |-> w[f]] /\ w.batch = v.batch /\ w.page = v.page /\ w.pc = "copy"
        /\ w.archive = [e \in v.batch |-> row[e]] /\ w.todo = UNION {KeysOf(e) : e \in v.batch}
    BY <1>1 DEF Fields
  <2> HIDE DEF w
  <2>2. \A e \in w.batch : KeysOf(e) \subseteq copy \cup w.todo
    BY <2>1
  <2> QED
    BY <1>1, <2>1, <2>2 DEF Holds
<1> DEFINE y == IF v.batch \cap Live = v.batch THEN w ELSE Idle
<1>3. Holds(y, copy, bundle, catalog)
  BY <1>2, IdleHolds
<1>4. eng' = [eng EXCEPT ![g] = y] /\ UNCHANGED <<copy, bundle, catalog>>
  BY DEF Load, sameArchiveEvents, stores, tables
<1> HIDE DEF y
<1> QED
  BY <1>3, <1>4, QuietMoved

LEMMA CopyMoved ==
  ASSUME IInv, NEW g \in Engine, NEW k \in Key, Copy(g, k)
  PROVE  Moved(g)
<1> DEFINE v == eng[g]
<1>1. /\ Holds(v, copy, bundle, catalog) /\ v = [f \in Fields |-> v[f]]
      /\ eng = [h \in Engine |-> eng[h]] /\ v.pc = "copy"
  BY DEF IInv, Shapes, Holds, Copy, At
<1>2. CASE /\ copy' = copy \cup {k}
           /\ eng' = [eng EXCEPT ![g].todo = @ \ {k}]
           /\ UNCHANGED <<bundle, catalog>>
  <2>1. /\ eng' = [h \in Engine |-> eng'[h]] /\ \A h \in Engine \ {g} : eng'[h] = eng[h]
        /\ eng'[g] = [v EXCEPT !.todo = @ \ {k}]
    BY <1>1, <1>2
  <2>2. /\ eng'[g] = [f \in Fields |-> eng'[g][f]] /\ eng'[g].todo = v.todo \ {k}
        /\ eng'[g].pc = "copy" /\ eng'[g].batch = v.batch /\ eng'[g].page = v.page
        /\ eng'[g].archive = v.archive
    BY <1>1, <2>1 DEF Fields
  <2>3. Holds(eng'[g], copy', bundle', catalog')
    <3>1. \A e \in v.batch : KeysOf(e) \subseteq copy' \cup (v.todo \ {k})
      BY <1>1, <1>2 DEF Holds
    <3> QED
      BY <1>1, <1>2, <2>2, <3>1 DEF Holds
  <2>4. BundlesFull' /\ catalog' \subseteq bundle'
    BY <1>2 DEF IInv, BundlesFull
  <2> QED
    BY <1>2, <2>1, <2>3, <2>4 DEF Moved, Grows
<1>3. CASE eng' = [eng EXCEPT ![g] = Idle] /\ UNCHANGED <<copy, bundle, catalog>>
  BY <1>3, IdleHolds, QuietMoved
<1> QED
  BY <1>2, <1>3 DEF Copy, tables

LEMMA SealMoved ==
  ASSUME IInv, NEW g \in Engine, Seal(g)
  PROVE  Moved(g)
<1> DEFINE v == eng[g]
<1>1. /\ Holds(v, copy, bundle, catalog) /\ v = [f \in Fields |-> v[f]]
      /\ eng = [h \in Engine |-> eng[h]] /\ v.pc = "copy" /\ v.todo = {}
      /\ DOMAIN v.archive = v.batch /\ v.batch \subseteq Events \ UnknownClass
      /\ \A e \in v.batch : KeysOf(e) \subseteq copy
  BY DEF IInv, Shapes, Holds, Seal, At
<1>2. /\ bundle' = bundle \cup {v.archive}
      /\ eng' = [eng EXCEPT ![g].pc = "record"]
      /\ UNCHANGED <<copy, catalog>>
  BY DEF Seal, tables
<1>3. /\ eng' = [h \in Engine |-> eng'[h]] /\ \A h \in Engine \ {g} : eng'[h] = eng[h]
      /\ eng'[g] = [v EXCEPT !.pc = "record"]
  BY <1>1, <1>2
<1>4. /\ eng'[g] = [f \in Fields |-> eng'[g][f]] /\ eng'[g].pc = "record"
      /\ eng'[g].batch = v.batch /\ eng'[g].page = v.page /\ eng'[g].archive = v.archive
  BY <1>1, <1>3 DEF Fields
<1>5. Holds(eng'[g], copy', bundle', catalog')
  BY <1>1, <1>2, <1>4 DEF Holds
<1>6. BundlesFull' /\ catalog' \subseteq bundle'
  BY <1>1, <1>2 DEF IInv, BundlesFull
<1> QED
  BY <1>2, <1>3, <1>5, <1>6 DEF Moved, Grows

LEMMA RecordMoved ==
  ASSUME IInv, NEW g \in Engine, RecordArchive(g)
  PROVE  Moved(g)
<1> DEFINE v == eng[g]
<1>1. /\ Holds(v, copy, bundle, catalog) /\ v = [f \in Fields |-> v[f]]
      /\ eng = [h \in Engine |-> eng[h]] /\ v.pc = "record" /\ v.archive \in bundle
  BY DEF IInv, Shapes, Holds, RecordArchive, At
<1>2. /\ catalog' = catalog \cup {v.archive}
      /\ eng' = [eng EXCEPT ![g].pc = "delete"]
      /\ UNCHANGED <<copy, bundle>>
  BY DEF RecordArchive, stores
<1>3. /\ eng' = [h \in Engine |-> eng'[h]] /\ \A h \in Engine \ {g} : eng'[h] = eng[h]
      /\ eng'[g] = [v EXCEPT !.pc = "delete"]
  BY <1>1, <1>2
<1>4. /\ eng'[g] = [f \in Fields |-> eng'[g][f]] /\ eng'[g].pc = "delete"
      /\ eng'[g].batch = v.batch /\ eng'[g].page = v.page /\ eng'[g].archive = v.archive
  BY <1>1, <1>3 DEF Fields
<1>5. Holds(eng'[g], copy', bundle', catalog')
  BY <1>1, <1>2, <1>4 DEF Holds
<1>6. BundlesFull' /\ catalog' \subseteq bundle'
  BY <1>1, <1>2 DEF IInv, BundlesFull
<1> QED
  BY <1>2, <1>3, <1>5, <1>6 DEF Moved, Grows

LEMMA DeleteMoved ==
  ASSUME IInv, NEW g \in Engine, DeleteRetentionEvents(g)
  PROVE  Moved(g)
<1> DEFINE v == eng[g]
           w == [v EXCEPT !.batch = {}, !.archive = <<>>]
<1>1. Holds(v, copy, bundle, catalog) /\ v = [f \in Fields |-> v[f]] /\ v.page \subseteq copy
  BY DEF IInv, Holds
<1>2. Holds(AfterPage(w, v.more), copy, bundle, catalog)
  <2> DEFINE u == [w EXCEPT !.pc = "scan"]
  <2>1. w = [f \in Fields |-> w[f]] /\ w.batch = {} /\ w.page = v.page
    BY <1>1 DEF Fields
  <2> HIDE DEF w
  <2>2. u = [f \in Fields |-> u[f]] /\ u.batch = {} /\ u.page = v.page /\ u.pc = "scan"
    BY <2>1 DEF Fields
  <2>3. Holds(u, copy, bundle, catalog)
    <3> HIDE DEF u
    <3> QED BY <1>1, <2>2, HarmlessHolds
  <2>4. AfterPage(u, FALSE) = AfterPage(w, FALSE)
    <3>1. u.dry = w.dry /\ u.at = w.at
      BY <2>1 DEF Fields
    <3> HIDE DEF u
    <3> QED BY <3>1 DEF AfterPage
  <2>5. AfterPage(w, TRUE) = u
    BY DEF AfterPage
  <2>6. \/ AfterPage(w, v.more) = AfterPage(w, FALSE)
        \/ AfterPage(w, v.more) = AfterPage(w, TRUE)
    BY DEF AfterPage
  <2> HIDE DEF u
  <2> QED
    BY <2>3, <2>4, <2>5, <2>6, AfterPageHolds
<1>3. CASE eng' = [eng EXCEPT ![g] = AfterPage(w, v.more)] /\ UNCHANGED <<copy, bundle, catalog>>
  BY <1>2, <1>3, QuietMoved
<1>4. CASE eng' = [eng EXCEPT ![g] = Idle] /\ UNCHANGED <<copy, bundle, catalog>>
  BY <1>4, IdleHolds, QuietMoved
<1> QED
  BY <1>3, <1>4 DEF DeleteRetentionEvents, stores

LEMMA ListMoved ==
  ASSUME IInv, NEW g \in Engine, List(g)
  PROVE  Moved(g)
<1> DEFINE v == eng[g]
<1>1. Holds(v, copy, bundle, catalog) /\ v = [f \in Fields |-> v[f]]
  BY DEF IInv, Holds
<1>2. PICK p \in SUBSET Due(v) :
        eng' = [eng EXCEPT ![g] =
          IF p = {} THEN Idle
          ELSE [v EXCEPT !.pc = "refs", !.page = p, !.left = @ - Cardinality(p),
                         !.full = Cardinality(p) = GCLimit(v)]]
  BY DEF List
<1>3. p \subseteq copy
  BY DEF Due, IInv, CandidateBacked
<1> DEFINE w == [v EXCEPT !.pc = "refs", !.page = p, !.left = @ - Cardinality(p),
                          !.full = Cardinality(p) = GCLimit(v)]
<1>4. w = [f \in Fields |-> w[f]] /\ w.batch = v.batch /\ w.page = p /\ w.pc = "refs"
  BY <1>1 DEF Fields
<1> HIDE DEF w
<1>5. Holds(IF p = {} THEN Idle ELSE w, copy, bundle, catalog)
  BY <1>1, <1>3, <1>4, HarmlessHolds, IdleHolds
<1>6. UNCHANGED <<copy, bundle, catalog>>
  BY DEF List, tables, stores
<1> QED
  BY <1>2, <1>5, <1>6, QuietMoved DEF w

Collects(g, k) ==
  CollectReferenced(g, k) \/ CollectObject(g, k) \/ Completed(g, k) \/ CollectFails(g, k)

\* The other steps of a run: they start or end it, or take keys off the page.
LEMMA OtherMoved ==
  ASSUME IInv, NEW g \in Engine,
         \/ \E dry \in BOOLEAN : Start(g, dry)
         \/ Abort(g) \/ Refs(g) \/ EndPage(g)
         \/ \E k \in Key : Collects(g, k)
  PROVE  Moved(g)
<1> DEFINE v == eng[g]
<1>1. /\ Holds(v, copy, bundle, catalog) /\ v = [f \in Fields |-> v[f]] /\ v.page \subseteq copy
      /\ eng = [h \in Engine |-> eng[h]]
  BY DEF IInv, Holds, Shapes
<1>2. UNCHANGED <<copy, bundle, catalog>>
  BY DEF Start, Abort, Refs, EndPage, CollectReferenced, CollectObject, Completed, CollectFails,
         Collects, tables, stores
<1>3. CASE \E dry \in BOOLEAN : Start(g, dry)
  <2>1. PICK dry \in BOOLEAN :
          eng' = [eng EXCEPT ![g] = [Idle EXCEPT !.pc = "scan", !.dry = dry, !.at = now]]
    BY <1>3 DEF Start
  <2> DEFINE w == [Idle EXCEPT !.pc = "scan", !.dry = dry, !.at = now]
  <2>2. w = [f \in Fields |-> w[f]] /\ w.batch = {} /\ w.page = {} /\ w.pc = "scan"
    BY DEF Fields, Idle
  <2>3. Holds(w, copy, bundle, catalog)
    <3> HIDE DEF w
    <3> QED BY <2>2 DEF Holds
  <2> QED
    BY <1>2, <2>1, <2>3, QuietMoved
<1>4. CASE Abort(g)
  BY <1>2, <1>4, IdleHolds, QuietMoved DEF Abort
<1>5. CASE Refs(g)
  <2> DEFINE w == [v EXCEPT !.pc = "gc", !.live = {m \in v.page : \E e \in Live : m \in KeysOf(e)}]
  <2>1. eng' = [eng EXCEPT ![g] = w]
    BY <1>1, <1>5 DEF Refs
  <2>2. w = [f \in Fields |-> w[f]] /\ w.batch = v.batch /\ w.page = v.page /\ w.pc = "gc"
    BY <1>1 DEF Fields
  <2> HIDE DEF w
  <2> QED
    BY <1>1, <1>2, <2>1, <2>2, HarmlessHolds, QuietMoved
<1>6. CASE EndPage(g)
  <2> DEFINE w == [v EXCEPT !.pc = "list", !.live = {}, !.full = FALSE]
             y == IF v.failed \/ ~v.full \/ v.left = 0 THEN Idle ELSE w
  <2>1. eng' = [eng EXCEPT ![g] = y]
    BY <1>6 DEF EndPage
  <2>2. w = [f \in Fields |-> w[f]] /\ w.batch = v.batch /\ w.page = v.page /\ w.pc = "list"
    BY <1>1 DEF Fields
  <2> HIDE DEF w
  <2>3. Holds(y, copy, bundle, catalog)
    BY <1>1, <2>2, HarmlessHolds, IdleHolds
  <2> HIDE DEF y
  <2> QED
    BY <1>2, <2>1, <2>3, QuietMoved
<1>7. CASE \E k \in Key : Collects(g, k)
  <2>0. PICK k \in Key : Collects(g, k)
    BY <1>7
  <2>1. /\ eng' = [h \in Engine |-> eng'[h]] /\ \A h \in Engine \ {g} : eng'[h] = eng[h]
        /\ eng'[g] = [f \in Fields |-> eng'[g][f]] /\ eng'[g].batch = v.batch
        /\ eng'[g].page \subseteq v.page /\ eng'[g].pc = "gc"
    <3>1. CASE CollectReferenced(g, k)
      <4> DEFINE w == [v EXCEPT !.page = @ \ {k}]
                 x == [w EXCEPT !.failed = TRUE]
      <4>1. /\ w = [f \in Fields |-> w[f]] /\ w.batch = v.batch /\ w.page \subseteq v.page
            /\ w.pc = v.pc /\ v.pc = "gc"
        BY <1>1, <3>1 DEF CollectReferenced, At, Fields
      <4>2. eng' = [eng EXCEPT ![g] = w] \/ eng' = [eng EXCEPT ![g] = x]
        BY <3>1 DEF CollectReferenced, CompletePayloadCandidate
      <4> HIDE DEF w
      <4>3. /\ x = [f \in Fields |-> x[f]] /\ x.batch = v.batch /\ x.page \subseteq v.page
            /\ x.pc = "gc"
        BY <4>1 DEF Fields
      <4> HIDE DEF x
      <4>4. CASE eng' = [eng EXCEPT ![g] = w]
        BY <1>1, <4>1, <4>4
      <4>5. CASE eng' = [eng EXCEPT ![g] = x]
        BY <1>1, <4>3, <4>5
      <4> QED
        BY <4>2, <4>4, <4>5
    <3>2. CASE CollectObject(g, k)
      BY <1>1, <3>2 DEF CollectObject, At, Fields
    <3>3. CASE Completed(g, k)
      <4> DEFINE w == [v EXCEPT !.gone = @ \ {k}]
                 x == [w EXCEPT !.failed = TRUE]
      <4>1. /\ w = [f \in Fields |-> w[f]] /\ w.batch = v.batch /\ w.page \subseteq v.page
            /\ w.pc = v.pc /\ v.pc = "gc"
        BY <1>1, <3>3 DEF Completed, At, Fields
      <4>2. eng' = [eng EXCEPT ![g] = w] \/ eng' = [eng EXCEPT ![g] = x]
        BY <3>3 DEF Completed, CompletePayloadCandidate
      <4> HIDE DEF w
      <4>3. /\ x = [f \in Fields |-> x[f]] /\ x.batch = v.batch /\ x.page \subseteq v.page
            /\ x.pc = "gc"
        BY <4>1 DEF Fields
      <4> HIDE DEF x
      <4>4. CASE eng' = [eng EXCEPT ![g] = w]
        BY <1>1, <4>1, <4>4
      <4>5. CASE eng' = [eng EXCEPT ![g] = x]
        BY <1>1, <4>3, <4>5
      <4> QED
        BY <4>2, <4>4, <4>5
    <3>4. CASE CollectFails(g, k)
      BY <1>1, <3>4 DEF CollectFails, At, Fields
    <3> QED
      BY <2>0, <3>1, <3>2, <3>3, <3>4 DEF Collects
  <2>2. Holds(eng'[g], copy, bundle, catalog)
    BY <1>1, <2>1, HarmlessHolds
  <2> QED
    BY <1>2, <2>1, <2>2 DEF Moved, Grows, IInv, BundlesFull
<1> QED
  BY <1>3, <1>4, <1>5, <1>6, <1>7

LEMMA RunMoved ==
  ASSUME IInv, NEW g \in Engine, Run(g)
  PROVE  Moved(g)
BY ScanMoved, LoadMoved, CopyMoved, SealMoved, RecordMoved, DeleteMoved, ListMoved, OtherMoved
   DEF Run, Collects

-----------------------------------------------------------------------------
(* Candidate rows and payload objects                                      *)

\* A candidate row goes back to an archive that refers to its key.
Backed(k, c, ct, cp) ==
  c # NoRow => /\ c.archive \in ct
               /\ \E e \in DOMAIN c.archive : k \in KeysOf(e)
               /\ k \in cp

Shaped(c) == c = NoRow \/ c = [x \in Columns |-> c[x]]

LEMMA StageBacked ==
  ASSUME IInv, NEW g \in Engine, At(g, "delete"), NEW k \in Key
  PROVE  LET c == Stage(k, eng[g].batch, eng[g].archive)
         IN  Shaped(c) /\ Backed(k, c, catalog, copy)
<1> DEFINE S == eng[g].batch
           a == eng[g].archive
           old == cand[k]
           c == Stage(k, S, a)
<1> SUFFICES Shaped(c) /\ Backed(k, c, catalog, copy)
  OBVIOUS
<1>1. a \in catalog /\ DOMAIN a = S /\ \A e \in S : KeysOf(e) \subseteq copy
  BY DEF IInv, Holds, At, BundlesFull
<1>2. Shaped(old) /\ Backed(k, old, catalog, copy)
  BY DEF IInv, Shapes, Shaped, Backed, CandidateBacked
<1>3. CASE Releases(S, k) = {} \/ k \in Failed
  BY <1>2, <1>3 DEF Stage
<1>4. CASE ~(Releases(S, k) = {} \/ k \in Failed)
  <2>1. \E e \in S : k \in KeysOf(e)
    BY <1>4 DEF Releases, KeysOf
  <2>2. c.archive = a /\ c = [x \in Columns |-> c[x]]
    <3>1. CASE old = NoRow
      <4>1. c = [eligible |-> Max(Releases(S, k)), since |-> now, retry |-> 0, archive |-> a]
        BY <1>4, <3>1 DEF Stage
      <4> HIDE DEF c, a, S
      <4> QED BY <4>1 DEF Columns
    <3>2. CASE old # NoRow
      <4>1. c = [old EXCEPT !.eligible = Max({@, Max(Releases(S, k))}), !.archive = a]
        BY <1>4, <3>2 DEF Stage
      <4>2. old = [x \in Columns |-> old[x]]
        BY <1>2, <3>2 DEF Shaped
      <4> HIDE DEF c, a, S, old
      <4> QED BY <4>1, <4>2 DEF Columns
    <3> QED BY <3>1, <3>2
  <2> HIDE DEF c, a, S
  <2> QED
    BY <1>1, <2>1, <2>2 DEF Shaped, Backed
<1> QED
  BY <1>3, <1>4

\* What a step of an engine does to the rows, the candidates and the objects.
LEMMA RunRows ==
  ASSUME IInv, NEW g \in Engine, Run(g)
  PROVE  /\ row' = [e \in Events |-> row'[e]]
         /\ cand' = [k \in Key |-> cand'[k]]
         /\ \A k \in Key : Shaped(cand'[k]) /\ Backed(k, cand'[k], catalog', copy')
         /\ sent' = sent
         /\ \A k \in object \ object' : k \in copy
<1>0. Moved(g)
  BY RunMoved
<1>1. /\ row = [e \in Events |-> row[e]] /\ cand = [k \in Key |-> cand[k]]
      /\ \A k \in Key : Shaped(cand[k]) /\ Backed(k, cand[k], catalog, copy)
      /\ catalog \subseteq catalog' /\ copy \subseteq copy'
  BY <1>0 DEF IInv, Shapes, Shaped, Backed, CandidateBacked, Moved, Grows
<1>2. \A k \in Key : Backed(k, cand[k], catalog', copy')
  BY <1>1 DEF Backed
<1>3. sent' = sent
  BY DEF Run, Start, Scan, Load, Copy, Seal, RecordArchive, DeleteRetentionEvents, List, Refs,
         EndPage, Abort, CollectReferenced, CollectObject, Completed, CollectFails
<1>4. CASE UNCHANGED <<row, cand, object>>
  BY <1>1, <1>2, <1>3, <1>4
<1>5. CASE DeleteRetentionEvents(g)
  <2>1. object' = object /\ catalog' = catalog /\ copy' = copy /\ At(g, "delete")
    BY <1>5 DEF DeleteRetentionEvents, stores
  <2>2. CASE UNCHANGED <<cand, row>>
    BY <1>1, <1>2, <1>3, <2>1, <2>2
  <2>3. CASE /\ cand' = [k \in Key |-> Stage(k, eng[g].batch, eng[g].archive)]
             /\ row' = [e \in Events |-> IF e \in eng[g].batch THEN Absent ELSE row[e]]
    BY <1>3, <2>1, <2>3, StageBacked
  <2> QED
    BY <1>5, <2>2, <2>3 DEF DeleteRetentionEvents
<1>6. CASE \E k \in Key : Collects(g, k)
  <2>1. PICK k \in Key : Collects(g, k)
    BY <1>6
  <2>2. CASE CollectReferenced(g, k) \/ Completed(g, k)
    <3>1. /\ UNCHANGED <<row, object>>
          /\ cand' = [cand EXCEPT ![k] = NoRow] \/ cand' = cand
      BY <2>2 DEF CollectReferenced, Completed, CompletePayloadCandidate, stores
    <3>2. CASE cand' = [cand EXCEPT ![k] = NoRow]
      BY <1>1, <1>2, <1>3, <3>1, <3>2 DEF Shaped, Backed
    <3> QED
      BY <1>1, <1>2, <1>3, <3>1, <3>2
  <2>3. CASE CollectObject(g, k)
    <3>1. k \in copy
      BY <2>3 DEF CollectObject, IInv, Holds
    <3> QED
      BY <1>1, <1>2, <1>3, <2>3, <3>1 DEF CollectObject, tables
  <2>4. CASE CollectFails(g, k)
    <3>1. /\ UNCHANGED <<row, object>>
          /\ \/ cand' = cand
             \/ cand[k] # NoRow /\ cand' = [cand EXCEPT ![k].retry = now + RetryDelay]
      BY <2>4 DEF CollectFails, stores
    <3>2. CASE cand[k] # NoRow /\ cand' = [cand EXCEPT ![k].retry = now + RetryDelay]
      <4>1. /\ cand' = [m \in Key |-> cand'[m]] /\ \A m \in Key \ {k} : cand'[m] = cand[m]
            /\ cand'[k] = [cand[k] EXCEPT !.retry = now + RetryDelay]
        BY <1>1, <3>1, <3>2
      <4>2. cand'[k].archive = cand[k].archive /\ cand'[k] = [x \in Columns |-> cand'[k][x]]
        BY <1>1, <3>2, <4>1 DEF Shaped, Columns
      <4> QED
        BY <1>1, <1>2, <1>3, <3>1, <3>2, <4>1, <4>2 DEF Shaped, Backed
    <3> QED
      BY <1>4, <3>1, <3>2
  <2> QED
    BY <2>1, <2>2, <2>3, <2>4 DEF Collects
<1> QED
  BY <1>4, <1>5, <1>6 DEF Run, Collects, Start, Scan, Load, Copy, Seal, RecordArchive, List, Refs,
     EndPage, Abort, tables, stores

-----------------------------------------------------------------------------
(* The inductive invariant                                                 *)

LEMMA InitIInv == Init => IInv
<1> SUFFICES ASSUME Init PROVE IInv
  OBVIOUS
<1>1. Shapes
  BY DEF Init, Shapes
<1>2. \A g \in Engine : Holds(eng[g], copy, bundle, catalog)
  BY IdleHolds DEF Init
<1>3. BundlesFull /\ catalog \subseteq bundle /\ ContentSurvives
  BY DEF Init, BundlesFull, ContentSurvives
<1>4. CandidateBacked
  BY DEF Init, CandidateBacked, Idle
<1> QED
  BY <1>1, <1>2, <1>3, <1>4 DEF IInv

LEMMA RunIInv ==
  ASSUME IInv, NEW g \in Engine, Run(g)
  PROVE  IInv'
<1>1. Moved(g)
  BY RunMoved
<1>2. \A h \in Engine : Holds(eng[h], copy, bundle, catalog)'
  BY <1>1, HoldsGrows DEF Moved, Grows, IInv
<1>3. /\ row' = [e \in Events |-> row'[e]]
      /\ cand' = [k \in Key |-> cand'[k]]
      /\ \A k \in Key : Shaped(cand'[k]) /\ Backed(k, cand'[k], catalog', copy')
      /\ sent' = sent
      /\ \A k \in object \ object' : k \in copy
  BY RunRows
<1>4. Shapes'
  BY <1>1, <1>3 DEF Shapes, Shaped, Moved
<1>5. CandidateBacked'
  <2>1. \A h \in Engine : eng'[h].page \subseteq copy'
    BY <1>2 DEF Holds
  <2> QED
    BY <1>3, <2>1 DEF CandidateBacked, Backed
<1>6. ContentSurvives'
  BY <1>1, <1>3 DEF IInv, ContentSurvives, Moved, Grows
<1> QED
  BY <1>1, <1>2, <1>4, <1>5, <1>6 DEF IInv, Moved

\* The producers, the ingestor, the clock and the restore route.
Others ==
  \/ \E e \in Events : Capture(e) \/ \E d \in Deliveries : Ingest(e, d)
  \/ Tick \/ Restore \/ UNCHANGED vars

LEMMA OthersKeep ==
  ASSUME IInv, Others
  PROVE  /\ UNCHANGED <<copy, bundle, catalog, cand, eng>>
         /\ object \subseteq object'
         /\ \A e \in sent' \ sent : KeysOf(e) \ Failed \subseteq object'
         /\ row' = [e \in Events |-> row'[e]]
         /\ \A e \in Events : row[e] # Absent => row'[e] = row[e]
<1>0. row = [e \in Events |-> row[e]]
  BY DEF IInv, Shapes
<1>1. CASE \E e \in Events : Capture(e)
  BY <1>0, <1>1 DEF Capture, tables
<1>2. CASE \E e \in Events : \E d \in Deliveries : Ingest(e, d)
  BY <1>0, <1>2 DEF Ingest, stores
<1>3. CASE Tick
  BY <1>0, <1>3 DEF Tick, tables, stores
<1>4. CASE Restore
  <2>1. CASE \E a \in catalog : \E first \in DOMAIN a : RestorePayloads(a, first)
    BY <1>0, <2>1 DEF RestorePayloads, tables
  <2>2. CASE RestoreEvents
    BY <1>0, <2>2 DEF RestoreEvents, stores
  <2>3. CASE RestoreAbort
    BY <1>0, <2>3 DEF RestoreAbort, tables, stores
  <2> QED
    BY <1>4, <2>1, <2>2, <2>3 DEF Restore
<1>5. CASE UNCHANGED vars
  BY <1>0, <1>5 DEF vars, tables, stores
<1> QED
  BY <1>1, <1>2, <1>3, <1>4, <1>5 DEF Others

LEMMA OthersIInv ==
  ASSUME IInv, Others
  PROVE  IInv'
<1>1. /\ UNCHANGED <<copy, bundle, catalog, cand, eng>>
      /\ object \subseteq object'
      /\ \A e \in sent' \ sent : KeysOf(e) \ Failed \subseteq object'
      /\ row' = [e \in Events |-> row'[e]]
  BY OthersKeep
<1>2. ContentSurvives'
  BY <1>1 DEF IInv, ContentSurvives
<1>3. Shapes' /\ BundlesFull' /\ CandidateBacked' /\ catalog' \subseteq bundle'
  BY <1>1 DEF IInv, Shapes, BundlesFull, CandidateBacked
<1>4. \A g \in Engine : Holds(eng[g], copy, bundle, catalog)'
  BY <1>1 DEF IInv
<1> QED
  BY <1>2, <1>3, <1>4 DEF IInv

LEMMA NextIInv == IInv /\ [Next]_vars => IInv'
BY RunIInv, OthersIInv DEF Next, Others

\* The invariant behind the theorems holds in every state.
THEOREM RetentionInvariant == Spec => []IInv
BY InitIInv, NextIInv, PTL DEF Spec

\* The collector never destroys the last copy of a payload, for any number of engines,
\* crashes and restores.
THEOREM ContentSurvivesAlways == Spec => []ContentSurvives
<1>1. IInv => ContentSurvives
  BY DEF IInv
<1> QED
  BY <1>1, RetentionInvariant, PTL

\* Every candidate row, and every key a collector has listed, is backed by a catalogued
\* archive and a copy.
THEOREM CandidateBackedAlways == Spec => []CandidateBacked
<1>1. IInv => CandidateBacked
  BY DEF IInv
<1> QED
  BY <1>1, RetentionInvariant, PTL

-----------------------------------------------------------------------------
(* No deletion without an archive                                          *)

\* What an engine's step does to the live events.
LEMMA RunLive ==
  ASSUME IInv, NEW g \in Engine, Run(g)
  PROVE  \/ Live' = Live
         \/ /\ Live' = Live \ eng[g].batch
            /\ eng[g].batch \subseteq Safe \ UnknownClass
            /\ UNCHANGED <<catalog, bundle, copy>>
<1>1. CASE UNCHANGED row
  BY <1>1 DEF Live
<1>2. CASE DeleteRetentionEvents(g)
  <2>1. UNCHANGED <<catalog, bundle, copy>> /\ eng[g].pc = "delete"
    BY <1>2 DEF DeleteRetentionEvents, At, stores
  <2>2. /\ eng[g].archive \in catalog /\ eng[g].archive \in bundle
        /\ DOMAIN eng[g].archive = eng[g].batch
        /\ eng[g].batch \subseteq Events \ UnknownClass
        /\ \A e \in eng[g].batch : KeysOf(e) \subseteq copy
    BY <2>1 DEF IInv, Holds, BundlesFull
  <2>3. eng[g].batch \subseteq Safe
    BY <2>2 DEF Safe
  <2>4. CASE row' = [e \in Events |-> IF e \in eng[g].batch THEN Absent ELSE row[e]]
    <3>1. Live' = Live \ eng[g].batch
      BY <2>4 DEF Live
    <3> QED
      BY <2>1, <2>2, <2>3, <3>1
  <2> QED
    BY <1>1, <1>2, <2>4 DEF DeleteRetentionEvents
<1> QED
  BY <1>1, <1>2 DEF Run, Start, Scan, Load, Copy, Seal, RecordArchive, List, Refs, EndPage, Abort,
     CollectReferenced, CollectObject, Completed, CollectFails, tables, stores

LEMMA VaultStep ==
  ASSUME IInv, [Next]_vars
  PROVE  [V!Next]_(V!vars)
<1> USE DEF V!Next, V!vars
<1>0. Live \in SUBSET Events /\ Live' \in SUBSET Events /\ Safe' \in SUBSET Events
  BY DEF Live, Safe
<1>1. ASSUME NEW g \in Engine, Run(g) PROVE [V!Next]_(V!vars)
  <2>1. CASE Live' = Live
    <3>1. copy \subseteq copy' /\ bundle \subseteq bundle' /\ catalog \subseteq catalog'
      BY <1>1, RunMoved DEF Moved, Grows
    <3>2. Safe \subseteq Safe'
      BY <3>1 DEF Safe
    <3>3. V!Keep(Safe')
      BY <2>1, <3>2 DEF V!Keep
    <3> QED
      BY <1>0, <3>3
  <2>2. CASE /\ Live' = Live \ eng[g].batch
             /\ eng[g].batch \subseteq Safe \ UnknownClass
             /\ UNCHANGED <<catalog, bundle, copy>>
    <3>1. Safe' = Safe
      BY <2>2 DEF Safe
    <3>2. V!Leave(eng[g].batch)
      BY <2>2, <3>1 DEF V!Leave
    <3>3. eng[g].batch \in SUBSET Events
      BY <2>2 DEF Safe
    <3> QED
      BY <3>2, <3>3
  <2> QED
    BY <1>1, <2>1, <2>2, RunLive
<1>2. CASE Others
  <2>1. /\ UNCHANGED <<copy, bundle, catalog>>
        /\ \A e \in Events : row[e] # Absent => row'[e] = row[e]
    BY <1>2, OthersKeep
  <2>2. Safe' = Safe /\ Live \subseteq Live'
    BY <2>1 DEF Safe, Live
  <2>3. V!Enter(Live')
    BY <2>2 DEF V!Enter
  <2> QED
    BY <1>0, <2>3
<1> QED
  BY <1>1, <1>2 DEF Next, Others

\* Retention implements Vault: whatever engines, producers, redeliveries, restores and
\* crashes do, a row is deleted only when a catalogued archive restores it in full.
THEOREM RetentionImplementsVault == Spec => VaultSpec
<1>1. Init => V!Init
  BY DEF Init, V!Init, Live, Safe
<1>2. IInv /\ [Next]_vars => [V!Next]_(V!vars)
  BY VaultStep
<1> QED
  BY <1>1, <1>2, RetentionInvariant, PTL DEF Spec, VaultSpec, V!Spec

\* An event that was once in trail_events is there or can be restored in full, for ever: no
\* step of DeleteRetentionEvents, of the collector, of a crashed run or of a restore takes
\* an event out of both.
NothingLost == [][Live \cup Safe \subseteq Live' \cup Safe']_vars

\* Events are never lost (NothingLost), whatever deletes the rows: every step is a step of
\* Vault, and the only one of them that shrinks the live store, Leave, takes events that are
\* safe.
THEOREM EventsAreNeverLost == Spec => NothingLost
<1>1. ASSUME IInv, [Next]_vars PROVE Live \cup Safe \subseteq Live' \cup Safe'
  <2>1. [V!Next]_(V!vars)
    BY <1>1, VaultStep
  <2>2. CASE UNCHANGED V!vars
    BY <2>2 DEF V!vars
  <2>3. CASE V!Next
    <3>1. PICK S \in SUBSET Events : V!Enter(S) \/ V!Keep(S) \/ V!Leave(S)
      BY <2>3 DEF V!Next
    <3> QED
      BY <3>1 DEF V!Enter, V!Keep, V!Leave
  <2> QED
    BY <2>1, <2>2, <2>3
<1>2. IInv /\ [Next]_vars => [Live \cup Safe \subseteq Live' \cup Safe']_vars
  BY <1>1
<1> QED
  BY <1>2, RetentionInvariant, PTL DEF Spec, NothingLost

\* An event of an unknown class is never archived and never deleted: eventExpiry answers
\* that it does not expire, and no later step of the engine looks at anything else.
THEOREM UnknownClassStays == Spec => UnknownClassKept
<1>1. ASSUME IInv, IInv', [Next]_vars
      PROVE  /\ UnknownClass \cap Live \subseteq Live'
             /\ \A a \in catalog' : DOMAIN a \cap UnknownClass = {}
  <2>1. \A a \in catalog' : DOMAIN a \cap UnknownClass = {}
    BY <1>1 DEF IInv, BundlesFull
  <2>2. ASSUME NEW g \in Engine, Run(g) PROVE UnknownClass \cap Live \subseteq Live'
    BY <1>1, <2>2, RunLive
  <2>3. ASSUME Others PROVE UnknownClass \cap Live \subseteq Live'
    <3>1. \A e \in Events : row[e] # Absent => row'[e] = row[e]
      BY <1>1, <2>3, OthersKeep
    <3> QED
      BY <3>1 DEF Live
  <2> QED
    BY <1>1, <2>1, <2>2, <2>3 DEF Next, Others
<1>2. IInv /\ IInv' /\ [Next]_vars
      => [/\ UnknownClass \cap Live \subseteq Live'
          /\ \A a \in catalog' : DOMAIN a \cap UnknownClass = {}]_vars
  BY <1>1
<1> QED
  BY <1>2, RetentionInvariant, PTL DEF Spec, UnknownClassKept

-----------------------------------------------------------------------------
(* Finite sets of integers                                                 *)

\* A set of naturals that is not empty has a least element.
LEMMA LeastNatural ==
  ASSUME NEW T \in SUBSET Nat, T # {}
  PROVE  \E n \in T : \A m \in T : n <= m
<1> DEFINE R == OpToRel(<, Nat)
<1>1. IsWellFoundedOn(R, Nat)
  BY NatLessThanWellFounded
<1> HIDE DEF R
<1>2. PICK x \in T : \A y \in T : ~ (<<y, x>> \in R)
  BY <1>1, WFMin
<1>3. \A y \in T : y < x => <<y, x>> \in R
  BY DEF R, OpToRel
<1>4. \A y \in T : ~(y < x)
  BY Zenon, <1>2, <1>3
<1> QED
  BY <1>4

LEMMA MinOfNaturals ==
  ASSUME NEW T \in SUBSET Nat, T # {}
  PROVE  Min(T) \in T /\ \A m \in T : Min(T) <= m
BY LeastNatural DEF Min

HasGreatest(S) == \E m \in S : \A x \in S : x <= m

\* A finite set of integers that is not empty has a greatest element: a smallest one
\* without would have one more element than a set that has one.
LEMMA FiniteGreatest ==
  ASSUME NEW S \in SUBSET Int, IsFiniteSet(S), S # {}
  PROVE  HasGreatest(S)
<1> DEFINE Without(T) == IsFiniteSet(T) /\ T # {} /\ ~HasGreatest(T)
           Bad == {n \in Nat : \E T \in SUBSET Int : Without(T) /\ Cardinality(T) = n}
<1> SUFFICES ASSUME ~HasGreatest(S) PROVE FALSE
  OBVIOUS
<1>1. Cardinality(S) \in Bad
  BY FS_CardinalityType
<1>2. PICK n \in Bad : \A m \in Bad : n <= m
  <2>1. Bad \in SUBSET Nat /\ Bad # {}
    BY <1>1
  <2> HIDE DEF Bad
  <2> QED  BY <2>1, LeastNatural
<1>3. PICK T \in SUBSET Int : Without(T) /\ Cardinality(T) = n
  BY <1>2
<1>4. PICK x \in T : TRUE
  BY <1>3
<1> DEFINE U == T \ {x}
<1>5. IsFiniteSet(U) /\ Cardinality(U) = n - 1 /\ U \in SUBSET Int /\ n \in Nat
  BY <1>2, <1>3, <1>4, FS_RemoveElement
<1>6. Cardinality(U) \in Nat /\ Cardinality(U) < n
  BY <1>5, FS_CardinalityType
<1>7. ~Without(U)
  <2>1. Cardinality(U) \notin Bad
    BY <1>2, <1>6
  <2> QED
    BY <1>5, <1>6, <2>1
<1>8. CASE U = {}
  <2>1. \A y \in T : y = x
    BY <1>8
  <2>2. \A y \in T : y <= x
    BY <1>4, <2>1
  <2> QED
    BY <1>3, <1>4, <2>2 DEF HasGreatest
<1>9. CASE U # {}
  <2>1. HasGreatest(U)
    BY <1>5, <1>7, <1>9
  <2>2. PICK m \in U : \A y \in U : y <= m
    BY <2>1 DEF HasGreatest
  <2>3. m \in Int /\ x \in Int /\ m \in T
    BY <1>4, <1>5, <2>2
  <2>4. CASE x <= m
    <3>1. \A y \in T : y <= m
      BY <2>2, <2>4
    <3> QED
      BY <1>3, <2>3, <3>1 DEF HasGreatest
  <2>5. CASE m <= x
    <3>1. \A y \in U : y \in Int /\ y <= x
      BY <1>5, <2>2, <2>3, <2>5
    <3>2. \A y \in T : y <= x
      BY <2>3, <3>1
    <3> QED
      BY <1>3, <1>4, <3>2 DEF HasGreatest
  <2> QED
    BY <2>3, <2>4, <2>5
<1> QED
  BY <1>8, <1>9

LEMMA MaxOfFinite ==
  ASSUME NEW S \in SUBSET Int, IsFiniteSet(S), S # {}
  PROVE  Max(S) \in S
<1>1. PICK m \in S : \A x \in S : x <= m
  BY FiniteGreatest DEF HasGreatest
<1>2. \A x \in S : m >= x
  BY <1>1
<1> QED
  BY <1>2 DEF Max

LEMMA FiniteEvents ==
  ASSUME NEW T \in SUBSET Events
  PROVE  IsFiniteSet(T) /\ Cardinality(T) \in Nat /\ T \in SUBSET Int
<1>1. IsFiniteSet(Events) /\ Events \subseteq Int
  BY NAssumption, FS_Interval DEF Events
<1>2. IsFiniteSet(T)
  BY <1>1, FS_Subset
<1> QED
  BY <1>1, <1>2, FS_CardinalityType

\* LIMIT n returns at most n rows: those before the last one of a page are fewer than n.
LEMMA FirstOfBounded ==
  ASSUME NEW S \in SUBSET Events, NEW n \in Nat
  PROVE  FirstOf(S, n) \subseteq S /\ Cardinality(FirstOf(S, n)) <= n
<1> DEFINE F == FirstOf(S, n)
<1>1. F \subseteq S
  BY DEF FirstOf
<1>2. CASE F = {}
  BY <1>1, <1>2, FS_EmptySet
<1>3. CASE F # {}
  <2>1. F \in SUBSET Events /\ S \in SUBSET Int
    BY <1>1, FiniteEvents
  <2>2. PICK m \in F : \A x \in F : x <= m
    <3> HIDE DEF F
    <3> QED  BY <1>3, <2>1, FiniteEvents, FiniteGreatest DEF HasGreatest
  <2> DEFINE B == {y \in S : y < m}
  <2>3. Cardinality(B) < n
    BY DEF FirstOf
  <2>4. IsFiniteSet(B) /\ Cardinality(B) \in Nat
    BY FiniteEvents
  <2>5. F \in SUBSET (B \cup {m})
    <3>1. ASSUME NEW x \in F PROVE x \in B \cup {m}
      <4>1. x \in S /\ x <= m /\ x \in Int /\ m \in Int
        BY <1>1, <2>1, <2>2
      <4> QED
        BY <4>1
    <3> QED
      BY <3>1
  <2> HIDE DEF B, F
  <2>6. IsFiniteSet(B \cup {m}) /\ Cardinality(B \cup {m}) <= Cardinality(B) + 1
    BY <2>4, FS_AddElement
  <2>7. Cardinality(F) <= Cardinality(B \cup {m}) /\ Cardinality(F) \in Nat
    BY <2>1, <2>5, <2>6, FS_Subset, FiniteEvents
  <2>8. Cardinality(B \cup {m}) \in Nat
    BY <2>6, FS_CardinalityType
  <2>9. Cardinality(F) <= n
    BY <2>3, <2>4, <2>6, <2>7, <2>8
  <2> QED
    BY <1>1, <2>9 DEF F
<1> QED
  BY <1>2, <1>3

-----------------------------------------------------------------------------
(* Types: what a policy computes                                           *)

\* The date of Expiry, or Never: the first policy that hits is one of the list.
LEMMA PayloadExpiryType ==
  ASSUME NEW e \in Events, NEW l \in Ev[e].links
  PROVE  payloadExpiry(Ev[e], l) \in Int
<1> DEFINE hits == {i \in DOMAIN PayloadPolicies :
                      /\ matchEvent(PayloadPolicies[i], Ev[e])
                      /\ PayloadPolicies[i].role \in {Unset, l.role}}
<1>1. Ev[e].time \in Int /\ l.until \in Int
  BY EvAssumption
<1>2. \A c \in DOMAIN PayloadClasses : PayloadClasses[c] \in Nat
  BY ConfigAssumption DEF Configured
<1>3. /\ DOMAIN PayloadPolicies = 1..Len(PayloadPolicies)
      /\ \A i \in DOMAIN PayloadPolicies : PayloadPolicies[i].ttl \in Nat
      /\ DefaultPayloadTTL \in Nat
  BY ConfigAssumption DEF Configured
<1>4. hits # {} => PayloadPolicies[Min(hits)].ttl \in Nat
  <2>1. hits \in SUBSET Nat
    BY <1>3
  <2>2. hits \subseteq DOMAIN PayloadPolicies
    OBVIOUS
  <2> HIDE DEF hits
  <2>3. hits # {} => Min(hits) \in hits
    BY <2>1, MinOfNaturals
  <2> QED
    BY <1>3, <2>2, <2>3
<1>5. payloadExpiry(Ev[e], l) =
        IF l.until > 0 THEN l.until
        ELSE Expiry(Ev[e].time, l.class, PayloadClasses, PayloadPolicies, hits, DefaultPayloadTTL)
  BY DEF payloadExpiry
<1> HIDE DEF hits
<1>6. Expiry(Ev[e].time, l.class, PayloadClasses, PayloadPolicies, hits, DefaultPayloadTTL) \in Int
  BY <1>1, <1>2, <1>3, <1>4 DEF Expiry, Never
<1> QED
  BY <1>1, <1>5, <1>6

\* A batch releases a key at finitely many dates.
LEMMA ReleasesType ==
  ASSUME NEW S \in SUBSET Events, NEW k
  PROVE  Releases(S, k) \in SUBSET Int /\ IsFiniteSet(Releases(S, k))
<1> DEFINE L(e) == {m \in Ev[e].links : m.key = k}
           A(e) == {payloadExpiry(Ev[e], l) : l \in L(e)}
           All == {A(e) : e \in S}
<1>1. ASSUME NEW e \in S PROVE IsFiniteSet(A(e)) /\ A(e) \in SUBSET Int
  <2> DEFINE f == [l \in L(e) |-> payloadExpiry(Ev[e], l)]
  <2>1. IsFiniteSet(L(e))
    <3>1. L(e) \in SUBSET Ev[e].links /\ IsFiniteSet(Ev[e].links)
      BY EvAssumption
    <3> HIDE DEF L
    <3> QED  BY <3>1, FS_Subset
  <2>2. f \in Surjection(L(e), A(e))
    <3> HIDE DEF L
    <3> QED  BY DEF Surjection
  <2>3. IsFiniteSet(A(e))
    <3> HIDE DEF f, L, A
    <3> QED  BY <2>1, <2>2, FS_Surjection
  <2>4. A(e) \in SUBSET Int
    BY PayloadExpiryType
  <2> QED
    BY <2>3, <2>4
<1>2. IsFiniteSet(All)
  <2> DEFINE h == [e \in S |-> A(e)]
  <2> HIDE DEF A
  <2>1. h \in Surjection(S, All)
    BY DEF Surjection
  <2> HIDE DEF h, All
  <2> QED  BY <2>1, FiniteEvents, FS_Surjection
<1>3. IsFiniteSet(UNION All) /\ UNION All \in SUBSET Int
  <2> HIDE DEF A
  <2>1. \A B \in All : IsFiniteSet(B) /\ B \in SUBSET Int
    BY <1>1
  <2> HIDE DEF All
  <2> QED  BY <1>2, <2>1, FS_UNION
<1>4. Releases(S, k) = (UNION All) \ {Never}
  BY DEF Releases
<1>5. IsFiniteSet((UNION All) \ {Never})
  <2> HIDE DEF All
  <2> QED  BY <1>3, FS_RemoveElement
<1> HIDE DEF All
<1>6. IsFiniteSet(Releases(S, k))
  BY Zenon, <1>4, <1>5
<1> QED
  BY <1>3, <1>4, <1>6

-----------------------------------------------------------------------------
(* Types: engines                                                          *)

Places == {"idle", "scan", "load", "copy", "record", "delete", "list", "refs", "gc"}

\* An engine within its limits, whatever it has scanned, listed or deleted.
EngineTyped(v) ==
  /\ v.pc \in Places
  /\ v.scanned \in 0..MaxEvents /\ v.left \in 0..MaxPayloads
  /\ v.batch \subseteq Events /\ v.archive \in Archives
  /\ v.todo \subseteq Key /\ v.page \subseteq Key /\ v.live \subseteq Key /\ v.gone \subseteq Key
  /\ IsFiniteSet(v.gone) /\ Cardinality(v.gone) <= PayloadConcurrency

LEMMA Limits ==
  /\ EventBatchSize \in Nat \ {0} /\ MaxEvents \in Nat \ {0}
  /\ PayloadBatchSize \in Nat \ {0} /\ MaxPayloads \in Nat \ {0}
  /\ PayloadConcurrency \in Nat \ {0}
BY ConfigAssumption DEF Configured

LEMMA NoArchive == <<>> \in Archives
<1>1. <<>> \in [{} -> Deliveries]
  OBVIOUS
<1>2. {} \in SUBSET Events
  OBVIOUS
<1> QED
  BY <1>1, <1>2 DEF Archives

LEMMA NoneGone == IsFiniteSet({}) /\ Cardinality({}) <= PayloadConcurrency
BY FS_EmptySet, Limits

\* A record with the counters and the sets of another, and a place of its own.
LEMMA SameTyped ==
  ASSUME NEW v, NEW w, EngineTyped(v), w.pc \in Places,
         w.scanned = v.scanned, w.left = v.left, w.batch = v.batch, w.archive = v.archive,
         w.todo = v.todo, w.page = v.page, w.live = v.live, w.gone = v.gone
  PROVE  EngineTyped(w)
BY DEF EngineTyped

LEMMA IdleTyped == EngineTyped(Idle)
<1>1. /\ Idle.pc = "idle" /\ Idle.scanned = 0 /\ Idle.left = 0 /\ Idle.batch = {}
      /\ Idle.archive = <<>> /\ Idle.todo = {} /\ Idle.page = {} /\ Idle.live = {}
      /\ Idle.gone = {}
  BY DEF Idle
<1> QED
  BY <1>1, NoArchive, NoneGone, Limits DEF EngineTyped, Places

LEMMA AfterPageTyped ==
  ASSUME NEW v, NEW more, EngineTyped(v), v = [x \in Fields |-> v[x]]
  PROVE  EngineTyped(AfterPage(v, more))
<1>1. CASE more
  <2> DEFINE w == [v EXCEPT !.pc = "scan"]
  <2>1. /\ w.pc = "scan" /\ w.scanned = v.scanned /\ w.left = v.left /\ w.batch = v.batch
        /\ w.archive = v.archive /\ w.todo = v.todo /\ w.page = v.page /\ w.live = v.live
        /\ w.gone = v.gone
    BY DEF Fields
  <2>2. AfterPage(v, more) = w
    BY <1>1 DEF AfterPage
  <2> HIDE DEF w
  <2> QED
    BY <2>1, <2>2, SameTyped DEF Places
<1>2. CASE ~more /\ v.dry
  BY <1>2, IdleTyped DEF AfterPage
<1>3. CASE ~more /\ ~v.dry
  <2> DEFINE w == [Idle EXCEPT !.pc = "list", !.at = v.at, !.left = MaxPayloads]
  <2>1. /\ w.pc = "list" /\ w.scanned = 0 /\ w.left = MaxPayloads /\ w.batch = {}
        /\ w.archive = <<>> /\ w.todo = {} /\ w.page = {} /\ w.live = {} /\ w.gone = {}
    BY DEF Idle
  <2>2. AfterPage(v, more) = w
    BY <1>3 DEF AfterPage
  <2>3. 0 \in 0..MaxEvents /\ MaxPayloads \in 0..MaxPayloads
    BY Limits
  <2> HIDE DEF w
  <2>4. EngineTyped(w)
    BY <2>1, <2>3, NoArchive, NoneGone DEF EngineTyped, Places
  <2> QED
    BY <2>2, <2>4
<1> QED
  BY <1>1, <1>2, <1>3

\* The tables and the stores.
StoreTyped ==
  /\ now \in 0..MaxTime
  /\ sent \subseteq Events
  /\ row \in [Events -> Deliveries \cup {Absent}]
  /\ object \subseteq Key /\ copy \subseteq Key
  /\ bundle \subseteq Archives /\ catalog \subseteq Archives
  /\ cover \in [Events -> Archives]
  /\ \A k \in Key : cand[k] = NoRow \/ cand[k] \in CandRow
  /\ rst.archive \in Archives /\ rst.chunk \subseteq DOMAIN rst.archive

Typed == StoreTyped /\ \A g \in Engine : EngineTyped(eng[g])

LEMMA EngineShape ==
  ASSUME IInv, NEW g \in Engine
  PROVE  /\ eng = [h \in Engine |-> eng[h]]
         /\ eng[g] = [x \in Fields |-> eng[g][x]]
BY DEF IInv, Shapes, Holds

\* The page of a scan is no longer than what MaxEvents leaves.
LEMMA PageFits ==
  ASSUME NEW v, v.scanned \in 0..MaxEvents, NEW rest \in SUBSET Events
  PROVE  LET page == FirstOf(rest, PageLimit(v))
         IN  page \subseteq rest /\ v.scanned + Cardinality(page) \in 0..MaxEvents
<1> DEFINE a == EventBatchSize
           b == MaxEvents - v.scanned
           n == PageLimit(v)
           page == FirstOf(rest, n)
<1>1. a \in Nat /\ b \in Nat
  BY Limits
<1>2. n \in {a, b} /\ n <= b
  <2>1. {a, b} \in SUBSET Nat /\ {a, b} # {}
    BY <1>1
  <2>2. n = Min({a, b})
    BY DEF PageLimit
  <2> HIDE DEF n, a, b
  <2> QED  BY <2>1, <2>2, MinOfNaturals
<1>3. n \in Nat
  BY <1>1, <1>2
<1>4. page \subseteq rest /\ Cardinality(page) <= n
  BY <1>3, FirstOfBounded
<1>5. Cardinality(page) \in Nat
  BY <1>4, FiniteEvents
<1> HIDE DEF n, page
<1>6. v.scanned + Cardinality(page) \in 0..MaxEvents
  BY <1>2, <1>3, <1>4, <1>5, Limits
<1> QED
  BY <1>4, <1>6 DEF n, page

LEMMA ScanTyped ==
  ASSUME IInv, Typed, NEW g \in Engine, Scan(g)
  PROVE  EngineTyped(eng'[g])
<1> DEFINE v == eng[g]
           rest == {e \in Live : e > v.cursor}
           page == FirstOf(rest, PageLimit(v))
           due == {e \in page : eventExpiry(Ev[e]) # Never /\ eventExpiry(Ev[e]) <= v.at}
           m == Max(page)
           n == v.scanned + Cardinality(page)
           more == page # rest
           w == [v EXCEPT !.cursor = m, !.scanned = n, !.more = more]
           x == [w EXCEPT !.pc = "load", !.batch = due]
           y == IF v.scanned >= MaxEvents \/ page = {} THEN AfterPage(v, FALSE)
                ELSE IF due = {} \/ v.dry THEN AfterPage(w, w.more)
                ELSE x
<1>1. EngineTyped(v) /\ v = [f \in Fields |-> v[f]] /\ eng = [h \in Engine |-> eng[h]]
  BY EngineShape DEF Typed
<1>2. v.scanned \in 0..MaxEvents
  BY <1>1 DEF EngineTyped
<1>3. rest \in SUBSET Events
  BY DEF Live
<1>4. page \subseteq rest /\ n \in 0..MaxEvents
  <2> HIDE DEF v, rest
  <2> QED  BY <1>2, <1>3, PageFits
<1>5. due \subseteq Events
  BY <1>3, <1>4
<1>6. eng' = [eng EXCEPT ![g] = y]
  BY DEF Scan
<1>7. eng'[g] = y
  <2> HIDE DEF y
  <2> QED  BY <1>1, <1>6
<1> HIDE DEF page, rest, due, m, n, more
<1>8. EngineTyped(w) /\ w = [f \in Fields |-> w[f]]
  <2>1. /\ w = [f \in Fields |-> w[f]]
        /\ w.pc = v.pc /\ w.scanned = n /\ w.left = v.left /\ w.batch = v.batch
        /\ w.archive = v.archive /\ w.todo = v.todo /\ w.page = v.page /\ w.live = v.live
        /\ w.gone = v.gone
    <3> HIDE DEF v
    <3> QED  BY <1>1 DEF Fields
  <2> HIDE DEF v, w
  <2> QED
    BY <1>1, <1>4, <2>1 DEF EngineTyped
<1>9. EngineTyped(x)
  <2> HIDE DEF v, w
  <2>1. /\ x.pc = "load" /\ x.scanned = w.scanned /\ x.left = w.left /\ x.batch = due
        /\ x.archive = w.archive /\ x.todo = w.todo /\ x.page = w.page /\ x.live = w.live
        /\ x.gone = w.gone
    BY <1>8 DEF Fields
  <2> HIDE DEF x
  <2> QED
    BY <1>5, <1>8, <2>1 DEF EngineTyped, Places
<1>10. EngineTyped(AfterPage(v, FALSE)) /\ EngineTyped(AfterPage(w, w.more))
  <2> HIDE DEF v, w
  <2> QED  BY <1>1, <1>8, AfterPageTyped
<1>11. EngineTyped(y)
  <2> HIDE DEF v, w, x
  <2> QED  BY Zenon, <1>9, <1>10
<1> HIDE DEF y
<1> QED
  BY <1>7, <1>11

LEMMA LoadTyped ==
  ASSUME IInv, Typed, NEW g \in Engine, Load(g)
  PROVE  EngineTyped(eng'[g])
<1> DEFINE v == eng[g]
           a == [e \in v.batch |-> row[e]]
           keys == UNION {KeysOf(e) : e \in v.batch}
           w == [v EXCEPT !.pc = "copy", !.archive = a, !.todo = keys]
<1>1. EngineTyped(v) /\ v = [f \in Fields |-> v[f]] /\ eng = [h \in Engine |-> eng[h]]
  BY EngineShape DEF Typed
<1>2. eng'[g] = IF v.batch \cap Live = v.batch THEN w ELSE Idle
  BY <1>1 DEF Load, sameArchiveEvents
<1>3. v.batch \subseteq Events
  BY <1>1 DEF EngineTyped
<1>4. keys \subseteq Key
  BY <1>3, EvAssumption DEF KeysOf
<1>5. CASE v.batch \cap Live = v.batch
  <2>1. \A e \in v.batch : row[e] \in Deliveries
    BY <1>3, <1>5 DEF Live, Typed, StoreTyped
  <2>2. a \in Archives
    <3>1. a \in [v.batch -> Deliveries]
      BY <2>1
    <3> QED
      BY <1>3, <3>1 DEF Archives
  <2> HIDE DEF v, a, keys
  <2>3. /\ w.pc = "copy" /\ w.scanned = v.scanned /\ w.left = v.left /\ w.batch = v.batch
        /\ w.archive = a /\ w.todo = keys /\ w.page = v.page /\ w.live = v.live
        /\ w.gone = v.gone
    BY <1>1 DEF Fields
  <2>4. eng'[g] = w
    BY <1>2, <1>5
  <2> HIDE DEF w
  <2>5. EngineTyped(w)
    BY <1>1, <1>4, <2>2, <2>3 DEF EngineTyped, Places
  <2> QED
    BY <2>4, <2>5
<1>6. CASE v.batch \cap Live # v.batch
  BY <1>2, <1>6, IdleTyped
<1> QED
  BY <1>5, <1>6

\* The steps that write an archive.
LEMMA ArchiveTyped ==
  ASSUME IInv, Typed, NEW g \in Engine,
         Seal(g) \/ RecordArchive(g) \/ \E k \in Key : Copy(g, k)
  PROVE  EngineTyped(eng'[g])
<1> DEFINE v == eng[g]
<1>1. EngineTyped(v) /\ v = [f \in Fields |-> v[f]] /\ eng = [h \in Engine |-> eng[h]]
  BY EngineShape DEF Typed
<1>2. ASSUME NEW pc \in Places, eng' = [eng EXCEPT ![g].pc = pc]
      PROVE  EngineTyped(eng'[g])
  <2> DEFINE w == [v EXCEPT !.pc = pc]
  <2>1. eng'[g] = w
    BY <1>1, <1>2
  <2> HIDE DEF v
  <2>2. /\ w.pc = pc /\ w.scanned = v.scanned /\ w.left = v.left /\ w.batch = v.batch
        /\ w.archive = v.archive /\ w.todo = v.todo /\ w.page = v.page /\ w.live = v.live
        /\ w.gone = v.gone
    BY <1>1 DEF Fields, Places
  <2> HIDE DEF w
  <2> QED
    BY <1>1, <2>1, <2>2, SameTyped
<1>3. CASE Seal(g)
  BY <1>2, <1>3 DEF Seal, Places
<1>4. CASE RecordArchive(g)
  BY <1>2, <1>4 DEF RecordArchive, Places
<1>5. ASSUME NEW k \in Key, Copy(g, k) PROVE EngineTyped(eng'[g])
  <2>1. CASE eng' = [eng EXCEPT ![g] = Idle]
    BY <1>1, <2>1, IdleTyped
  <2>2. CASE eng' = [eng EXCEPT ![g].todo = @ \ {k}]
    <3> DEFINE w == [v EXCEPT !.todo = @ \ {k}]
    <3>1. eng'[g] = w
      BY <1>1, <2>2
    <3> HIDE DEF v
    <3>2. /\ w.pc = v.pc /\ w.scanned = v.scanned /\ w.left = v.left /\ w.batch = v.batch
          /\ w.archive = v.archive /\ w.todo = v.todo \ {k} /\ w.page = v.page
          /\ w.live = v.live /\ w.gone = v.gone
      BY <1>1 DEF Fields
    <3> HIDE DEF w
    <3>3. EngineTyped(w)
      BY <1>1, <3>2 DEF EngineTyped
    <3> QED
      BY <3>1, <3>3
  <2> QED
    BY <1>5, <2>1, <2>2 DEF Copy
<1> QED
  BY <1>3, <1>4, <1>5

LEMMA DeleteTyped ==
  ASSUME IInv, Typed, NEW g \in Engine, DeleteRetentionEvents(g)
  PROVE  EngineTyped(eng'[g])
<1> DEFINE v == eng[g]
           w == [v EXCEPT !.batch = {}, !.archive = <<>>]
<1>1. EngineTyped(v) /\ v = [f \in Fields |-> v[f]] /\ eng = [h \in Engine |-> eng[h]]
  BY EngineShape DEF Typed
<1>2. EngineTyped(w) /\ w = [f \in Fields |-> w[f]]
  <2> HIDE DEF v
  <2>1. /\ w = [f \in Fields |-> w[f]]
        /\ w.pc = v.pc /\ w.scanned = v.scanned /\ w.left = v.left /\ w.batch = {}
        /\ w.archive = <<>> /\ w.todo = v.todo /\ w.page = v.page /\ w.live = v.live
        /\ w.gone = v.gone
    BY <1>1 DEF Fields
  <2> HIDE DEF w
  <2> QED
    BY <1>1, <2>1, NoArchive DEF EngineTyped
<1>3. EngineTyped(AfterPage(w, v.more))
  <2> HIDE DEF v, w
  <2> QED  BY <1>2, AfterPageTyped
<1>4. CASE eng' = [eng EXCEPT ![g] = Idle]
  BY <1>1, <1>4, IdleTyped
<1>5. CASE eng' = [eng EXCEPT ![g] = AfterPage(w, v.more)]
  <2>1. eng'[g] = AfterPage(w, v.more)
    <3> HIDE DEF w
    <3> QED  BY <1>1, <1>5
  <2> QED
    BY <1>3, <2>1
<1> QED
  BY <1>4, <1>5 DEF DeleteRetentionEvents

\* Only payloads of events become candidates, so finitely many are due.
LEMMA FiniteDue ==
  ASSUME IInv, NEW v
  PROVE  IsFiniteSet(Due(v)) /\ Cardinality(Due(v)) \in Nat /\ Due(v) \subseteq Key
<1> DEFINE All == {KeysOf(e) : e \in Events}
<1>1. ASSUME NEW e \in Events PROVE IsFiniteSet(KeysOf(e))
  <2> DEFINE L == Ev[e].links
             f == [l \in L |-> l.key]
  <2>1. IsFiniteSet(L)
    BY EvAssumption
  <2> HIDE DEF L
  <2>2. KeysOf(e) = {l.key : l \in L}
    BY DEF KeysOf, L
  <2>3. f \in Surjection(L, KeysOf(e))
    BY <2>2 DEF Surjection
  <2> HIDE DEF f
  <2> QED  BY <2>1, <2>3, FS_Surjection
<1>2. IsFiniteSet(All)
  <2> DEFINE h == [e \in Events |-> KeysOf(e)]
  <2>1. h \in Surjection(Events, All)
    BY DEF Surjection
  <2>2. IsFiniteSet(Events)
    BY FiniteEvents
  <2> HIDE DEF h, All
  <2> QED  BY <2>1, <2>2, FS_Surjection
<1>3. IsFiniteSet(UNION All)
  <2>1. \A B \in All : IsFiniteSet(B)
    BY <1>1
  <2> HIDE DEF All
  <2> QED  BY <1>2, <2>1, FS_UNION
<1>4. ASSUME NEW k \in Due(v) PROVE \E e \in Events : k \in KeysOf(e)
  <2>1. k \in Key /\ cand[k] # NoRow
    BY DEF Due
  <2>2. cand[k].archive \in catalog /\ \E e \in DOMAIN cand[k].archive : k \in KeysOf(e)
    BY <2>1 DEF IInv, CandidateBacked
  <2>3. DOMAIN cand[k].archive \subseteq Events
    BY <2>2 DEF IInv, BundlesFull
  <2> QED
    BY <2>2, <2>3
<1>5. Due(v) \in SUBSET UNION All
  BY <1>4
<1>6. IsFiniteSet(Due(v))
  <2> HIDE DEF All
  <2> QED  BY <1>3, <1>5, FS_Subset
<1>7. Due(v) \subseteq Key
  BY DEF Due
<1> QED
  BY <1>6, <1>7, FS_CardinalityType

LEMMA ListTyped ==
  ASSUME IInv, Typed, NEW g \in Engine, List(g)
  PROVE  EngineTyped(eng'[g])
<1> DEFINE v == eng[g]
<1>1. EngineTyped(v) /\ v = [f \in Fields |-> v[f]] /\ eng = [h \in Engine |-> eng[h]]
  BY EngineShape DEF Typed
<1>2. PICK p \in SUBSET Due(v) :
        /\ Cardinality(p) = Min({GCLimit(v), Cardinality(Due(v))})
        /\ eng' = [eng EXCEPT ![g] =
             IF p = {} THEN Idle
             ELSE [v EXCEPT !.pc = "refs", !.page = p, !.left = @ - Cardinality(p),
                            !.full = Cardinality(p) = GCLimit(v)]]
  BY DEF List
<1> DEFINE n == Cardinality(p)
           full == n = GCLimit(v)
           w == [v EXCEPT !.pc = "refs", !.page = p, !.left = @ - n, !.full = full]
<1>3. p \subseteq Key
  BY FiniteDue
<1>4. v.left \in 0..MaxPayloads
  BY <1>1 DEF EngineTyped
<1>5. GCLimit(v) \in Nat /\ GCLimit(v) <= v.left
  <2> DEFINE T == {PayloadBatchSize, v.left}
  <2>1. T \in SUBSET Nat /\ T # {}
    BY <1>4, Limits
  <2>2. GCLimit(v) = Min(T)
    BY DEF GCLimit
  <2>3. v.left \in T
    OBVIOUS
  <2> HIDE DEF T, v
  <2>4. Min(T) \in T /\ Min(T) <= v.left
    BY <2>1, <2>3, MinOfNaturals
  <2>5. GCLimit(v) \in T /\ GCLimit(v) <= v.left
    BY Zenon, <2>2, <2>4
  <2> QED  BY <2>1, <2>5
<1>6. n \in Nat /\ n <= GCLimit(v)
  <2> DEFINE a == GCLimit(v)
             T == {a, Cardinality(Due(v))}
  <2>1. T \in SUBSET Nat /\ T # {}
    BY <1>5, FiniteDue
  <2>2. a \in T
    OBVIOUS
  <2>3. n = Min(T)
    BY Zenon, <1>2
  <2> HIDE DEF T, a, v, n
  <2>4. n \in T /\ n <= a
    <3>1. Min(T) \in T /\ Min(T) <= a
      BY <2>1, <2>2, MinOfNaturals
    <3> QED
      BY Zenon, <2>3, <3>1
  <2>5. n \in Nat
    BY <2>1, <2>4
  <2> QED
    BY <2>4, <2>5 DEF a
<1>7. v.left - n \in 0..MaxPayloads
  <2> DEFINE l == v.left
             c == GCLimit(v)
  <2>1. l \in 0..MaxPayloads /\ c \in Nat /\ c <= l /\ n \in Nat /\ n <= c /\ MaxPayloads \in Nat
    BY <1>4, <1>5, <1>6, Limits
  <2> HIDE DEF l, c, n
  <2>2. l - n \in 0..MaxPayloads
    BY <2>1
  <2> QED
    BY <2>2 DEF l
<1>8. EngineTyped(w)
  <2> HIDE DEF v, n, full
  <2>1. /\ w.pc = "refs" /\ w.scanned = v.scanned /\ w.left = v.left - n /\ w.batch = v.batch
        /\ w.archive = v.archive /\ w.todo = v.todo /\ w.page = p /\ w.live = v.live
        /\ w.gone = v.gone
    BY <1>1 DEF Fields
  <2> HIDE DEF w
  <2> QED
    BY <1>1, <1>3, <1>7, <2>1 DEF EngineTyped, Places
<1>9. eng' = [eng EXCEPT ![g] = IF p = {} THEN Idle ELSE w]
  BY <1>2
<1> HIDE DEF w
<1>10. eng'[g] = IF p = {} THEN Idle ELSE w
  BY <1>1, <1>9
<1> QED
  BY <1>8, <1>10, IdleTyped

\* Collecting a page: a worker takes a key, deletes the object, removes the row.
LEMMA CollectTyped ==
  ASSUME IInv, Typed, NEW g \in Engine, NEW k \in Key, Collects(g, k)
  PROVE  EngineTyped(eng'[g])
<1> DEFINE v == eng[g]
<1>1. EngineTyped(v) /\ v = [f \in Fields |-> v[f]] /\ eng = [h \in Engine |-> eng[h]]
  BY EngineShape DEF Typed
<1>2. ASSUME NEW w, EngineTyped(w), w = [f \in Fields |-> w[f]],
             CompletePayloadCandidate(g, k, w)
      PROVE  EngineTyped(eng'[g])
  <2> DEFINE x == [w EXCEPT !.failed = TRUE]
  <2>1. /\ x.pc = w.pc /\ x.scanned = w.scanned /\ x.left = w.left /\ x.batch = w.batch
        /\ x.archive = w.archive /\ x.todo = w.todo /\ x.page = w.page /\ x.live = w.live
        /\ x.gone = w.gone
    BY <1>2 DEF Fields
  <2>2. eng' = [eng EXCEPT ![g] = w] \/ eng' = [eng EXCEPT ![g] = x]
    BY <1>2 DEF CompletePayloadCandidate
  <2> HIDE DEF x
  <2>3. EngineTyped(x)
    BY <1>2, <2>1, SameTyped DEF EngineTyped
  <2>4. eng'[g] = w \/ eng'[g] = x
    BY <1>1, <2>2
  <2> QED
    BY <1>2, <2>3, <2>4
<1>3. CASE CollectReferenced(g, k)
  <2> DEFINE w == [v EXCEPT !.page = @ \ {k}]
  <2>1. CompletePayloadCandidate(g, k, w)
    BY <1>3 DEF CollectReferenced
  <2> HIDE DEF v
  <2>2. /\ w = [f \in Fields |-> w[f]]
        /\ w.pc = v.pc /\ w.scanned = v.scanned /\ w.left = v.left /\ w.batch = v.batch
        /\ w.archive = v.archive /\ w.todo = v.todo /\ w.page = v.page \ {k} /\ w.live = v.live
        /\ w.gone = v.gone
    BY <1>1 DEF Fields
  <2> HIDE DEF w
  <2>3. EngineTyped(w)
    BY <1>1, <2>2 DEF EngineTyped
  <2> QED
    BY <1>2, <2>1, <2>2, <2>3
<1>4. CASE CollectObject(g, k)
  <2> DEFINE w == [v EXCEPT !.page = @ \ {k}, !.gone = @ \cup {k}]
  <2>1. eng'[g] = w /\ Cardinality(v.gone) < PayloadConcurrency
    BY <1>1, <1>4 DEF CollectObject
  <2> HIDE DEF v
  <2>2. /\ w.pc = v.pc /\ w.scanned = v.scanned /\ w.left = v.left /\ w.batch = v.batch
        /\ w.archive = v.archive /\ w.todo = v.todo /\ w.page = v.page \ {k} /\ w.live = v.live
        /\ w.gone = v.gone \cup {k}
    BY <1>1 DEF Fields
  <2> HIDE DEF w
  <2>3. IsFiniteSet(v.gone) /\ Cardinality(v.gone) \in Nat
    BY <1>1, FS_CardinalityType DEF EngineTyped
  <2>4. /\ IsFiniteSet(v.gone \cup {k})
        /\ Cardinality(v.gone \cup {k}) \in {Cardinality(v.gone), Cardinality(v.gone) + 1}
    BY <2>3, FS_AddElement
  <2>5. Cardinality(v.gone \cup {k}) <= PayloadConcurrency
    BY <2>1, <2>3, <2>4, Limits
  <2>6. EngineTyped(w)
    <3>1. IsFiniteSet(w.gone) /\ Cardinality(w.gone) <= PayloadConcurrency
      BY Zenon, <2>2, <2>4, <2>5
    <3> QED
      BY <1>1, <2>2, <3>1 DEF EngineTyped
  <2> QED
    BY <2>1, <2>6
<1>5. CASE Completed(g, k)
  <2> DEFINE w == [v EXCEPT !.gone = @ \ {k}]
  <2>1. CompletePayloadCandidate(g, k, w)
    BY <1>5 DEF Completed
  <2> HIDE DEF v
  <2>2. /\ w = [f \in Fields |-> w[f]]
        /\ w.pc = v.pc /\ w.scanned = v.scanned /\ w.left = v.left /\ w.batch = v.batch
        /\ w.archive = v.archive /\ w.todo = v.todo /\ w.page = v.page /\ w.live = v.live
        /\ w.gone = v.gone \ {k}
    BY <1>1 DEF Fields
  <2> HIDE DEF w
  <2>3. IsFiniteSet(v.gone) /\ Cardinality(v.gone) \in Nat
    BY <1>1, FS_CardinalityType DEF EngineTyped
  <2>4. v.gone \ {k} \in SUBSET v.gone
    OBVIOUS
  <2>5. IsFiniteSet(v.gone \ {k}) /\ Cardinality(v.gone \ {k}) <= Cardinality(v.gone)
    BY <2>3, <2>4, FS_Subset
  <2>6. Cardinality(v.gone \ {k}) \in Nat
    BY <2>5, FS_CardinalityType
  <2>7. Cardinality(v.gone \ {k}) <= PayloadConcurrency
    BY <1>1, <2>3, <2>5, <2>6, Limits DEF EngineTyped
  <2>8. IsFiniteSet(w.gone) /\ Cardinality(w.gone) <= PayloadConcurrency
    BY Zenon, <2>2, <2>5, <2>7
  <2>9. EngineTyped(w)
    BY <1>1, <2>2, <2>8 DEF EngineTyped
  <2> QED
    BY <1>2, <2>1, <2>2, <2>9
<1>6. CASE CollectFails(g, k)
  <2> DEFINE w == [v EXCEPT !.page = @ \ {k}, !.failed = TRUE]
  <2>1. eng'[g] = w
    BY <1>1, <1>6 DEF CollectFails
  <2> HIDE DEF v
  <2>2. /\ w.pc = v.pc /\ w.scanned = v.scanned /\ w.left = v.left /\ w.batch = v.batch
        /\ w.archive = v.archive /\ w.todo = v.todo /\ w.page = v.page \ {k} /\ w.live = v.live
        /\ w.gone = v.gone
    BY <1>1 DEF Fields
  <2> HIDE DEF w
  <2>3. EngineTyped(w)
    BY <1>1, <2>2 DEF EngineTyped
  <2> QED
    BY <2>1, <2>3
<1> QED
  BY <1>3, <1>4, <1>5, <1>6 DEF Collects

\* The steps that begin or end a run or a page.
LEMMA PlaceTyped ==
  ASSUME IInv, Typed, NEW g \in Engine,
         (\E dry \in BOOLEAN : Start(g, dry)) \/ Abort(g) \/ Refs(g) \/ EndPage(g)
  PROVE  EngineTyped(eng'[g])
<1> DEFINE v == eng[g]
<1>1. EngineTyped(v) /\ v = [f \in Fields |-> v[f]] /\ eng = [h \in Engine |-> eng[h]]
  BY EngineShape DEF Typed
<1>2. ASSUME NEW dry \in BOOLEAN, Start(g, dry) PROVE EngineTyped(eng'[g])
  <2> DEFINE w == [Idle EXCEPT !.pc = "scan", !.dry = dry, !.at = now]
  <2>1. eng' = [eng EXCEPT ![g] = w]
    BY <1>2 DEF Start
  <2>2. /\ w.pc = "scan" /\ w.scanned = Idle.scanned /\ w.left = Idle.left
        /\ w.batch = Idle.batch /\ w.archive = Idle.archive /\ w.todo = Idle.todo
        /\ w.page = Idle.page /\ w.live = Idle.live /\ w.gone = Idle.gone
    BY DEF Idle
  <2> HIDE DEF w
  <2>3. EngineTyped(w)
    BY <2>2, IdleTyped, SameTyped DEF Places
  <2>4. eng'[g] = w
    BY <1>1, <2>1
  <2> QED
    BY <2>3, <2>4
<1>3. CASE Abort(g)
  BY <1>1, <1>3, IdleTyped DEF Abort
<1>4. CASE Refs(g)
  <2> DEFINE L == {k \in v.page : \E e \in Live : k \in KeysOf(e)}
             w == [v EXCEPT !.pc = "gc", !.live = L]
  <2>1. eng'[g] = w
    BY <1>1, <1>4 DEF Refs
  <2>2. L \subseteq v.page
    OBVIOUS
  <2> HIDE DEF v, L
  <2>3. /\ w.pc = "gc" /\ w.scanned = v.scanned /\ w.left = v.left /\ w.batch = v.batch
        /\ w.archive = v.archive /\ w.todo = v.todo /\ w.page = v.page /\ w.live = L
        /\ w.gone = v.gone
    BY <1>1 DEF Fields
  <2> HIDE DEF w
  <2>4. EngineTyped(w)
    BY <1>1, <2>2, <2>3 DEF EngineTyped, Places
  <2> QED
    BY <2>1, <2>4
<1>5. CASE EndPage(g)
  <2> DEFINE w == [v EXCEPT !.pc = "list", !.live = {}, !.full = FALSE]
  <2>1. eng'[g] = Idle \/ eng'[g] = w
    BY <1>1, <1>5 DEF EndPage
  <2> HIDE DEF v
  <2>2. /\ w.pc = "list" /\ w.scanned = v.scanned /\ w.left = v.left /\ w.batch = v.batch
        /\ w.archive = v.archive /\ w.todo = v.todo /\ w.page = v.page /\ w.live = {}
        /\ w.gone = v.gone
    BY <1>1 DEF Fields
  <2> HIDE DEF w
  <2>3. EngineTyped(w)
    BY <1>1, <2>2 DEF EngineTyped, Places
  <2> QED
    BY <2>1, <2>3, IdleTyped
<1> QED
  BY <1>2, <1>3, <1>4, <1>5

LEMMA EngineStep ==
  ASSUME IInv, Typed, NEW g \in Engine, Run(g)
  PROVE  \A h \in Engine : EngineTyped(eng'[h])
<1>1. EngineTyped(eng'[g])
  BY ScanTyped, LoadTyped, ArchiveTyped, DeleteTyped, ListTyped, CollectTyped, PlaceTyped
     DEF Run, Collects
<1>2. \A h \in Engine \ {g} : eng'[h] = eng[h]
  BY RunMoved DEF Moved
<1> QED
  BY <1>1, <1>2 DEF Typed

-----------------------------------------------------------------------------
(* Types: tables and stores                                                *)

LEMMA StageTyped ==
  ASSUME IInv, Typed, NEW g \in Engine, At(g, "delete"), NEW k \in Key
  PROVE  LET c == Stage(k, eng[g].batch, eng[g].archive) IN c = NoRow \/ c \in CandRow
<1> DEFINE S == eng[g].batch
           a == eng[g].archive
           R == Releases(S, k)
           until == Max(R)
           old == cand[k]
           c == Stage(k, S, a)
<1> SUFFICES c = NoRow \/ c \in CandRow
  OBVIOUS
<1>1. /\ S \in SUBSET Events /\ a \in Archives /\ DOMAIN a = S
      /\ old = NoRow \/ old \in CandRow
      /\ now \in Int
  <2>1. S \in SUBSET Events /\ a \in Archives
    BY DEF Typed, EngineTyped
  <2>2. DOMAIN a = S
    BY DEF IInv, Holds, At
  <2>3. (old = NoRow \/ old \in CandRow) /\ now \in 0..MaxTime
    BY DEF Typed, StoreTyped
  <2> QED
    BY <2>1, <2>2, <2>3, ClockAssumption
<1>2. CASE R = {} \/ k \in Failed
  <2>1. c = old
    BY <1>2 DEF Stage
  <2> HIDE DEF c, old
  <2> QED
    BY <1>1, <2>1
<1>3. CASE ~(R = {} \/ k \in Failed)
  <2>1. until \in Int
    <3>1. R \in SUBSET Int /\ IsFiniteSet(R) /\ R # {}
      BY <1>1, <1>3, ReleasesType
    <3> HIDE DEF R
    <3>2. Max(R) \in R
      BY <3>1, MaxOfFinite
    <3> QED
      BY <3>1, <3>2
  <2>2. a \in Archives \ {<<>>}
    <3>1. \E e \in S : TRUE
      BY <1>3 DEF Releases
    <3>2. DOMAIN <<>> = {}
      OBVIOUS
    <3> HIDE DEF a, S
    <3>3. a # <<>>
      BY <1>1, <3>1, <3>2
    <3> QED
      BY Zenon, <1>1, <3>3
  <2>3. CASE old = NoRow
    <3>1. c = [eligible |-> until, since |-> now, retry |-> 0, archive |-> a]
      BY <1>3, <2>3 DEF Stage
    <3> HIDE DEF c, until, a
    <3>2. c \in CandRow
      BY <1>1, <2>1, <2>2, <3>1 DEF CandRow
    <3> QED
      BY <3>2
  <2>4. CASE old # NoRow
    <3> DEFINE m == Max({old.eligible, until})
    <3>1. old \in CandRow /\ old.eligible \in Int
      BY <1>1, <2>4 DEF CandRow
    <3>2. m \in Int
      <4> HIDE DEF until, old
      <4>1. \E x \in {old.eligible, until} : \A y \in {old.eligible, until} : x >= y
        BY <2>1, <3>1
      <4>2. m \in {old.eligible, until}
        BY <4>1 DEF Max
      <4> QED
        BY <2>1, <3>1, <4>2
    <3>3. c = [old EXCEPT !.eligible = m, !.archive = a]
      BY <1>3, <2>4 DEF Stage
    <3> HIDE DEF c, m, a, old
    <3>4. c \in CandRow
      BY <2>2, <3>1, <3>2, <3>3 DEF CandRow
    <3> QED
      BY <3>4
  <2> QED
    BY <2>3, <2>4
<1> QED
  BY <1>2, <1>3

CandTyped == \A k \in Key : cand[k] = NoRow \/ cand[k] \in CandRow

\* What a run does to the candidate rows.
LEMMA RunCand ==
  ASSUME IInv, Typed, NEW g \in Engine, Run(g)
  PROVE  CandTyped'
<1>1. CandTyped /\ cand = [k \in Key |-> cand[k]] /\ now \in Int /\ RetryDelay \in Int
  BY ClockAssumption DEF Typed, StoreTyped, CandTyped, IInv, Shapes
<1>2. CASE UNCHANGED cand
  BY <1>1, <1>2 DEF CandTyped
<1>3. CASE DeleteRetentionEvents(g)
  <2>1. CASE cand' = [k \in Key |-> Stage(k, eng[g].batch, eng[g].archive)]
    <3>1. At(g, "delete")
      BY <1>3 DEF DeleteRetentionEvents
    <3>2. ASSUME NEW k \in Key PROVE cand'[k] = NoRow \/ cand'[k] \in CandRow
      <4>1. cand'[k] = Stage(k, eng[g].batch, eng[g].archive)
        BY <2>1
      <4> QED
        BY <3>1, <4>1, StageTyped
    <3> QED
      BY <3>2 DEF CandTyped
  <2> QED
    BY <1>2, <1>3, <2>1 DEF DeleteRetentionEvents
<1>4. ASSUME NEW k \in Key, Collects(g, k) PROVE CandTyped'
  <2>1. \/ cand' = cand \/ cand' = [cand EXCEPT ![k] = NoRow]
        \/ cand[k] # NoRow /\ cand' = [cand EXCEPT ![k].retry = now + RetryDelay]
    BY <1>4 DEF Collects, CollectReferenced, CollectObject, Completed, CollectFails,
                CompletePayloadCandidate, tables
  <2>2. CASE cand' = [cand EXCEPT ![k] = NoRow]
    BY <1>1, <2>2 DEF CandTyped
  <2>3. CASE cand[k] # NoRow /\ cand' = [cand EXCEPT ![k].retry = now + RetryDelay]
    <3> DEFINE r == now + RetryDelay
    <3>1. r \in Int /\ cand[k] \in CandRow
      BY <1>1, <2>3 DEF CandTyped
    <3>2. /\ cand'[k] = [cand[k] EXCEPT !.retry = r]
          /\ \A m \in Key \ {k} : cand'[m] = cand[m]
      BY <1>1, <2>3
    <3> HIDE DEF r
    <3>3. cand'[k] \in CandRow
      BY <3>1, <3>2 DEF CandRow
    <3> QED
      BY <1>1, <3>2, <3>3 DEF CandTyped
  <2> QED
    BY <1>2, <2>1, <2>2, <2>3
<1> QED
  BY <1>2, <1>3, <1>4 DEF Run, Collects, Start, Scan, Load, Copy, Seal, RecordArchive, List, Refs,
     EndPage, Abort, tables

\* What a run does to the other tables and to the stores.
LEMMA RunStore ==
  ASSUME IInv, Typed, NEW g \in Engine, Run(g)
  PROVE  StoreTyped'
<1>0. CandTyped'
  BY RunCand
<1>1. /\ UNCHANGED <<now, sent, rst>>
      /\ object' \subseteq object
  BY DEF Run, Start, Scan, Load, Copy, Seal, RecordArchive, DeleteRetentionEvents, List, Refs,
         EndPage, Abort, CollectReferenced, CollectObject, Completed, CollectFails, stores
<1>2. eng[g].archive \in Archives /\ eng[g].batch \subseteq Events
  BY DEF Typed, EngineTyped
<1>3. copy' \subseteq Key
  <2>1. copy' = copy \/ \E k \in Key : copy' = copy \cup {k}
    BY DEF Run, Start, Scan, Load, Copy, Seal, RecordArchive, DeleteRetentionEvents, List, Refs,
           EndPage, Abort, CollectReferenced, CollectObject, Completed, CollectFails, stores
  <2> QED
    BY <2>1 DEF Typed, StoreTyped
<1>4. bundle' \subseteq Archives
  <2>1. bundle' = bundle \/ bundle' = bundle \cup {eng[g].archive}
    BY DEF Run, Start, Scan, Load, Copy, Seal, RecordArchive, DeleteRetentionEvents, List, Refs,
           EndPage, Abort, CollectReferenced, CollectObject, Completed, CollectFails, stores
  <2> QED
    BY <1>2, <2>1 DEF Typed, StoreTyped
<1>5. catalog' \subseteq Archives
  BY <1>4, RunMoved DEF Moved
<1>6. cover' \in [Events -> Archives]
  <2> DEFINE a == eng[g].archive
  <2>1. \/ cover' = cover
        \/ cover' = [e \in Events |-> IF e \in DOMAIN a THEN a ELSE cover[e]]
    BY DEF Run, Start, Scan, Load, Copy, Seal, RecordArchive, DeleteRetentionEvents, List, Refs,
           EndPage, Abort, CollectReferenced, CollectObject, Completed, CollectFails, tables
  <2> HIDE DEF a
  <2>2. a \in Archives
    BY <1>2 DEF a
  <2> QED
    BY <2>1, <2>2 DEF Typed, StoreTyped
<1>7. row' \in [Events -> Deliveries \cup {Absent}]
  <2> DEFINE S == eng[g].batch
  <2>1. \/ row' = row
        \/ row' = [e \in Events |-> IF e \in S THEN Absent ELSE row[e]]
    BY DEF Run, Start, Scan, Load, Copy, Seal, RecordArchive, DeleteRetentionEvents, List, Refs,
           EndPage, Abort, CollectReferenced, CollectObject, Completed, CollectFails, tables
  <2> HIDE DEF S
  <2> QED
    BY <2>1 DEF Typed, StoreTyped
<1> QED
  BY <1>0, <1>1, <1>3, <1>4, <1>5, <1>6, <1>7 DEF Typed, StoreTyped, CandTyped

\* The producers, the ingestor, the clock and the restore route.
LEMMA OthersTyped ==
  ASSUME IInv, Typed, Others
  PROVE  Typed'
<1>0. UNCHANGED <<copy, bundle, catalog, cand, eng>>
  BY OthersKeep
<1>1. \A g \in Engine : EngineTyped(eng'[g])
  BY <1>0 DEF Typed
<1> SUFFICES StoreTyped'
  BY <1>1 DEF Typed
<1>2. StoreTyped
  BY DEF Typed
<1>3. ASSUME NEW e \in Events, Capture(e) PROVE StoreTyped'
  <2>1. KeysOf(e) \subseteq Key
    BY EvAssumption DEF KeysOf
  <2>2. /\ UNCHANGED <<now, row, cover, rst>>
        /\ sent' = sent \cup {e} /\ object' = object \cup (KeysOf(e) \ Failed)
    BY <1>3 DEF Capture, tables
  <2>3. sent' \subseteq Events /\ object' \subseteq Key
    BY <1>2, <2>1, <2>2 DEF StoreTyped
  <2> QED
    BY <1>0, <1>2, <2>2, <2>3 DEF StoreTyped
<1>4. ASSUME NEW e \in Events, NEW d \in Deliveries, Ingest(e, d) PROVE StoreTyped'
  <2>1. UNCHANGED <<now, sent, cover, object, rst>> /\ row' = [row EXCEPT ![e] = d]
    BY <1>4 DEF Ingest, stores
  <2>2. row' \in [Events -> Deliveries \cup {Absent}]
    BY <1>2, <2>1 DEF StoreTyped
  <2> QED
    BY <1>0, <1>2, <2>1, <2>2 DEF StoreTyped
<1>5. CASE Tick
  <2>1. UNCHANGED <<sent, row, cover, object, rst>> /\ now < MaxTime /\ now' = now + 1
    BY <1>5 DEF Tick, tables, stores
  <2>2. now' \in 0..MaxTime
    BY <1>2, <2>1, ClockAssumption DEF StoreTyped
  <2>3. sent' = sent /\ row' = row /\ cover' = cover /\ object' = object /\ rst' = rst
    BY <2>1
  <2> QED
    BY <1>0, <1>2, <2>2, <2>3 DEF StoreTyped
<1>6. ASSUME NEW a \in catalog, NEW first \in DOMAIN a, RestorePayloads(a, first)
      PROVE  StoreTyped'
  <2> DEFINE chunk == ReadEvents(a, first)
             keys == UNION {KeysOf(e) : e \in chunk}
  <2>1. UNCHANGED <<now, sent, row, cover>>
    BY <1>6 DEF RestorePayloads, tables
  <2>2. PICK S \in SUBSET (keys \cap copy) :
          /\ object' = object \cup S
          /\ rst' = IF S = keys THEN [archive |-> a, chunk |-> chunk] ELSE NoRestore
    BY <1>6 DEF RestorePayloads
  <2>3. object' \subseteq Key
    BY <1>2, <2>2 DEF StoreTyped
  <2>4. chunk \subseteq DOMAIN a
    BY DEF ReadEvents, FirstOf
  <2>5. a \in Archives
    BY <1>2 DEF StoreTyped
  <2> HIDE DEF chunk, keys
  <2>6. \/ rst'.archive = a /\ rst'.chunk = chunk
        \/ rst'.archive = <<>> /\ rst'.chunk = {}
    BY <2>2 DEF NoRestore
  <2>7. rst'.archive \in Archives /\ rst'.chunk \subseteq DOMAIN rst'.archive
    BY <2>4, <2>5, <2>6, NoArchive
  <2> QED
    BY <1>0, <1>2, <2>1, <2>3, <2>7 DEF StoreTyped
<1>7. ASSUME now' = now, sent' = sent, cover' = cover, object' = object, rst' = NoRestore,
             row' \in [Events -> Deliveries \cup {Absent}]
      PROVE  StoreTyped'
  <2>1. rst'.archive = <<>> /\ rst'.chunk = {}
    BY <1>7 DEF NoRestore
  <2>2. rst'.archive \in Archives /\ rst'.chunk \subseteq DOMAIN rst'.archive
    BY <2>1, NoArchive
  <2> QED
    BY <1>0, <1>2, <1>7, <2>2 DEF StoreTyped
<1>8. CASE RestoreEvents
  <2> DEFINE a == rst.archive
             chunk == rst.chunk
  <2>1. /\ now' = now /\ sent' = sent /\ cover' = cover /\ object' = object
        /\ rst' = NoRestore
        /\ row' = [e \in Events |-> IF e \in chunk /\ row[e] = Absent THEN a[e] ELSE row[e]]
    BY <1>8 DEF RestoreEvents, stores
  <2>2. a \in Archives /\ chunk \subseteq DOMAIN a /\ row \in [Events -> Deliveries \cup {Absent}]
    BY <1>2 DEF StoreTyped
  <2> HIDE DEF a, chunk
  <2>3. \A e \in chunk : a[e] \in Deliveries
    <3>1. PICK T \in SUBSET Events : a \in [T -> Deliveries]
      BY <2>2 DEF Archives
    <3> QED
      BY <2>2, <3>1
  <2>4. row' \in [Events -> Deliveries \cup {Absent}]
    BY <2>1, <2>2, <2>3
  <2> QED
    BY <1>7, <2>1, <2>4
<1>9. CASE RestoreAbort
  <2>1. /\ now' = now /\ sent' = sent /\ cover' = cover /\ object' = object /\ row' = row
        /\ rst' = NoRestore
    BY <1>9 DEF RestoreAbort, tables, stores
  <2>2. row' \in [Events -> Deliveries \cup {Absent}]
    BY <1>2, <2>1 DEF StoreTyped
  <2> QED
    BY <1>7, <2>1, <2>2
<1>10. CASE UNCHANGED vars
  <2>1. /\ now' = now /\ sent' = sent /\ cover' = cover /\ object' = object /\ row' = row
        /\ rst' = rst
    BY <1>10 DEF vars, tables, stores
  <2> QED
    BY <1>0, <1>2, <2>1 DEF StoreTyped
<1>11. CASE Restore
  BY Zenon, <1>6, <1>8, <1>9, <1>11 DEF Restore
<1> QED
  BY Zenon, <1>3, <1>4, <1>5, <1>10, <1>11 DEF Others

LEMMA InitTyped == Init => Typed
<1> SUFFICES ASSUME Init PROVE Typed
  OBVIOUS
<1>1. \A g \in Engine : EngineTyped(eng[g])
  BY IdleTyped DEF Init
<1>2. StoreTyped
  BY NoArchive, ClockAssumption DEF Init, StoreTyped, NoRestore
<1> QED
  BY <1>1, <1>2 DEF Typed

\* The command keeps to its configured work: for any number of engines, crashes, restores and
\* redeliveries, no run scans more than MaxEvents events or collects more than MaxPayloads
\* payloads, no worker pool is more than PayloadConcurrency objects ahead of the candidate
\* rows, and every row, archive and candidate is one of the kinds the tables hold.
THEOREM RetentionTypes == Spec => []TypeOK
<1>1. ASSUME IInv, Typed, [Next]_vars PROVE Typed'
  <2>1. ASSUME NEW g \in Engine, Run(g) PROVE Typed'
    BY <1>1, <2>1, EngineStep, RunStore DEF Typed
  <2> QED
    BY <1>1, <2>1, OthersTyped DEF Next, Others
<1>2. IInv /\ Typed /\ [Next]_vars => Typed'
  BY <1>1
<1>3. Typed => TypeOK
  BY DEF Typed, StoreTyped, EngineTyped, Places, TypeOK
<1> QED
  BY <1>2, <1>3, InitTyped, RetentionInvariant, PTL DEF Spec
=============================================================================
