----------------------------- MODULE Retention -----------------------------
(***************************************************************************)
(* The retention command over a PostgreSQL store: retention.Engine.Run,    *)
(* the archive bundles it writes, the rows DeleteRetentionEvents stages    *)
(* and the payload garbage collection, with the producers, the ingestor    *)
(* and the restore route that share the store with it.                     *)
(*                                                                         *)
(* Events are numbered in (event_time, event_id) order, the order of       *)
(* ScanRetentionEvents.  A payload object is named by its content, so two  *)
(* events may refer to one key.  The ID of an archive is the hash of its   *)
(* rows: it is modelled as those rows, the function from the archived      *)
(* events to the delivery each row came from.                              *)
(***************************************************************************)
EXTENDS Integers, Sequences, FiniteSets, FiniteSetsExt

CONSTANTS
  N, Ev,               \* events 1..N; Ev[e] = [time, class, kind, links]
  Key, Failed,         \* payload keys; those whose Put failed (an error-only link)
  Deliveries,          \* the deliveries a row can come from
  Engine,              \* runs of the command that may be at work together
  EventClasses, EventPolicies, DefaultEventTTL,
  PayloadClasses, PayloadPolicies, DefaultPayloadTTL,
  EventBatchSize, MaxEvents, PayloadBatchSize, MaxPayloads, PayloadConcurrency,
  Grace, RetryDelay,
  RestoreLimit,        \* events per restore call
  MaxTime              \* bound on the clock

Events == 1..N
Unset == ""            \* an empty field of a match, an empty class
Never == -1
Absent == 0            \* no row
NoRow == [archive |-> <<>>]

ASSUME NAssumption == N \in Nat
ASSUME EvAssumption ==
  \A e \in Events :
    /\ Ev[e].time \in Int /\ IsFiniteSet(Ev[e].links)
    /\ \A l \in Ev[e].links : l.key \in Key /\ l.until \in Int
ASSUME DeliveriesAssumption == Absent \notin Deliveries

\* What New and validate leave of a configuration: positive limits, grace period and TTLs, a
\* default TTL of 0 for none.
Configured ==
  /\ {EventBatchSize, MaxEvents, PayloadBatchSize, MaxPayloads, PayloadConcurrency, Grace}
       \subseteq Nat \ {0}
  /\ \A P \in {EventPolicies, PayloadPolicies} :
       DOMAIN P = 1..Len(P) /\ \A i \in DOMAIN P : P[i].ttl \in Nat \ {0}
  /\ \A C \in {EventClasses, PayloadClasses} :
       Unset \notin DOMAIN C /\ \A c \in DOMAIN C : C[c] \in Nat \ {0}
  /\ {DefaultEventTTL, DefaultPayloadTTL} \subseteq Nat

ASSUME ConfigAssumption == Configured
ASSUME ClockAssumption == {MaxTime, RetryDelay} \subseteq Nat

VARIABLES
  now,       \* the clock of the database and of the command
  sent,      \* events captured: their payloads are stored, their envelope is in the stream
  row,       \* trail_events: [event -> Absent or the delivery it was written from]
  object,    \* keys in the active payload store
  copy,      \* payload copies in the archive store
  bundle,    \* archives whose manifest is written
  catalog,   \* trail_archives
  cover,     \* trail_event_archives: [event -> archive, <<>> for none]
  cand,      \* trail_payload_gc_candidates: [key -> row or NoRow]
  eng,       \* one record per engine
  rst        \* the restore in progress

tables == <<row, catalog, cover, cand>>
stores == <<object, copy, bundle>>
vars == <<now, sent, tables, stores, eng, rst>>

Live == {e \in Events : row[e] # Absent}
KeysOf(e) == {l.key : l \in Ev[e].links}
Archives == UNION {[S -> Deliveries] : S \in SUBSET Events}

-----------------------------------------------------------------------------
(* Policies                                                                *)

matchEvent(m, v) == m.kind \in {Unset, v.kind}

\* Class before policies before default; an unknown class keeps for ever.
Expiry(start, class, classes, policies, hits, default) ==
  IF class # Unset
  THEN IF class \in DOMAIN classes THEN start + classes[class] ELSE Never
  ELSE IF hits # {} THEN start + policies[Min(hits)].ttl
  ELSE IF default > 0 THEN start + default
  ELSE Never

eventExpiry(v) ==
  Expiry(v.time, v.class, EventClasses, EventPolicies,
         {i \in DOMAIN EventPolicies : matchEvent(EventPolicies[i], v)}, DefaultEventTTL)

payloadExpiry(v, p) ==
  IF p.until > 0 THEN p.until
  ELSE Expiry(v.time, p.class, PayloadClasses, PayloadPolicies,
              {i \in DOMAIN PayloadPolicies :
                 /\ matchEvent(PayloadPolicies[i], v)
                 /\ PayloadPolicies[i].role \in {Unset, p.role}}, DefaultPayloadTTL)

\* When the batch S lets go of the key k: never unless some reference says so.
Releases(S, k) ==
  (UNION {{payloadExpiry(Ev[e], l) : l \in {m \in Ev[e].links : m.key = k}} : e \in S}) \ {Never}

-----------------------------------------------------------------------------
Idle == [pc |-> "idle", dry |-> FALSE, at |-> 0, cursor |-> 0, scanned |-> 0, more |-> FALSE,
         batch |-> {}, archive |-> <<>>, todo |-> {},
         left |-> 0, page |-> {}, live |-> {}, gone |-> {}, failed |-> FALSE, full |-> FALSE]

NoRestore == [archive |-> <<>>, chunk |-> {}]

Init ==
  /\ now = 0
  /\ sent = {}
  /\ row = [e \in Events |-> Absent]
  /\ object = {} /\ copy = {} /\ bundle = {} /\ catalog = {}
  /\ cover = [e \in Events |-> <<>>]
  /\ cand = [k \in Key |-> NoRow]
  /\ eng = [g \in Engine |-> Idle]
  /\ rst = NoRestore

-----------------------------------------------------------------------------
(* Engine.Run: pages of events, oldest first                               *)

At(g, pc) == eng[g].pc = pc

\* An error, a cancelled context, the end of MaxRuntime or a crash ends a run anywhere.
Abort(g) ==
  /\ ~At(g, "idle")
  /\ eng' = [eng EXCEPT ![g] = Idle]
  /\ UNCHANGED <<now, sent, tables, stores, rst>>

Start(g, dry) ==
  /\ At(g, "idle")
  /\ eng' = [eng EXCEPT ![g] = [Idle EXCEPT !.pc = "scan", !.dry = dry, !.at = now]]
  /\ UNCHANGED <<now, sent, tables, stores, rst>>

FirstOf(S, n) == {x \in S : Cardinality({y \in S : y < x}) < n}

\* Where a run goes after a page.
AfterPage(v, more) ==
  IF more THEN [v EXCEPT !.pc = "scan"]
  ELSE IF v.dry THEN Idle
  ELSE [Idle EXCEPT !.pc = "list", !.at = v.at, !.left = MaxPayloads]

PageLimit(v) == Min({EventBatchSize, MaxEvents - v.scanned})

Scan(g) ==
  LET v == eng[g]
      rest == {e \in Live : e > v.cursor}
      page == FirstOf(rest, PageLimit(v))
      due == {e \in page : eventExpiry(Ev[e]) # Never /\ eventExpiry(Ev[e]) <= v.at}
      w == [v EXCEPT !.cursor = Max(page), !.scanned = @ + Cardinality(page),
                     !.more = page # rest]
  IN /\ At(g, "scan")
     /\ eng' = [eng EXCEPT ![g] =
          IF v.scanned >= MaxEvents \/ page = {} THEN AfterPage(v, FALSE)
          ELSE IF due = {} \/ v.dry THEN AfterPage(w, w.more)
          ELSE [w EXCEPT !.pc = "load", !.batch = due]]
     /\ UNCHANGED <<now, sent, tables, stores, rst>>

sameArchiveEvents(records, eligible) == records = eligible

\* LoadArchiveEvents, and sameArchiveEvents on what it returned.
Load(g) ==
  LET v == eng[g] IN
  /\ At(g, "load")
  /\ eng' = [eng EXCEPT ![g] =
       IF sameArchiveEvents(v.batch \cap Live, v.batch)
       THEN [v EXCEPT !.pc = "copy", !.archive = [e \in v.batch |-> row[e]],
                      !.todo = UNION {KeysOf(e) : e \in v.batch}]
       ELSE Idle]
  /\ UNCHANGED <<now, sent, tables, stores, rst>>

\* BundleWriter.Write copies one payload; one it cannot open fails the bundle.
Copy(g, k) ==
  /\ At(g, "copy")
  /\ k \in eng[g].todo
  /\ \/ /\ k \in object
        /\ copy' = copy \cup {k}
        /\ eng' = [eng EXCEPT ![g].todo = @ \ {k}]
     \/ /\ k \notin object
        /\ eng' = [eng EXCEPT ![g] = Idle]
        /\ UNCHANGED copy
  /\ UNCHANGED <<now, sent, tables, object, bundle, rst>>

Seal_Early(g) ==
  /\ At(g, "copy")
  /\ bundle' = bundle \cup {eng[g].archive}
  /\ eng' = [eng EXCEPT ![g].pc = "record", ![g].todo = {}]
  /\ UNCHANGED <<now, sent, tables, object, copy, rst>>

\* The manifest is written last and read back.
Seal(g) ==
  /\ At(g, "copy")
  /\ eng[g].todo = {}
  /\ bundle' = bundle \cup {eng[g].archive}
  /\ eng' = [eng EXCEPT ![g].pc = "record"]
  /\ UNCHANGED <<now, sent, tables, object, copy, rst>>

RecordArchive_EventsOnly(g) ==
  LET a == eng[g].archive IN
  /\ At(g, "record")
  /\ cover' = [e \in Events |-> IF e \in DOMAIN a THEN a ELSE cover[e]]
  /\ eng' = [eng EXCEPT ![g].pc = "delete"]
  /\ UNCHANGED <<now, sent, row, catalog, cand, stores, rst>>

\* RecordArchive, one transaction.  The newest archive takes over an event's mapping.
RecordArchive(g) ==
  LET a == eng[g].archive IN
  /\ At(g, "record")
  /\ catalog' = catalog \cup {a}
  /\ cover' = [e \in Events |-> IF e \in DOMAIN a THEN a ELSE cover[e]]
  /\ eng' = [eng EXCEPT ![g].pc = "delete"]
  /\ UNCHANGED <<now, sent, row, cand, stores, rst>>

Stage_WithoutArchive(k, S, a) ==
  IF Releases(S, k) = {} THEN cand[k]
  ELSE [eligible |-> Max(Releases(S, k)), since |-> now, retry |-> 0, archive |-> <<>>]

\* The candidate row of k after the batch S of the archive a.
Stage(k, S, a) ==
  LET old == cand[k]
      until == Max(Releases(S, k))
  IN IF Releases(S, k) = {} \/ k \in Failed THEN old
     ELSE IF old = NoRow THEN [eligible |-> until, since |-> now, retry |-> 0, archive |-> a]
     ELSE [old EXCEPT !.eligible = Max({@, until}), !.archive = a]

\* DeleteRetentionEvents, one transaction: stage the payloads, check that the archive
\* still covers every event of the batch, delete.
DeleteRetentionEvents(g) ==
  LET v == eng[g] IN
  /\ At(g, "delete")
  /\ \/ /\ \A e \in v.batch : cover[e] = v.archive
        /\ cand' = [k \in Key |-> Stage(k, v.batch, v.archive)]
        /\ row' = [e \in Events |-> IF e \in v.batch THEN Absent ELSE row[e]]
        /\ eng' = [eng EXCEPT ![g] =
             AfterPage([v EXCEPT !.batch = {}, !.archive = <<>>], v.more)]
     \/ /\ \E e \in v.batch : cover[e] # v.archive
        /\ eng' = [eng EXCEPT ![g] = Idle]
        /\ UNCHANGED <<cand, row>>
  /\ UNCHANGED <<now, sent, catalog, cover, stores, rst>>

-----------------------------------------------------------------------------
(* Engine.collectPayloads: pages of candidates, checked and then deleted   *)

GCLimit(v) == Min({PayloadBatchSize, v.left})

\* ListPayloadCandidates takes the oldest due rows.
Due(v) ==
  {k \in Key : /\ cand[k] # NoRow
               /\ cand[k].eligible <= now
               /\ cand[k].since <= v.at - Grace
               /\ cand[k].retry <= now}

List(g) ==
  LET v == eng[g] IN
  /\ At(g, "list")
  /\ \E page \in SUBSET Due(v) :
       /\ Cardinality(page) = Min({GCLimit(v), Cardinality(Due(v))})
       /\ \A k \in page, m \in Due(v) \ page : cand[k].since <= cand[m].since
       /\ eng' = [eng EXCEPT ![g] =
            IF page = {} THEN Idle
            ELSE [v EXCEPT !.pc = "refs", !.page = page, !.left = @ - Cardinality(page),
                           !.full = Cardinality(page) = GCLimit(v)]]
  /\ UNCHANGED <<now, sent, tables, stores, rst>>

\* ReferencedPayloads for the whole page.
Refs(g) ==
  /\ At(g, "refs")
  /\ eng' = [eng EXCEPT ![g].pc = "gc",
                        ![g].live = {k \in eng[g].page : \E e \in Live : k \in KeysOf(e)}]
  /\ UNCHANGED <<now, sent, tables, stores, rst>>

\* CompletePayloadCandidate removes the row; when the call fails the other workers go on and
\* the page will end in an error.
CompletePayloadCandidate(g, k, v) ==
  \/ cand' = [cand EXCEPT ![k] = NoRow] /\ eng' = [eng EXCEPT ![g] = v]
  \/ UNCHANGED cand /\ eng' = [eng EXCEPT ![g] = [v EXCEPT !.failed = TRUE]]

\* processCandidate: the answer of Refs decides, however old it is by now.  Workers are at
\* most PayloadConcurrency objects ahead of the rows.
CollectReferenced(g, k) ==
  /\ At(g, "gc")
  /\ k \in eng[g].page \cap eng[g].live
  /\ CompletePayloadCandidate(g, k, [eng[g] EXCEPT !.page = @ \ {k}])
  /\ UNCHANGED <<now, sent, row, catalog, cover, stores, rst>>

CollectObject(g, k) ==
  /\ At(g, "gc")
  /\ k \in eng[g].page \ eng[g].live
  /\ Cardinality(eng[g].gone) < PayloadConcurrency
  /\ object' = object \ {k}
  /\ eng' = [eng EXCEPT ![g].page = @ \ {k}, ![g].gone = @ \cup {k}]
  /\ UNCHANGED <<now, sent, tables, copy, bundle, rst>>

Completed(g, k) ==
  /\ At(g, "gc")
  /\ k \in eng[g].gone
  /\ CompletePayloadCandidate(g, k, [eng[g] EXCEPT !.gone = @ \ {k}])
  /\ UNCHANGED <<now, sent, row, catalog, cover, stores, rst>>

\* The store is not configured, the reference is not content addressed, Delete fails:
\* the row, if it is still there, is put off (unless that fails too) and the page will end
\* in an error.
CollectFails(g, k) ==
  /\ At(g, "gc")
  /\ k \in eng[g].page \ eng[g].live
  /\ cand' \in {cand, IF cand[k] = NoRow THEN cand ELSE [cand EXCEPT ![k].retry = now + RetryDelay]}
  /\ eng' = [eng EXCEPT ![g].page = @ \ {k}, ![g].failed = TRUE]
  /\ UNCHANGED <<now, sent, row, catalog, cover, stores, rst>>

EndPage(g) ==
  LET v == eng[g] IN
  /\ At(g, "gc")
  /\ v.page = {} /\ v.gone = {}
  /\ eng' = [eng EXCEPT ![g] =
       IF v.failed \/ ~v.full \/ v.left = 0 THEN Idle
       ELSE [v EXCEPT !.pc = "list", !.live = {}, !.full = FALSE]]
  /\ UNCHANGED <<now, sent, tables, stores, rst>>

-----------------------------------------------------------------------------
(* The rest of the system                                                  *)

\* A producer stores the payloads of an event and sends it (trailhttp, the spooler).
Capture(e) ==
  /\ e \notin sent
  /\ Ev[e].time <= now
  /\ sent' = sent \cup {e}
  /\ object' = object \cup (KeysOf(e) \ Failed)
  /\ UNCHANGED <<now, tables, copy, bundle, eng, rst>>

\* WriteBatches: ON CONFLICT DO NOTHING.  The stream may deliver an event again.
Ingest(e, d) ==
  /\ e \in sent
  /\ row[e] = Absent
  /\ row' = [row EXCEPT ![e] = d]
  /\ UNCHANGED <<now, sent, catalog, cover, cand, stores, eng, rst>>

Tick ==
  /\ now < MaxTime
  /\ now' = now + 1
  /\ UNCHANGED <<sent, tables, stores, eng, rst>>

ReadManifest(a) == a \in bundle

\* A chunk of the archived events, from where the caller says.
ReadEvents(a, first) == FirstOf({e \in DOMAIN a : e >= first}, RestoreLimit)

\* One call of archive.Restore: the manifest and a chunk are read, the payloads of the chunk
\* are put back, then its events; the first payload that is missing or cannot be put ends it.
RestorePayloads(a, first) ==
  LET chunk == ReadEvents(a, first)
      keys == UNION {KeysOf(e) : e \in chunk}
  IN /\ rst = NoRestore
     /\ ReadManifest(a)
     /\ \E S \in SUBSET (keys \cap copy) :
          /\ object' = object \cup S
          /\ rst' = IF S = keys THEN [archive |-> a, chunk |-> chunk] ELSE NoRestore
     /\ UNCHANGED <<now, sent, tables, copy, bundle, eng>>

RestoreEvents ==
  /\ rst # NoRestore
  /\ row' = [e \in Events |->
       IF e \in rst.chunk /\ row[e] = Absent THEN rst.archive[e] ELSE row[e]]
  /\ rst' = NoRestore
  /\ UNCHANGED <<now, sent, catalog, cover, cand, stores, eng>>

RestoreAbort ==
  /\ rst # NoRestore
  /\ rst' = NoRestore
  /\ UNCHANGED <<now, sent, tables, stores, eng>>

Run(g) ==
  \/ \E dry \in BOOLEAN : Start(g, dry)
  \/ Scan(g) \/ Load(g) \/ Seal(g) \/ RecordArchive(g) \/ DeleteRetentionEvents(g)
  \/ List(g) \/ Refs(g) \/ EndPage(g) \/ Abort(g)
  \/ \E k \in Key : \/ Copy(g, k) \/ CollectReferenced(g, k) \/ CollectObject(g, k)
                    \/ Completed(g, k) \/ CollectFails(g, k)

Restore ==
  \/ \E a \in catalog : \E first \in DOMAIN a : RestorePayloads(a, first)
  \/ RestoreEvents \/ RestoreAbort

Next ==
  \/ \E g \in Engine : Run(g)
  \/ \E e \in Events : Capture(e) \/ \E d \in Deliveries : Ingest(e, d)
  \/ Tick \/ Restore

Spec == Init /\ [][Next]_vars

-----------------------------------------------------------------------------
(* Properties                                                              *)

CandRow == [eligible : Int, since : Int, retry : Int, archive : Archives \ {<<>>}]

TypeOK ==
  /\ now \in 0..MaxTime
  /\ sent \subseteq Events
  /\ row \in [Events -> Deliveries \cup {Absent}]
  /\ object \subseteq Key /\ copy \subseteq Key
  /\ bundle \subseteq Archives /\ catalog \subseteq Archives
  /\ cover \in [Events -> Archives]
  /\ \A k \in Key : cand[k] = NoRow \/ cand[k] \in CandRow
  /\ \A g \in Engine :
       /\ eng[g].pc \in {"idle", "scan", "load", "copy", "record", "delete", "list", "refs", "gc"}
       /\ eng[g].scanned \in 0..MaxEvents /\ eng[g].left \in 0..MaxPayloads
       /\ eng[g].batch \subseteq Events /\ eng[g].archive \in Archives
       /\ eng[g].todo \cup eng[g].page \cup eng[g].live \cup eng[g].gone \subseteq Key
       /\ Cardinality(eng[g].gone) <= PayloadConcurrency
  /\ rst.archive \in Archives /\ rst.chunk \subseteq DOMAIN rst.archive

\* Events that a catalogued archive restores in full: its manifest is written and the
\* archive store has a copy of each of their payloads.
Safe == {e \in Events : \E a \in catalog \cap bundle : e \in DOMAIN a /\ KeysOf(e) \subseteq copy}

\* "There is no delete-without-archive mode" (RETENTION.md:9-11): whatever runs, crashes,
\* redeliveries and restores overlap, an event leaves trail_events only when a catalogued
\* archive restores it with all its payloads, and no later step takes that away.
V == INSTANCE Vault WITH Event <- Events, live <- Live, safe <- Safe
VaultSpec == V!Spec

\* The collector never destroys the last copy: the content of every payload that was ever
\* stored is in the active store or in the archive store (Engine.processCandidate deletes
\* objects; BundleWriter.Write is what copied them).
ContentSurvives == \A e \in sent : KeysOf(e) \ Failed \subseteq object \cup copy

\* "A failed event deletion cannot trigger payload deletion" (RETENTION.md:134): a candidate
\* row, and with it every key the collector may delete, goes back to a catalogued archive
\* with an event that refers to the key, and to a copy of the object.
CandidateBacked ==
  /\ \A k \in Key : cand[k] # NoRow =>
       /\ cand[k].archive \in catalog
       /\ \E e \in DOMAIN cand[k].archive : k \in KeysOf(e)
  /\ \A k \in Key : (cand[k] # NoRow \/ \E g \in Engine : k \in eng[g].page) => k \in copy

\* "An unknown non-empty class is retained, rather than silently falling through"
\* (RETENTION.md:44): such an event is never archived, and its row stays once it is there.
UnknownClass == {e \in Events : Ev[e].class \notin DOMAIN EventClasses \cup {Unset}}
UnknownClassKept ==
  [][/\ UnknownClass \cap Live \subseteq Live'
     /\ \A a \in catalog' : DOMAIN a \cap UnknownClass = {}]_vars

\* "A candidate must ... have no remaining reference in live events before the object is
\* deleted" (RETENTION.md:124-126).
DeletedUnreferenced ==
  [][\A k \in object \ object' : \A e \in Live : k \notin KeysOf(e)]_vars
=============================================================================
