----------------------------- MODULE ClickHouse -----------------------------
(***************************************************************************)
(* The ClickHouse store under ingestion and retention.  There are no       *)
(* transactions: RecordArchive, DeleteRetentionEvents and                  *)
(* ReconcileRetention are sequences of statements, and the command can die *)
(* between any two of them.  Three derived tables (flow summaries, flow    *)
(* terminals, execution summaries) are fed by materialized views when rows *)
(* are inserted, and by rebuilds when rows are deleted.  Their aggregates  *)
(* are idempotent, so a derived table is the set of events it accounts     *)
(* for.  trail_events keeps every inserted copy of a row until parts are   *)
(* merged; as the migrations declare no deduplication window, the          *)
(* insert_deduplication_token of WriteBatches drops nothing.               *)
(***************************************************************************)
EXTENDS Naturals, SequencesExt

CONSTANTS
  N,                \* events 1..N in (event_time, event_id) order
  Flow, Execution,  \* identities of each event
  Terminal,         \* events that end their flow
  Expired,          \* events some policy lets go
  EventBatchSize,
  TaskLimit,        \* rebuilds taken by one ReconcileRetention
  MaxCopies,        \* bound: unmerged copies of a row
  MaxCrashes        \* bound: deaths of the command

Events == 1..N
Tables == <<"flow", "terminal", "execution">>

ASSUME NAssumption == N \in Nat
\* NewFlow and NewExecution draw from one generator (id.go); a collision would let DeleteTasks,
\* which goes by identity alone, drop a rebuild of the other kind.
ASSUME IdAssumption == \A e, f \in Events : Flow[e] # Execution[f]
ASSUME LimitAssumption == {EventBatchSize, TaskLimit} \subseteq Nat \ {0}
ASSUME BoundAssumption == MaxCopies \in Nat

VARIABLES
  copies,    \* trail_events: [event -> rows]
  half,      \* events inserted whose views have not run yet
  derived,   \* [table -> events it accounts for]
  tasks,     \* trail_retention_summary_rebuilds: pairs of kind and identity
  catalog,   \* trail_archives: sets of events
  cover,     \* trail_event_archives: [event -> its newest archive]
  run,       \* the command
  late,      \* [event -> rows a mutation will still delete, the command that asked for it dead]
  torn,      \* history: events whose last row went too late for their rebuild, or before
             \* their views ran, and that were not inserted again
  crashes

vars == <<copies, half, derived, tasks, catalog, cover, run, late, torn, crashes>>

Live == {e \in Events : copies[e] > 0}
Task(t, e) == IF t = "execution" THEN <<t, Execution[e]>> ELSE <<"flow", Flow[e]>>
Feeds(t, e) == t = "terminal" => e \in Terminal
NotLate == [e \in Events |-> 0]

Idle == [pc |-> "idle", cursor |-> 0, batch |-> {}, ids |-> {}, step |-> 0, then |-> "idle"]

Init ==
  /\ copies = [e \in Events |-> 0]
  /\ half = {}
  /\ derived = [t \in {"flow", "terminal", "execution"} |-> {}]
  /\ tasks = {}
  /\ catalog = {}
  /\ cover = [e \in Events |-> {}]
  /\ run = Idle
  /\ late = NotLate
  /\ torn = {}
  /\ crashes = 0

-----------------------------------------------------------------------------
(* Ingestion, redelivery and restore                                       *)

\* WriteBatches: a new row, whether or not the event has one.
Insert(e) ==
  /\ e \notin half
  /\ copies[e] < MaxCopies
  /\ copies' = [copies EXCEPT ![e] = @ + 1]
  /\ half' = half \cup {e}
  /\ torn' = torn \ {e}
  /\ UNCHANGED <<derived, tasks, catalog, cover, run, late, crashes>>

\* The materialized views see the inserted block.
Views(e) ==
  /\ e \in half
  /\ half' = half \ {e}
  /\ derived' = [t \in DOMAIN derived |-> derived[t] \cup {f \in {e} : Feeds(t, f)}]
  /\ UNCHANGED <<copies, tasks, catalog, cover, run, late, torn, crashes>>

\* ReplacingMergeTree keeps one row of each event; parts a mutation has yet to reach are not
\* merged with later ones.
Merge(e) ==
  /\ copies[e] > 1
  /\ late[e] = 0
  /\ copies' = [copies EXCEPT ![e] = 1]
  /\ UNCHANGED <<half, derived, tasks, catalog, cover, run, late, torn, crashes>>

-----------------------------------------------------------------------------
(* The retention command                                                   *)

Goto(pc) == run' = [run EXCEPT !.pc = pc]

Continue(v) ==
  IF v.then = "idle" THEN Idle ELSE [Idle EXCEPT !.pc = v.then, !.cursor = v.cursor]

Start_WithoutReconcile ==
  /\ run.pc = "idle"
  /\ run' = [Idle EXCEPT !.pc = "scan"]
  /\ UNCHANGED <<copies, half, derived, tasks, catalog, cover, late, torn, crashes>>

\* ReconcileRetention first: rebuilds an earlier run left behind.
Start ==
  /\ run.pc = "idle"
  /\ run' = [Idle EXCEPT !.pc = "tasks", !.then = "scan"]
  /\ UNCHANGED <<copies, half, derived, tasks, catalog, cover, late, torn, crashes>>

\* The command dies, or its MaxRuntime ends; ALTER ... DELETE may go on without it, over the
\* rows there were when it was submitted.
Crash ==
  /\ run.pc # "idle"
  /\ crashes < MaxCrashes
  /\ crashes' = crashes + 1
  /\ run' = Idle
  /\ late' \in {late, IF run.pc = "delete"
                      THEN [e \in Events |-> IF e \in run.batch THEN copies[e] ELSE late[e]]
                      ELSE late}
  /\ UNCHANGED <<copies, half, derived, tasks, catalog, cover, torn>>

\* The rebuilds of e are staged and none of them is under way.
Staged(e) == \A t \in {"flow", "execution"} : Task(t, e) \in tasks \ run.ids

LateMutation ==
  /\ late # NotLate
  /\ copies' = [e \in Events |-> copies[e] - late[e]]
  /\ torn' = torn \cup {e \in Live \ Live' : e \in half \/ ~Staged(e)}
  /\ late' = NotLate
  /\ UNCHANGED <<half, derived, tasks, catalog, cover, run, crashes>>

FirstOf(S, n) == {x \in S : Cardinality({y \in S : y < x}) < n}

\* ScanRetentionEvents reads with FINAL: each event once.
Scan ==
  LET rest == {e \in Live : e > run.cursor}
      page == FirstOf(rest, EventBatchSize)
  IN /\ run.pc = "scan"
     /\ run' = IF page \cap Expired # {}
               THEN [run EXCEPT !.pc = "archive", !.cursor = Max(page), !.batch = page \cap Expired,
                                !.then = IF page # rest THEN "scan" ELSE "idle"]
               ELSE IF page # rest THEN [run EXCEPT !.cursor = Max(page)]
               ELSE Idle
     /\ UNCHANGED <<copies, half, derived, tasks, catalog, cover, late, torn, crashes>>

RecordArchive_Skipped ==
  /\ run.pc = "archive"
  /\ Goto("map")
  /\ UNCHANGED <<copies, half, derived, tasks, catalog, cover, late, torn, crashes>>

\* LoadArchiveEvents with FINAL, which must find the whole batch, the bundle (module
\* Retention) and the first statement of RecordArchive.
RecordArchive ==
  /\ run.pc = "archive"
  /\ \/ run.batch \subseteq Live /\ catalog' = catalog \cup {run.batch} /\ Goto("map")
     \/ ~(run.batch \subseteq Live) /\ run' = Idle /\ UNCHANGED catalog
  /\ UNCHANGED <<copies, half, derived, tasks, cover, late, torn, crashes>>

\* Its second statement.
RecordEvents ==
  /\ run.pc = "map"
  /\ cover' = [e \in Events |-> IF e \in run.batch THEN run.batch ELSE cover[e]]
  /\ Goto("stage")
  /\ UNCHANGED <<copies, half, derived, tasks, catalog, late, torn, crashes>>

\* The archive covers the batch.
Covered == \A e \in run.batch : cover[e] = run.batch

StageRebuilds_Nothing ==
  /\ run.pc = "stage"
  /\ run' = IF Covered THEN [run EXCEPT !.pc = "delete"] ELSE Idle
  /\ UNCHANGED <<copies, half, derived, tasks, catalog, cover, late, torn, crashes>>

\* DeleteRetentionEvents refuses a batch the archive does not cover, or stages candidates
\* (module Retention) and rebuilds ...
StageRebuilds ==
  /\ run.pc = "stage"
  /\ tasks' = IF Covered
              THEN tasks \cup {Task(t, e) : t \in {"flow", "execution"}, e \in run.batch}
              ELSE tasks
  /\ run' = IF Covered THEN [run EXCEPT !.pc = "delete"] ELSE Idle
  /\ UNCHANGED <<copies, half, derived, catalog, cover, late, torn, crashes>>

\* ... the synchronous mutation, which waits for the earlier ones, then ReconcileRetention.
DeleteEvents ==
  /\ run.pc = "delete"
  /\ late = NotLate
  /\ copies' = [e \in Events |-> IF e \in run.batch THEN 0 ELSE copies[e]]
  /\ torn' = torn \cup (run.batch \cap half)
  /\ run' = [run EXCEPT !.pc = "tasks", !.batch = {}]
  /\ UNCHANGED <<half, derived, tasks, catalog, cover, late, crashes>>

ReadTasks_Unlimited ==
  /\ run.pc = "tasks"
  /\ run' = IF tasks = {} THEN Continue(run)
            ELSE [run EXCEPT !.pc = "clear", !.ids = tasks, !.step = 1]
  /\ UNCHANGED <<copies, half, derived, tasks, catalog, cover, late, torn, crashes>>

\* ReconcileRetention reads at most TaskLimit rebuilds, those of flows first.
ReadTasks ==
  /\ run.pc = "tasks"
  /\ \E ids \in SUBSET tasks :
       /\ Cardinality(ids) = Min({TaskLimit, Cardinality(tasks)})
       /\ \A i \in ids, j \in tasks \ ids : i[1] = "flow" \/ j[1] = "execution"
       /\ run' = IF ids = {} THEN Continue(run)
                 ELSE [run EXCEPT !.pc = "clear", !.ids = ids, !.step = 1]
  /\ UNCHANGED <<copies, half, derived, tasks, catalog, cover, late, torn, crashes>>

Affected(t) == {e \in Events : Task(t, e) \in run.ids}

\* rebuildRetentionSummaries, table after table: delete ...
Clear ==
  LET t == Tables[run.step] IN
  /\ run.pc = "clear"
  /\ derived' = [derived EXCEPT ![t] = @ \ Affected(t)]
  /\ Goto("fill")
  /\ UNCHANGED <<copies, half, tasks, catalog, cover, late, torn, crashes>>

\* ... and insert from the events that are left.
Fill ==
  LET t == Tables[run.step] IN
  /\ run.pc = "fill"
  /\ derived' = [derived EXCEPT ![t] = @ \cup {e \in Affected(t) \cap Live : Feeds(t, e)}]
  /\ run' = IF run.step < Len(Tables) THEN [run EXCEPT !.pc = "clear", !.step = @ + 1]
            ELSE [run EXCEPT !.pc = "untask"]
  /\ UNCHANGED <<copies, half, tasks, catalog, cover, late, torn, crashes>>

\* The tasks that were read are deleted, by identity.
DeleteTasks ==
  /\ run.pc = "untask"
  /\ tasks' = {k \in tasks : \A j \in run.ids : k[2] # j[2]}
  /\ run' = Continue(run)
  /\ UNCHANGED <<copies, half, derived, catalog, cover, late, torn, crashes>>

Command ==
  \/ Start \/ Scan \/ RecordArchive \/ RecordEvents \/ StageRebuilds \/ DeleteEvents
  \/ ReadTasks \/ Clear \/ Fill \/ DeleteTasks

Next ==
  \/ Command \/ Crash \/ LateMutation
  \/ \E e \in Events : Insert(e) \/ Views(e) \/ Merge(e)

\* The command is scheduled again and again; ClickHouse finishes its inserts and mutations.
Spec ==
  /\ Init /\ [][Next]_vars
  /\ WF_vars(Command) /\ WF_vars(LateMutation) /\ \A e \in Events : WF_vars(Views(e))

-----------------------------------------------------------------------------
(* Queries                                                                 *)

\* listCHEvents: the rows after the cursor, without FINAL.
ListEvents(cursor, limit) ==
  LET rows == FlattenSeq([e \in Events |-> [i \in 1..copies[e] |-> e]])
      rest == SelectSeq(rows, LAMBDA e : e > cursor)
  IN SubSeq(rest, 1, Min({limit, Len(rest)}))

-----------------------------------------------------------------------------
(* Properties                                                              *)

TypeOK ==
  /\ copies \in [Events -> 0..MaxCopies]
  /\ half \subseteq Events /\ torn \subseteq Expired
  /\ \A e \in Events : late[e] \in 0..copies[e]
  /\ derived \in [{"flow", "terminal", "execution"} -> SUBSET Events]
  /\ tasks \subseteq {Task(t, e) : t \in DOMAIN derived, e \in Expired}
  /\ catalog \subseteq SUBSET Expired
  /\ cover \in [Events -> SUBSET Expired]
  /\ run.batch \subseteq Expired /\ Cardinality(run.batch) <= EventBatchSize
  /\ Cardinality(run.ids) <= TaskLimit

\* The same promise as in PostgreSQL, without a transaction: a row leaves trail_events only
\* after trail_archives has an archive of it.
V == INSTANCE Vault WITH Event <- Events, live <- Live, safe <- UNION catalog
VaultSpec == V!Spec

\* A derived table disagrees with trail_events about e, and e was not torn away.  The
\* summaries of a torn event stay wrong until another event of its flow or execution expires:
\* there the code breaks the promise quoted below, and the properties leave it out.
Stale(t, e) ==
  \/ e \in derived[t] \ (Live \cup torn)
  \/ e \in Live \ (half \cup derived[t]) /\ Feeds(t, e)

\* Whatever is out of date is staged for a rebuild, wherever the command died: the task is
\* inserted before the rows go and deleted after the last table is filled.  Left out are torn
\* events: a mutation outlived its command and took their rows when their rebuild was under
\* way or done, or a deletion came between a row and its views.
StaleIsStaged ==
  \A t \in DOMAIN derived, e \in Events : Stale(t, e) => Task(t, e) \in tasks

\* "Each mutation also rebuilds only the affected flow, execution, and terminal summary keys
\* so Explorer results remain correct" (RETENTION.md:115-117): what a crash or the limit on
\* rebuilds left out of date is repaired by a later run, for flows whenever a batch is within
\* the limit (1000 of 1000 by default), for executions once deletions pause.  While events go
\* on expiring, the rebuilds of flows come first and those of an execution may never be taken.
Converges ==
  /\ EventBatchSize <= TaskLimit =>
       \A t \in {"flow", "terminal"}, e \in Events : Stale(t, e) ~> ~Stale(t, e)
  /\ <>[][~StageRebuilds]_vars =>
       \A e \in Events : Stale("execution", e) ~> ~Stale("execution", e)

\* "FINAL makes event detail/list semantics idempotent during the interval before
\* ReplacingMergeTree has merged a JetStream redelivery" (storage/clickhouse/query.go:236):
\* no listing shows an event twice.
ListedOnce == \A limit \in 1..N : IsInjective(ListEvents(0, limit))
=============================================================================
