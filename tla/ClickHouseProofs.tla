-------------------------- MODULE ClickHouseProofs --------------------------
(***************************************************************************)
(* Proofs about module ClickHouse, for any number of events, flows and     *)
(* executions, and for every batch size and limit.                         *)
(***************************************************************************)
EXTENDS ClickHouse, FiniteSetTheorems, WellFoundedInduction, TLAPS

Fields == {"pc", "cursor", "batch", "ids", "step", "then"}
TableNames == {"flow", "terminal", "execution"}

Shapes ==
  /\ copies \in [Events -> Nat]
  /\ late \in [Events -> Nat] /\ \A e \in Events : late[e] <= copies[e]
  /\ derived = [t \in TableNames |-> derived[t]]
  /\ run = [x \in Fields |-> run[x]]
  /\ run.pc \in {"idle", "tasks", "scan", "archive", "map", "stage", "delete",
                 "clear", "fill", "untask"}
  /\ run.then \in {"idle", "scan"}
  /\ run.pc \in {"clear", "fill"} => run.step \in 1..3

-----------------------------------------------------------------------------
(* No deletion without an archive                                          *)

\* What the command is about to delete, and what a mutation that outlived it may still
\* delete, is catalogued.
Catalogued ==
  /\ run.batch \subseteq Events
  /\ run.pc \in {"map", "stage", "delete"} => run.batch \subseteq UNION catalog
  /\ \A e \in Events : late[e] > 0 => e \in UNION catalog

\* Rows and their derived tables.  A row whose views have not run is live or torn.
Accounted ==
  /\ half \subseteq Live \cup torn
  /\ \A k \in tasks : \E t \in TableNames, e \in Events : k = Task(t, e)
  /\ StaleIsStaged

\* Tables the rebuild at work has already filled.
Filled(t) ==
  \/ run.pc = "untask"
  \/ run.pc \in {"clear", "fill"} /\ \E i \in 1..3 : i < run.step /\ t = Tables[i]

\* The rebuild at work: its tasks stay staged until the end; in the table it has cleared
\* only live or torn events are left, and what it has filled agrees with trail_events.
Rebuilding ==
  /\ run.pc = "delete" =>
       \A t \in TableNames, e \in run.batch : Task(t, e) \in tasks
  /\ run.pc \in {"clear", "fill", "untask"} => run.ids \subseteq tasks
  /\ run.pc = "fill" =>
       \A e \in Affected(Tables[run.step]) : e \in derived[Tables[run.step]] => e \in Live \cup torn
  /\ \A t \in TableNames, e \in Events :
       Filled(t) /\ Task(t, e) \in run.ids => ~Stale(t, e)

IInv == Shapes /\ Catalogued /\ Accounted /\ Rebuilding

-----------------------------------------------------------------------------
(* The server: inserts, views, merges and a mutation that goes on alone    *)

Server == LateMutation \/ \E e \in Events : Insert(e) \/ Views(e) \/ Merge(e)

\* What the server does on its own makes no derived table stale, unless a rebuild is staged
\* and not under way, and under a rebuild nothing in a table stops being live or torn.
LEMMA ServerKeeps ==
  ASSUME IInv, Server \/ UNCHANGED vars
  PROVE  /\ UNCHANGED <<tasks, catalog, run>>
         /\ late' \in {late, NotLate}
         /\ copies' \in [Events -> Nat] /\ \A e \in Events : late'[e] <= copies'[e]
         /\ derived' = [t \in TableNames |-> derived'[t]]
         /\ half' \subseteq Live' \cup torn'
         /\ \A t \in TableNames, e \in Events :
              /\ Stale(t, e)' => Stale(t, e) \/ Task(t, e) \in tasks \ run.ids
              /\ e \in derived'[t] => e \in derived[t] \cup Live' \cup torn'
              /\ e \in Live \cup torn /\ Task(t, e) \in run.ids => e \in Live' \cup torn'
<1> USE DEF IInv, Shapes, Accounted, Live, Stale
<1>1. CASE LateMutation
  <2>1. /\ UNCHANGED <<half, derived, tasks, catalog, run>> /\ late' = NotLate
        /\ copies' = [e \in Events |-> copies[e] - late[e]]
        /\ torn' = torn \cup {e \in Live \ Live' : e \in half \/ ~Staged(e)}
    BY <1>1 DEF LateMutation
  <2>2. /\ copies' \in [Events -> Nat] /\ Live' \subseteq Live
        /\ \A e \in Events : late'[e] <= copies'[e]
    BY <2>1 DEF NotLate
  <2>3. ASSUME NEW t \in TableNames, NEW e \in Live, e \notin Live' \cup torn'
        PROVE  Task(t, e) \in tasks \ run.ids
    <3>1. Staged(e)
      BY <2>1, <2>3
    <3>2. Task(t, e) = Task("flow", e) \/ Task(t, e) = Task("execution", e)
      BY DEF Task
    <3> QED
      BY <3>1, <3>2 DEF Staged
  <2>4. half' \subseteq Live' \cup torn' /\ torn \subseteq torn'
    BY <2>1
  <2>5. ASSUME NEW t \in TableNames, NEW e \in Events
        PROVE  /\ Stale(t, e)' => Stale(t, e) \/ Task(t, e) \in tasks \ run.ids
               /\ e \in Live \cup torn /\ Task(t, e) \in run.ids => e \in Live' \cup torn'
    <3> HIDE DEF Live
    <3> QED
      BY <2>1, <2>2, <2>3, <2>4
  <2> QED
    BY <2>1, <2>2, <2>4, <2>5
<1>2. ASSUME NEW e \in Events, Insert(e)
      PROVE  /\ UNCHANGED <<tasks, catalog, run, late, derived>>
             /\ half' = half \cup {e} /\ torn' = torn \ {e}
             /\ copies' \in [Events -> Nat]
             /\ Live' = Live \cup {e}
             /\ \A f \in Events : late'[f] <= copies'[f]
  BY <1>2 DEF Insert
<1>3. ASSUME NEW e \in Events, Views(e)
      PROVE  /\ UNCHANGED <<tasks, catalog, run, late, torn, copies>>
             /\ e \in half /\ half' = half \ {e}
             /\ derived' = [t \in TableNames |-> derived[t] \cup {f \in {e} : Feeds(t, f)}]
  BY <1>3 DEF Views
<1>4. ASSUME NEW e \in Events, Merge(e)
      PROVE  /\ UNCHANGED <<tasks, catalog, run, late, torn, derived, half>>
             /\ copies' \in [Events -> Nat]
             /\ Live' = Live
             /\ \A f \in Events : late'[f] <= copies'[f]
  BY <1>4 DEF Merge
<1>5. CASE UNCHANGED vars
  BY <1>5 DEF vars
<1>6. CASE \E e \in Events : Insert(e)
  BY <1>2, <1>6
<1>7. CASE \E e \in Events : Views(e)
  BY <1>3, <1>7
<1>8. CASE \E e \in Events : Merge(e)
  BY <1>4, <1>8
<1> QED
  BY <1>1, <1>5, <1>6, <1>7, <1>8 DEF Server

LEMMA ServerIInv ==
  ASSUME IInv, Server \/ UNCHANGED vars
  PROVE  IInv'
<1>1. Shapes'
  BY ServerKeeps DEF IInv, Shapes, NotLate
<1>2. Catalogued'
  BY ServerKeeps DEF IInv, Catalogued, NotLate
<1>3. Accounted'
  <2>1. \A t \in TableNames, e \in Events : Stale(t, e)' => Task(t, e) \in tasks'
    BY ServerKeeps DEF IInv, Shapes, Accounted, StaleIsStaged
  <2>2. DOMAIN derived' = TableNames
    BY ServerKeeps
  <2>3. half' \subseteq Live' \cup torn' /\ tasks' = tasks
    BY ServerKeeps
  <2>4. \A k \in tasks : \E t \in TableNames, e \in Events : k = Task(t, e)
    BY DEF IInv, Accounted
  <2> QED
    BY <2>1, <2>2, <2>3, <2>4 DEF Accounted, StaleIsStaged
<1>4. Rebuilding'
  <2>1. ASSUME run.pc = "fill", NEW e \in Affected(Tables[run.step]), e \in derived'[Tables[run.step]]
        PROVE  e \in Live' \cup torn'
    <3>1. /\ Tables[run.step] \in TableNames /\ e \in Events
          /\ Task(Tables[run.step], e) \in run.ids
      BY <2>1 DEF IInv, Shapes, Tables, TableNames, Affected
    <3> QED
      BY <2>1, <3>1, ServerKeeps DEF IInv, Rebuilding
  <2>2. ASSUME NEW t \in TableNames, NEW e \in Events, Filled(t), Task(t, e) \in run.ids
        PROVE  ~Stale(t, e)'
    BY <2>2, ServerKeeps DEF IInv, Rebuilding
  <2>3. run' = run /\ tasks' = tasks
    BY ServerKeeps
  <2> QED
    BY <2>1, <2>2, <2>3 DEF IInv, Rebuilding, Filled, Affected
<1> QED
  BY <1>1, <1>2, <1>3, <1>4 DEF IInv

-----------------------------------------------------------------------------
(* The command: steps that touch neither events nor derived tables         *)

rowsAndTables == <<copies, half, derived, tasks, torn>>

\* DeleteRetentionEvents returns its error.
Refuse == StageRebuilds /\ ~Covered

LEMMA QuietSteps ==
  ASSUME IInv, Start \/ Crash \/ Scan \/ RecordArchive \/ RecordEvents \/ ReadTasks \/ Refuse
  PROVE  /\ Shapes' /\ Catalogued'
         /\ UNCHANGED rowsAndTables
         /\ run'.pc \notin {"delete", "fill", "untask"}
         /\ run'.pc = "clear" => run'.ids \subseteq tasks /\ run'.step = 1
<1> USE DEF IInv, Shapes, Catalogued, Fields, rowsAndTables
<1>1. CASE Start
  BY <1>1 DEF Start, Idle
<1>2. CASE Crash
  BY <1>2 DEF Crash, Idle
<1>3. CASE Scan
  <2> DEFINE rest == {e \in Live : e > run.cursor}
             page == FirstOf(rest, EventBatchSize)
             m == Max(page)
  <2>1. page \subseteq Events
    BY DEF FirstOf, Live
  <2>2. /\ run.pc = "scan" /\ UNCHANGED <<copies, half, derived, tasks, catalog, cover, late, torn>>
        /\ run' = IF page \cap Expired # {}
                  THEN [run EXCEPT !.pc = "archive", !.cursor = m, !.batch = page \cap Expired,
                                   !.then = IF page # rest THEN "scan" ELSE "idle"]
                  ELSE IF page # rest THEN [run EXCEPT !.cursor = m]
                  ELSE Idle
    BY <1>3 DEF Scan
  <2> HIDE DEF page, m, rest
  <2> QED
    BY <2>1, <2>2 DEF Idle
<1>4. CASE RecordArchive
  BY <1>4 DEF RecordArchive, Goto, Idle
<1>5. CASE RecordEvents
  BY <1>5 DEF RecordEvents, Goto
<1>6. CASE ReadTasks
  <2>1. UNCHANGED <<copies, half, derived, tasks, catalog, cover, late, torn>>
    BY <1>6 DEF ReadTasks
  <2>2. PICK ids \in SUBSET tasks :
          run' = IF ids = {} THEN Continue(run)
                 ELSE [run EXCEPT !.pc = "clear", !.ids = ids, !.step = 1]
    BY <1>6 DEF ReadTasks
  <2>3. CASE ids = {}
    BY <2>1, <2>2, <2>3 DEF Continue, Idle
  <2>4. CASE ids # {}
    <3>1. run' = [run EXCEPT !.pc = "clear", !.ids = ids, !.step = 1]
      BY <2>2, <2>4
    <3>2. /\ run'.pc = "clear" /\ run'.ids = ids /\ run'.step = 1
          /\ run'.batch = run.batch /\ run'.then = run.then
          /\ run' = [x \in Fields |-> run'[x]]
      BY <3>1
    <3> QED
      BY <2>1, <3>2
  <2> QED
    BY <2>3, <2>4
<1>7. CASE Refuse
  BY <1>7 DEF Refuse, StageRebuilds, Idle
<1> QED
  BY <1>1, <1>2, <1>3, <1>4, <1>5, <1>6, <1>7

LEMMA QuietIInv ==
  ASSUME IInv, Start \/ Crash \/ Scan \/ RecordArchive \/ RecordEvents \/ ReadTasks \/ Refuse
  PROVE  IInv'
<1>1. UNCHANGED rowsAndTables /\ Shapes' /\ Catalogued'
  BY QuietSteps
<1>2. Accounted'
  BY <1>1 DEF IInv, Accounted, StaleIsStaged, Stale, Live, rowsAndTables
<1>3. ~(\E t \in TableNames : Filled(t)')
  BY QuietSteps DEF Filled
<1>4. Rebuilding'
  BY <1>1, <1>3, QuietSteps DEF Rebuilding, rowsAndTables
<1> QED
  BY <1>1, <1>2, <1>4 DEF IInv

-----------------------------------------------------------------------------
(* The command: staging, deletion and rebuild                              *)

LEMMA StageIInv ==
  ASSUME IInv, StageRebuilds, Covered
  PROVE  IInv'
<1>1. /\ run.pc = "stage" /\ run' = [run EXCEPT !.pc = "delete"]
      /\ tasks' = tasks \cup {Task(t, e) : t \in {"flow", "execution"}, e \in run.batch}
      /\ UNCHANGED <<copies, half, derived, catalog, cover, late, torn>>
  BY DEF StageRebuilds
<1>2. Shapes' /\ Catalogued'
  BY <1>1 DEF IInv, Shapes, Catalogued, Fields
<1>3. Accounted'
  <2>1. \A k \in tasks' : \E t \in TableNames, e \in Events : k = Task(t, e)
    BY <1>1 DEF IInv, Accounted, Catalogued, TableNames
  <2> QED
    BY <1>1, <2>1 DEF IInv, Accounted, StaleIsStaged, Stale, Live
<1>4. run'.pc = "delete" /\ run'.batch = run.batch
  BY <1>1 DEF IInv, Shapes, Fields
<1>5. ASSUME NEW t \in TableNames, NEW e \in run.batch PROVE Task(t, e) \in tasks'
  <2>1. CASE t = "execution"
    BY <1>1, <2>1
  <2>2. CASE t # "execution"
    <3>1. Task(t, e) = Task("flow", e)
      BY <2>2 DEF Task
    <3> QED
      BY <1>1, <3>1
  <2> QED
    BY <2>1, <2>2
<1> QED
  BY <1>2, <1>3, <1>4, <1>5 DEF IInv, Rebuilding, Filled

LEMMA DeleteIInv ==
  ASSUME IInv, DeleteEvents
  PROVE  /\ IInv'
         /\ Live' = Live \ run.batch
<1>1. /\ late = NotLate
      /\ run.pc = "delete" /\ run' = [run EXCEPT !.pc = "tasks", !.batch = {}]
      /\ copies' = [e \in Events |-> IF e \in run.batch THEN 0 ELSE copies[e]]
      /\ torn' = torn \cup (run.batch \cap half)
      /\ UNCHANGED <<half, derived, tasks, catalog, cover, late>>
  BY DEF DeleteEvents
<1>2. Shapes' /\ Catalogued'
  <2>1. /\ copies' \in [Events -> Nat] /\ late' \in [Events -> Nat]
        /\ \A e \in Events : late'[e] = 0 /\ late'[e] <= copies'[e]
    BY <1>1 DEF IInv, Shapes, NotLate
  <2>2. /\ run' = [x \in Fields |-> run'[x]] /\ run'.pc = "tasks" /\ run'.batch = {}
        /\ run'.then = run.then
    BY <1>1 DEF IInv, Shapes, Fields
  <2> QED
    BY <1>1, <2>1, <2>2 DEF IInv, Shapes, Catalogued
<1>3. Live' = Live \ run.batch
  BY <1>1 DEF Live, IInv, Shapes
<1>4. ASSUME NEW t \in TableNames, NEW e \in Events, Stale(t, e)' PROVE Task(t, e) \in tasks
  <2>1. CASE e \in run.batch
    BY <1>1, <2>1 DEF IInv, Rebuilding
  <2>2. CASE Stale(t, e)
    BY <2>2 DEF IInv, Accounted, StaleIsStaged, Shapes
  <2> QED
    BY <1>1, <1>3, <1>4, <2>1, <2>2 DEF Stale
<1>5. Accounted'
  BY <1>1, <1>3, <1>4 DEF IInv, Accounted, StaleIsStaged, Shapes
<1>6. run'.pc = "tasks"
  BY <1>1 DEF IInv, Shapes, Fields
<1> QED
  BY <1>2, <1>3, <1>5, <1>6 DEF IInv, Rebuilding, Filled

LEMMA ClearIInv ==
  ASSUME IInv, Clear
  PROVE  IInv'
<1> DEFINE c == Tables[run.step]
<1>1. /\ run.pc = "clear" /\ run' = [run EXCEPT !.pc = "fill"]
      /\ derived' = [derived EXCEPT ![c] = @ \ Affected(c)]
      /\ UNCHANGED <<copies, half, tasks, catalog, cover, late, torn>>
  BY DEF Clear, Goto
<1>2. c \in TableNames /\ run.step \in 1..3
  BY <1>1 DEF IInv, Shapes, Tables, TableNames
<1>3. Shapes' /\ Catalogued'
  BY <1>1 DEF IInv, Shapes, Catalogued, Fields
<1>4. run'.pc = "fill" /\ run'.ids = run.ids /\ run'.step = run.step
  BY <1>1 DEF IInv, Shapes, Fields
<1>5. \A t \in TableNames : derived'[t] = IF t = c THEN derived[t] \ Affected(c) ELSE derived[t]
  BY <1>1, <1>2 DEF IInv, Shapes
<1>6. ASSUME NEW t \in TableNames, NEW e \in Events, Stale(t, e)'
      PROVE  Task(t, e) \in tasks
  <2>1. CASE t = c /\ e \in Affected(c)
    BY <1>1, <2>1 DEF Affected, IInv, Rebuilding
  <2>2. CASE Stale(t, e)
    BY <2>2 DEF IInv, Accounted, StaleIsStaged, Shapes
  <2> QED
    BY <1>1, <1>5, <1>6, <2>1, <2>2 DEF Stale, Live
<1>7. Accounted'
  BY <1>1, <1>3, <1>6 DEF IInv, Accounted, StaleIsStaged, Shapes, Live
<1>8. ASSUME NEW t \in TableNames, NEW e \in Events, Filled(t)', Task(t, e) \in run.ids
      PROVE  ~Stale(t, e)'
  <2>1. Filled(t) /\ t # c
    BY <1>1, <1>2, <1>4, <1>8 DEF Filled, Tables
  <2>2. derived'[t] = derived[t]
    BY <1>5, <2>1
  <2> QED
    BY <1>1, <1>8, <2>1, <2>2 DEF IInv, Rebuilding, Stale, Live
<1>9. Rebuilding'
  <2>1. run.ids \subseteq tasks
    BY <1>1 DEF IInv, Rebuilding
  <2>2. tasks' = tasks
    BY <1>1
  <2>3. \A e \in Affected(c) : e \notin derived'[c]
    BY <1>2, <1>5
  <2>4. Affected(c)' = Affected(c) /\ c' = c
    BY <1>4 DEF Affected
  <2> HIDE DEF c
  <2>5. \A e \in Affected(Tables[run.step])' : e \notin derived'[Tables[run'.step]]
    BY <2>3, <2>4 DEF c
  <2> QED
    BY <1>4, <1>8, <2>1, <2>2, <2>5 DEF Rebuilding
<1> QED
  BY <1>3, <1>7, <1>9 DEF IInv

LEMMA FillIInv ==
  ASSUME IInv, Fill
  PROVE  IInv'
<1> DEFINE c == Tables[run.step]
<1>1. /\ run.pc = "fill"
      /\ derived' = [derived EXCEPT ![c] = @ \cup {e \in Affected(c) \cap Live : Feeds(c, e)}]
      /\ run' = IF run.step < 3 THEN [run EXCEPT !.pc = "clear", !.step = run.step + 1]
                ELSE [run EXCEPT !.pc = "untask"]
      /\ UNCHANGED <<copies, half, tasks, catalog, cover, late, torn>>
  BY DEF Fill, Tables
<1>2. c \in TableNames /\ run.step \in 1..3
  BY <1>1 DEF IInv, Shapes, Tables, TableNames
<1>3. /\ run'.ids = run.ids /\ run'.batch = run.batch /\ run'.then = run.then
      /\ run' = [x \in Fields |-> run'[x]]
      /\ \/ run.step < 3 /\ run'.pc = "clear" /\ run'.step = run.step + 1
         \/ run.step = 3 /\ run'.pc = "untask"
  <2>0. run = [x \in Fields |-> run[x]]
    BY DEF IInv, Shapes
  <2>1. CASE run.step < 3
    <3>1. run' = [run EXCEPT !.pc = "clear", !.step = run.step + 1]
      BY <1>1, <2>1
    <3> QED
      BY <2>0, <2>1, <3>1 DEF Fields
  <2>2. CASE run.step = 3
    <3>1. run' = [run EXCEPT !.pc = "untask"]
      BY <1>1, <2>2
    <3> QED
      BY <2>0, <2>2, <3>1 DEF Fields
  <2> QED
    BY <1>2, <2>1, <2>2
<1>4. Shapes' /\ Catalogued'
  <2>1. derived' = [t \in TableNames |-> derived'[t]]
    BY <1>1 DEF IInv, Shapes
  <2>2. run'.pc \in {"clear", "fill"} => run'.step \in 1..3
    BY <1>2, <1>3
  <2>3. /\ copies' \in [Events -> Nat] /\ run'.then \in {"idle", "scan"}
        /\ late' \in [Events -> Nat] /\ \A e \in Events : late'[e] <= copies'[e]
        /\ run'.pc \in {"clear", "untask"}
    BY <1>1, <1>3 DEF IInv, Shapes
  <2>4. Shapes'
    BY <1>3, <2>1, <2>2, <2>3 DEF Shapes
  <2>5. Catalogued'
    BY <1>1, <1>3 DEF IInv, Catalogued
  <2> QED
    BY <2>4, <2>5
<1>5. \A t \in TableNames : derived'[t] = IF t = c
          THEN derived[t] \cup {e \in Affected(c) \cap Live : Feeds(c, e)} ELSE derived[t]
  BY <1>1, <1>2 DEF IInv, Shapes
<1>6. ASSUME NEW t \in TableNames, NEW e \in Events, Stale(t, e)'
      PROVE  Stale(t, e) /\ ~(t = c /\ e \in Affected(c))
  <2>1. Live' = Live /\ torn' = torn /\ half' = half
    BY <1>1 DEF Live
  <2>2. CASE t # c
    BY <1>5, <1>6, <2>1, <2>2 DEF Stale
  <2>3. CASE t = c
    <3>1. e \in Affected(c) => ~Stale(t, e)'
      <4>1. e \in Affected(c) /\ e \in derived[c] => e \in Live \cup torn
        BY <1>1 DEF IInv, Rebuilding
      <4> QED
        BY <1>5, <2>1, <2>3, <4>1 DEF Stale
    <3> QED
      BY <1>5, <1>6, <2>1, <2>3, <3>1 DEF Stale
  <2> QED
    BY <2>2, <2>3
<1>7. Accounted'
  BY <1>1, <1>4, <1>6 DEF IInv, Accounted, StaleIsStaged, Shapes, Live
<1>8. ASSUME NEW t \in TableNames, NEW e \in Events, Filled(t)', Task(t, e) \in run.ids
      PROVE  ~Stale(t, e)'
  <2>1. Filled(t) \/ t = c
    BY <1>1, <1>2, <1>3, <1>8 DEF Filled, Tables, TableNames
  <2>2. e \in Affected(t)
    BY <1>8 DEF Affected
  <2> QED
    BY <1>6, <1>8, <2>1, <2>2 DEF IInv, Rebuilding
<1>9. Rebuilding'
  <2>1. run.ids \subseteq tasks /\ tasks' = tasks
    BY <1>1 DEF IInv, Rebuilding
  <2> QED
    BY <1>3, <1>8, <2>1 DEF Rebuilding
<1> QED
  BY <1>4, <1>7, <1>9 DEF IInv

LEMMA DeleteTasksIInv ==
  ASSUME IInv, DeleteTasks
  PROVE  IInv'
<1>1. /\ run.pc = "untask" /\ run' = Continue(run)
      /\ tasks' = {k \in tasks : \A j \in run.ids : k[2] # j[2]}
      /\ UNCHANGED <<copies, half, derived, catalog, cover, late, torn>>
  BY DEF DeleteTasks
<1>2. run'.pc \in {"idle", "scan"} /\ run' = [x \in Fields |-> run'[x]]
      /\ run'.batch = {} /\ run'.then = "idle"
  BY <1>1 DEF Continue, Idle, IInv, Shapes, Fields
<1>3. Shapes' /\ Catalogued'
  BY <1>1, <1>2 DEF IInv, Shapes, Catalogued
<1>4. ASSUME NEW t \in TableNames, NEW e \in Events, Stale(t, e)'
      PROVE  Task(t, e) \in tasks'
  <2>1. Stale(t, e)
    BY <1>1, <1>4 DEF Stale, Live
  <2>2. Task(t, e) \in tasks \ run.ids
    BY <1>1, <2>1 DEF IInv, Accounted, StaleIsStaged, Shapes, Rebuilding, Filled
  <2>3. ASSUME NEW j \in run.ids, Task(t, e)[2] = j[2]
        PROVE  FALSE
    <3>1. PICK u \in TableNames, f \in Events : j = Task(u, f)
      BY <1>1, <2>3 DEF IInv, Accounted, Rebuilding
    <3>2. Task(t, e) = Task(u, f)
      BY <2>3, <3>1, IdAssumption DEF Task
    <3> QED
      BY <2>2, <2>3, <3>1, <3>2
  <2> QED
    BY <1>1, <2>2, <2>3
<1>5. Accounted'
  BY <1>1, <1>4 DEF IInv, Accounted, StaleIsStaged, Shapes, Live
<1> QED
  BY <1>2, <1>3, <1>5 DEF IInv, Rebuilding, Filled

-----------------------------------------------------------------------------
(* Theorems                                                                *)

LEMMA InitIInv == Init => IInv
<1> SUFFICES ASSUME Init PROVE IInv
  OBVIOUS
<1>1. Shapes /\ Catalogued
  BY DEF Init, Shapes, Catalogued, Idle, Fields, TableNames, NotLate
<1>2. Accounted
  BY DEF Init, Accounted, StaleIsStaged, Stale, Live
<1> QED
  BY <1>1, <1>2 DEF Init, IInv, Rebuilding, Filled, Idle

LEMMA NextIInv ==
  ASSUME IInv, [Next]_vars
  PROVE  IInv'
BY ServerIInv, QuietIInv, StageIInv, DeleteIInv, ClearIInv, FillIInv, DeleteTasksIInv
   DEF Next, Command, Server, Refuse

\* The inductive invariant of the ClickHouse store.
THEOREM ClickHouseInvariant == Spec => []IInv
<1>1. IInv /\ [Next]_vars => IInv'
  BY NextIInv
<1> QED
  BY <1>1, InitIInv, PTL DEF Spec

\* Whatever a derived table has wrong is staged for a rebuild, wherever the command died and
\* whatever was inserted meanwhile, but for the torn events: an insert cut short by the delete,
\* and a delete that outlived the command that staged its rebuilds.
THEOREM StaleIsStagedAlways == Spec => []StaleIsStaged
<1>1. IInv => StaleIsStaged
  BY DEF IInv, Accounted
<1> QED
  BY <1>1, ClickHouseInvariant, PTL

LEMMA UnionAdd ==
  ASSUME NEW C, NEW B
  PROVE  UNION (C \cup {B}) = (UNION C) \cup B
<1>1. \A x : x \in UNION (C \cup {B}) <=> x \in UNION C \/ x \in B
  OBVIOUS
<1> QED
  BY <1>1

LEMMA VaultStep ==
  ASSUME IInv, [Next]_vars
  PROVE  [V!Next]_(V!vars)
<1> USE DEF V!Next, V!vars
<1>1. CASE DeleteEvents
  <2>1. /\ run.batch \subseteq UNION catalog /\ run.batch \in SUBSET Events
        /\ UNION catalog' = UNION catalog
    BY <1>1 DEF DeleteEvents, IInv, Catalogued
  <2>2. V!Leave(run.batch)
    BY <1>1, <2>1, DeleteIInv DEF V!Leave
  <2> QED
    BY <2>1, <2>2
<1>2. CASE LateMutation
  <2> DEFINE gone == {e \in Events : late[e] > 0 /\ late[e] = copies[e]}
  <2>1. /\ gone \subseteq UNION catalog /\ gone \in SUBSET Events
        /\ UNION catalog' = UNION catalog
    BY <1>2 DEF LateMutation, IInv, Catalogued
  <2>2. Live' = Live \ gone
    BY <1>2 DEF LateMutation, Live, IInv, Shapes
  <2> HIDE DEF gone
  <2>3. V!Leave(gone)
    BY <2>1, <2>2 DEF V!Leave
  <2> QED
    BY <2>1, <2>3
<1>3. CASE \E e \in Events : Insert(e)
  <2>1. PICK e \in Events : Insert(e)
    BY <1>3
  <2>2. Live' = Live \cup {e} /\ UNION catalog' = UNION catalog
    BY <2>1 DEF Insert, Live, IInv, Shapes
  <2>3. V!Enter({e})
    BY <2>2 DEF V!Enter
  <2> QED
    BY <2>3
<1>4. CASE RecordArchive /\ catalog' = catalog \cup {run.batch}
  <2>0. run.batch \in SUBSET Events
    BY DEF IInv, Catalogued
  <2>1. Live' = Live /\ UNION catalog' = (UNION catalog) \cup run.batch
    <3>1. catalog' = catalog \cup {run.batch} /\ copies' = copies
      BY <1>4 DEF RecordArchive
    <3>2. UNION catalog' = (UNION catalog) \cup run.batch
      BY <3>1, UnionAdd
    <3> QED
      BY <3>1, <3>2 DEF Live
  <2>2. V!Keep(run.batch)
    BY <2>1 DEF V!Keep
  <2> QED
    BY <2>0, <2>2
<1>5. CASE \E e \in Events : Merge(e)
  BY <1>5 DEF Merge, Live, IInv, Shapes
<1>6. CASE UNCHANGED <<copies, catalog>>
  BY <1>6 DEF Live
<1>7. CASE Start \/ Scan \/ RecordEvents \/ StageRebuilds
  BY <1>6, <1>7 DEF Start, Scan, RecordEvents, StageRebuilds
<1>8. CASE ReadTasks \/ Clear \/ Fill \/ DeleteTasks \/ Crash
  BY <1>6, <1>8 DEF ReadTasks, Clear, Fill, DeleteTasks, Crash
<1>9. CASE \E e \in Events : Views(e)
  BY <1>6, <1>9 DEF Views
<1>10. CASE UNCHANGED vars
  BY <1>6, <1>10 DEF vars
<1>11. CASE RecordArchive
  BY <1>4, <1>6, <1>11 DEF RecordArchive
<1> HIDE DEF V!Next, V!vars
<1> QED
  BY <1>1, <1>2, <1>3, <1>5, <1>7, <1>8, <1>9, <1>10, <1>11 DEF Next, Command

\* The ClickHouse store implements Vault without a transaction: a row is deleted, by the
\* command or by a mutation that outlives it, only when its archive is catalogued.
THEOREM ClickHouseImplementsVault == Spec => VaultSpec
<1>1. Init => V!Init
  BY DEF Init, V!Init, Live
<1>2. IInv /\ [Next]_vars => [V!Next]_(V!vars)
  BY VaultStep
<1> QED
  BY <1>1, <1>2, ClickHouseInvariant, PTL DEF Spec, VaultSpec, V!Spec

\* An event that once had a row has one or is in a catalogued archive, for ever, although
\* rows are deleted without a transaction and mutations outlive the command.
NothingLost == [][Live \cup (UNION catalog) \subseteq Live' \cup (UNION catalog)']_vars

\* Events are never lost (NothingLost), whatever deletes the rows: every step is a step of
\* Vault, and the only one of them that shrinks the live store, Leave, takes events that are
\* safe.
THEOREM EventsAreNeverLost == Spec => NothingLost
<1>1. ASSUME IInv, [Next]_vars
      PROVE  Live \cup (UNION catalog) \subseteq Live' \cup (UNION catalog)'
  <2>1. [V!Next]_(V!vars)
    BY <1>1, VaultStep
  <2>2. CASE UNCHANGED V!vars
    BY <2>2 DEF V!vars
  <2>3. CASE V!Next
    <3>1. PICK S \in SUBSET Events : V!Enter(S) \/ V!Keep(S) \/ V!Leave(S)
      BY <2>3 DEF V!Next
    <3> QED
      BY <3>1 DEF V!Enter, V!Keep, V!Leave
  <2> QED
    BY <2>1, <2>2, <2>3
<1>2. IInv /\ [Next]_vars
        => [Live \cup (UNION catalog) \subseteq Live' \cup (UNION catalog)']_vars
  BY <1>1
<1> QED
  BY <1>2, ClickHouseInvariant, PTL DEF Spec, NothingLost

-----------------------------------------------------------------------------
(* Types and limits                                                        *)

\* A set of naturals that is not empty has a least element.
LEMMA LeastNatural ==
  ASSUME NEW T \in SUBSET Nat, T # {}
  PROVE  \E n \in T : \A m \in T : n <= m
<1> DEFINE R == OpToRel(<, Nat)
<1>1. IsWellFoundedOn(R, Nat)
  BY NatLessThanWellFounded
<1> HIDE DEF R
<1>2. PICK x \in T : \A y \in T : ~ (<<y, x>> \in R)
  BY <1>1, WFMin
<1>3. \A y \in T : y < x => <<y, x>> \in R
  BY DEF R, OpToRel
<1>4. \A y \in T : ~(y < x)
  BY Zenon, <1>2, <1>3
<1> QED
  BY <1>4

\* A page has a last event.
LEMMA LastEvent ==
  ASSUME NEW F \in SUBSET Events, F # {}
  PROVE  \E m \in F : \A x \in F : x <= m
<1> DEFINE T == {N - x : x \in F}
<1>1. T \in SUBSET Nat /\ T # {}
  <2>1. \A x \in 1..N : N - x \in Nat
    BY NAssumption
  <2>2. \A x \in F : N - x \in Nat
    BY <2>1 DEF Events
  <2> QED
    BY <2>2
<1>2. PICK d \in T : \A c \in T : d <= c
  <2> HIDE DEF T
  <2> QED  BY <1>1, LeastNatural
<1>3. PICK m \in F : d = N - m
  OBVIOUS
<1>4. ASSUME NEW x \in F PROVE x <= m
  <2>1. N - x \in T
    OBVIOUS
  <2>2. N - m <= N - x
    BY <1>2, <1>3, <2>1
  <2> QED
    BY <2>2, NAssumption DEF Events
<1> QED
  BY <1>4

LEMMA FiniteEvents ==
  ASSUME NEW T \in SUBSET Events
  PROVE  IsFiniteSet(T) /\ Cardinality(T) \in Nat
<1>1. IsFiniteSet(Events)
  BY NAssumption, FS_Interval DEF Events
<1>2. IsFiniteSet(T)
  BY <1>1, FS_Subset
<1> QED
  BY <1>2, FS_CardinalityType

\* LIMIT n returns at most n rows: those before the last one of a page are fewer than n.
LEMMA FirstOfBounded ==
  ASSUME NEW S \in SUBSET Events, NEW n \in Nat
  PROVE  FirstOf(S, n) \subseteq S /\ Cardinality(FirstOf(S, n)) <= n
<1> DEFINE F == FirstOf(S, n)
<1>1. F \subseteq S
  BY DEF FirstOf
<1>2. CASE F = {}
  BY <1>1, <1>2, FS_EmptySet
<1>3. CASE F # {}
  <2>1. F \in SUBSET Events
    BY <1>1
  <2>2. PICK m \in F : \A x \in F : x <= m
    BY <1>3, <2>1, LastEvent
  <2> DEFINE B == {y \in S : y < m}
  <2>3. Cardinality(B) < n
    BY DEF FirstOf
  <2>4. IsFiniteSet(B) /\ Cardinality(B) \in Nat
    BY FiniteEvents
  <2>5. F \in SUBSET (B \cup {m})
    <3>1. \A x \in Events : x \in Int
      BY NAssumption DEF Events
    <3>2. ASSUME NEW x \in F PROVE x \in B \cup {m}
      <4>1. x \in S /\ x <= m /\ x \in Int /\ m \in Int
        BY <1>1, <2>1, <2>2, <3>1
      <4> QED
        BY <4>1
    <3> QED
      BY <3>2
  <2> HIDE DEF B, F
  <2>6. IsFiniteSet(B \cup {m}) /\ Cardinality(B \cup {m}) <= Cardinality(B) + 1
    <3>1. /\ IsFiniteSet(B \cup {m})
          /\ \/ Cardinality(B \cup {m}) = Cardinality(B)
             \/ Cardinality(B \cup {m}) = Cardinality(B) + 1
      BY Zenon, <2>4, FS_AddElement
    <3> QED
      BY <2>4, <3>1
  <2>7. Cardinality(F) <= Cardinality(B \cup {m}) /\ Cardinality(F) \in Nat
    BY <2>1, <2>5, <2>6, FS_Subset, FiniteEvents
  <2>8. Cardinality(B \cup {m}) \in Nat
    BY <2>6, FS_CardinalityType
  <2>9. Cardinality(F) <= n
    BY <2>3, <2>4, <2>6, <2>7, <2>8
  <2> QED
    BY <1>1, <2>9 DEF F
<1> QED
  BY <1>2, <1>3

LEMMA MinOfTwo ==
  ASSUME NEW a \in Nat, NEW b \in Nat
  PROVE  Min({a, b}) <= a /\ Min({a, b}) <= b
<1> DEFINE P(x) == \A y \in {a, b} : x <= y
<1>1. \E x \in {a, b} : P(x)
  OBVIOUS
<1>2. Min({a, b}) \in {a, b} /\ P(Min({a, b}))
  BY <1>1 DEF Min
<1> QED
  BY <1>2

\* There are finitely many rebuilds to stage.
LEMMA FiniteTasks ==
  ASSUME IInv
  PROVE  IsFiniteSet(tasks) /\ Cardinality(tasks) \in Nat
<1> DEFINE Pairs == TableNames \X Events
           All == {Task(p[1], p[2]) : p \in Pairs}
<1>1. IsFiniteSet(TableNames)
  <2>1. TableNames = ({"flow"} \cup {"terminal"}) \cup {"execution"}
    BY DEF TableNames
  <2> QED
    BY <2>1, FS_Singleton, FS_AddElement
<1>2. IsFiniteSet(Pairs)
  BY <1>1, FiniteEvents, FS_Product
<1>3. IsFiniteSet(All)
  <2> DEFINE f == [p \in Pairs |-> Task(p[1], p[2])]
  <2> HIDE DEF Pairs
  <2>1. f \in Surjection(Pairs, All)
    BY DEF Surjection
  <2> HIDE DEF f, All
  <2> QED  BY <1>2, <2>1, FS_Surjection
<1>4. tasks \in SUBSET All
  <2>1. ASSUME NEW k \in tasks PROVE k \in All
    <3>1. PICK u \in TableNames, e \in Events : k = Task(u, e)
      BY DEF IInv, Accounted
    <3>2. <<u, e>> \in Pairs /\ <<u, e>>[1] = u /\ <<u, e>>[2] = e
      OBVIOUS
    <3> QED
      BY <3>1, <3>2
  <2> QED
    BY <2>1
<1>5. IsFiniteSet(tasks)
  <2> HIDE DEF All
  <2> QED  BY <1>3, <1>4, FS_Subset
<1> QED
  BY <1>5, FS_CardinalityType

\* The limits of the command: a batch is expired and no longer than a page, and a
\* reconciliation takes no more rebuilds than it may.
Limited(v) ==
  /\ v.batch \subseteq Expired /\ Cardinality(v.batch) <= EventBatchSize
  /\ Cardinality(v.ids) <= TaskLimit

\* The type invariant, with what makes it inductive: only expired events are waiting for a
\* mutation that outlived its command.
Typed ==
  /\ TypeOK
  /\ \A e \in Events : late[e] > 0 => e \in Expired

LEMMA IdleLimited == Limited(Idle)
<1>1. Idle.batch = {} /\ Idle.ids = {}
  BY DEF Idle
<1>2. Cardinality({}) = 0
  BY FS_EmptySet
<1> QED
  BY <1>1, <1>2, LimitAssumption DEF Limited

LEMMA ContinueLimited ==
  ASSUME NEW v
  PROVE  Limited(Continue(v))
<1>1. Continue(v).batch = {} /\ Continue(v).ids = {}
  BY DEF Continue, Idle
<1>2. Cardinality({}) = 0
  BY FS_EmptySet
<1> QED
  BY <1>1, <1>2, LimitAssumption DEF Limited

LEMMA KeepsLimited ==
  ASSUME NEW v, NEW w, Limited(v), w.batch = v.batch, w.ids = v.ids
  PROVE  Limited(w)
BY DEF Limited

LEMMA ScanLimited ==
  ASSUME IInv, Limited(run), Scan
  PROVE  Limited(run')
<1> DEFINE rest == {e \in Live : e > run.cursor}
           page == FirstOf(rest, EventBatchSize)
           m == Max(page)
           next == IF page # rest THEN "scan" ELSE "idle"
<1>0. run = [x \in Fields |-> run[x]]
  BY DEF IInv, Shapes
<1>1. run' = IF page \cap Expired # {}
             THEN [run EXCEPT !.pc = "archive", !.cursor = m, !.batch = page \cap Expired,
                              !.then = next]
             ELSE IF page # rest THEN [run EXCEPT !.cursor = m]
             ELSE Idle
  BY DEF Scan
<1>2. rest \in SUBSET Events
  BY DEF Live
<1>3. page \subseteq Events /\ Cardinality(page) <= EventBatchSize
  <2> HIDE DEF rest
  <2> QED  BY <1>2, FirstOfBounded, LimitAssumption
<1> HIDE DEF page, rest, m, next
<1>4. Cardinality(page \cap Expired) <= EventBatchSize
  <2>1. IsFiniteSet(page) /\ Cardinality(page) \in Nat
    BY <1>3, FiniteEvents
  <2>2. page \cap Expired \in SUBSET page
    OBVIOUS
  <2>3. /\ Cardinality(page \cap Expired) <= Cardinality(page)
        /\ Cardinality(page \cap Expired) \in Nat
    BY <1>3, <2>1, <2>2, FS_Subset, FiniteEvents
  <2> QED
    BY <1>3, <2>1, <2>3, LimitAssumption
<1>5. CASE page \cap Expired # {}
  <2>1. run'.batch = page \cap Expired /\ run'.ids = run.ids
    BY <1>0, <1>1, <1>5 DEF Fields
  <2> QED
    BY <1>4, <2>1 DEF Limited
<1>6. CASE page \cap Expired = {} /\ page # rest
  <2>1. run'.batch = run.batch /\ run'.ids = run.ids
    BY <1>0, <1>1, <1>6 DEF Fields
  <2> QED
    BY <2>1, KeepsLimited
<1>7. CASE page \cap Expired = {} /\ page = rest
  BY <1>1, <1>7, IdleLimited
<1> QED
  BY <1>5, <1>6, <1>7

LEMMA ReadTasksLimited ==
  ASSUME IInv, Limited(run), ReadTasks
  PROVE  Limited(run')
<1>0. run = [x \in Fields |-> run[x]]
  BY DEF IInv, Shapes
<1>1. PICK ids \in SUBSET tasks :
        /\ Cardinality(ids) = Min({TaskLimit, Cardinality(tasks)})
        /\ run' = IF ids = {} THEN Continue(run)
                  ELSE [run EXCEPT !.pc = "clear", !.ids = ids, !.step = 1]
  BY DEF ReadTasks
<1>2. Cardinality(ids) <= TaskLimit
  BY <1>1, FiniteTasks, MinOfTwo, LimitAssumption
<1>3. CASE ids = {}
  BY <1>1, <1>3, ContinueLimited
<1>4. CASE ids # {}
  <2>1. run'.batch = run.batch /\ run'.ids = ids
    BY <1>0, <1>1, <1>4 DEF Fields
  <2> QED
    BY <1>2, <2>1 DEF Limited
<1> QED
  BY <1>3, <1>4

\* The command keeps within its limits in every step.
LEMMA LimitedStep ==
  ASSUME IInv, Limited(run), [Next]_vars
  PROVE  Limited(run')
<1>0. run = [x \in Fields |-> run[x]]
  BY DEF IInv, Shapes
<1>1. CASE Scan
  BY <1>1, ScanLimited
<1>2. CASE ReadTasks
  BY <1>2, ReadTasksLimited
<1>3. CASE Start
  <2>1. run'.batch = Idle.batch /\ run'.ids = Idle.ids
    BY <1>3 DEF Start, Idle
  <2> QED
    BY <2>1, IdleLimited, KeepsLimited
<1>4. CASE Crash
  BY <1>4, IdleLimited DEF Crash
<1>5. CASE DeleteTasks
  BY <1>5, ContinueLimited DEF DeleteTasks
<1>6. CASE DeleteEvents
  <2>1. run'.batch = {} /\ run'.ids = run.ids
    BY <1>0, <1>6 DEF DeleteEvents, Fields
  <2>2. Cardinality({}) = 0
    BY FS_EmptySet
  <2> QED
    BY <2>1, <2>2, LimitAssumption DEF Limited
<1>7. ASSUME NEW pc, Goto(pc) PROVE Limited(run')
  <2>1. run'.batch = run.batch /\ run'.ids = run.ids
    BY <1>0, <1>7 DEF Goto, Fields
  <2> QED
    BY <2>1, KeepsLimited
<1>8. CASE RecordArchive
  <2>1. run' = Idle \/ Goto("map")
    BY <1>8 DEF RecordArchive
  <2> QED
    BY <1>7, <2>1, IdleLimited
<1>9. CASE RecordEvents \/ Clear
  BY <1>7, <1>9 DEF RecordEvents, Clear
<1>10. CASE Fill
  <2>1. run'.batch = run.batch /\ run'.ids = run.ids
    BY <1>0, <1>10 DEF Fill, Fields
  <2> QED
    BY <2>1, KeepsLimited
<1>11. CASE Server \/ UNCHANGED vars
  BY <1>11 DEF Server, LateMutation, Insert, Views, Merge, vars
<1>12. CASE StageRebuilds
  <2>1. run' = Idle \/ run' = [run EXCEPT !.pc = "delete"]
    BY <1>12 DEF StageRebuilds
  <2>2. ASSUME run' = [run EXCEPT !.pc = "delete"]
        PROVE  run'.batch = run.batch /\ run'.ids = run.ids
    BY <1>0, <2>2 DEF Fields
  <2> QED
    BY <2>1, <2>2, IdleLimited, KeepsLimited
<1> QED
  BY <1>1, <1>2, <1>3, <1>4, <1>5, <1>6, <1>8, <1>9, <1>10, <1>11, <1>12 DEF Next, Command, Server

\* The tables of the store keep their types in every step.
TablesTyped ==
  /\ copies \in [Events -> 0..MaxCopies]
  /\ half \subseteq Events /\ torn \subseteq Expired
  /\ \A e \in Events : late[e] \in 0..copies[e]
  /\ \A e \in Events : late[e] > 0 => e \in Expired
  /\ derived \in [TableNames -> SUBSET Events]

Archived ==
  /\ tasks \subseteq {Task(t, e) : t \in TableNames, e \in Expired}
  /\ catalog \subseteq SUBSET Expired
  /\ cover \in [Events -> SUBSET Expired]

LEMMA TypedParts == Typed <=> TablesTyped /\ Archived /\ Limited(run)
<1>1. ASSUME derived \in [TableNames -> SUBSET Events] PROVE DOMAIN derived = TableNames
  BY <1>1
<1> QED
  BY <1>1 DEF Typed, TypeOK, TablesTyped, Archived, Limited, TableNames

LEMMA ArchivedStep ==
  ASSUME IInv, Archived, Limited(run), [Next]_vars
  PROVE  Archived'
<1>0. run.batch \subseteq Expired
  BY DEF Limited
<1>1. CASE RecordArchive
  BY <1>0, <1>1 DEF RecordArchive, Archived
<1>2. CASE RecordEvents
  BY <1>0, <1>2 DEF RecordEvents, Archived
<1>3. CASE StageRebuilds
  <2>1. /\ tasks' \subseteq tasks \cup {Task(t, e) : t \in {"flow", "execution"}, e \in run.batch}
        /\ UNCHANGED <<catalog, cover>>
    BY <1>3 DEF StageRebuilds
  <2> QED
    BY <1>0, <2>1 DEF Archived, TableNames
<1>4. CASE DeleteTasks
  BY <1>4 DEF DeleteTasks, Archived
<1>5. CASE UNCHANGED <<tasks, catalog, cover>>
  BY <1>5 DEF Archived
<1> QED
  BY <1>1, <1>2, <1>3, <1>4, <1>5
     DEF Next, Command, Start, Scan, DeleteEvents, ReadTasks, Clear, Fill, Crash, LateMutation,
         Insert, Views, Merge, vars

LEMMA TablesStep ==
  ASSUME IInv, TablesTyped, Limited(run), [Next]_vars
  PROVE  TablesTyped'
<1>0. /\ copies \in [Events -> 0..MaxCopies] /\ late \in [Events -> Nat]
      /\ \A e \in Events : late[e] \in 0..copies[e] /\ copies[e] \in Nat /\ copies[e] <= MaxCopies
      /\ \A e \in Events : late[e] > 0 => e \in Expired
      /\ run.batch \subseteq Expired /\ MaxCopies \in Nat
      /\ half \subseteq Events /\ torn \subseteq Expired
      /\ derived \in [TableNames -> SUBSET Events]
  BY BoundAssumption DEF IInv, Shapes, TablesTyped, Limited
<1>1. CASE LateMutation
  <2>1. /\ copies' = [e \in Events |-> copies[e] - late[e]]
        /\ torn' \subseteq torn \cup (Live \ Live') /\ late' = NotLate
        /\ UNCHANGED <<half, derived>>
    BY <1>1 DEF LateMutation
  <2>2. \A e \in Events : copies'[e] \in 0..MaxCopies
    BY <1>0, <2>1
  <2>3. \A e \in Live \ Live' : e \in Expired
    <3>1. ASSUME NEW e \in Events, copies[e] > 0, ~(copies'[e] > 0) PROVE late[e] > 0
      BY <1>0, <2>1, <3>1
    <3> QED
      BY <1>0, <3>1 DEF Live
  <2>4. \A e \in Events : late'[e] = 0
    BY <2>1 DEF NotLate
  <2>5. copies' \in [Events -> 0..MaxCopies] /\ torn' \subseteq Expired
    BY <1>0, <2>1, <2>2, <2>3
  <2>6. \A e \in Events : late'[e] \in 0..copies'[e] /\ ~(late'[e] > 0)
    BY <2>2, <2>4
  <2> QED
    BY <1>0, <2>1, <2>5, <2>6 DEF TablesTyped
<1>2. ASSUME NEW e \in Events, Insert(e) PROVE TablesTyped'
  <2>1. /\ copies[e] < MaxCopies /\ copies' = [copies EXCEPT ![e] = @ + 1]
        /\ half' = half \cup {e} /\ torn' = torn \ {e} /\ UNCHANGED <<derived, late>>
    BY <1>2 DEF Insert
  <2>2. \A f \in Events : copies'[f] \in 0..MaxCopies /\ late[f] \in 0..copies'[f]
    BY <1>0, <2>1
  <2>3. copies' \in [Events -> 0..MaxCopies]
    BY <1>0, <2>1, <2>2
  <2> QED
    BY <1>0, <2>1, <2>2, <2>3 DEF TablesTyped
<1>3. ASSUME NEW e \in Events, Merge(e) PROVE TablesTyped'
  <2>1. /\ copies[e] > 1 /\ late[e] = 0 /\ copies' = [copies EXCEPT ![e] = 1]
        /\ UNCHANGED <<half, derived, late, torn>>
    BY <1>3 DEF Merge
  <2>2. ASSUME NEW f \in Events
        PROVE  copies'[f] \in 0..MaxCopies /\ late[f] \in 0..copies'[f]
    <3>1. CASE f = e
      <4>1. copies'[f] = 1 /\ late[f] = 0
        BY <1>0, <2>1, <3>1
      <4> QED
        BY <1>0, <2>1, <4>1
    <3>2. CASE f # e
      BY <1>0, <2>1, <3>2
    <3> QED
      BY <3>1, <3>2
  <2>3. copies' \in [Events -> 0..MaxCopies]
    BY <1>0, <2>1, <2>2
  <2> QED
    BY <1>0, <2>1, <2>2, <2>3 DEF TablesTyped
<1>4. ASSUME NEW e \in Events, Views(e) PROVE TablesTyped'
  <2>1. /\ half' = half \ {e} /\ UNCHANGED <<copies, late, torn>>
        /\ derived' = [t \in TableNames |-> derived[t] \cup {f \in {e} : Feeds(t, f)}]
    BY <1>0, <1>4 DEF Views
  <2>2. derived' \in [TableNames -> SUBSET Events]
    BY <1>0, <2>1
  <2> QED
    BY <1>0, <2>1, <2>2 DEF TablesTyped
<1>5. CASE DeleteEvents
  <2>1. /\ late = NotLate /\ late' = late
        /\ copies' = [e \in Events |-> IF e \in run.batch THEN 0 ELSE copies[e]]
        /\ torn' = torn \cup (run.batch \cap half) /\ UNCHANGED <<half, derived>>
    BY <1>5 DEF DeleteEvents
  <2>2. \A e \in Events : copies'[e] \in 0..MaxCopies /\ late'[e] = 0
    BY <1>0, <2>1 DEF NotLate
  <2>3. copies' \in [Events -> 0..MaxCopies]
    BY <2>1, <2>2
  <2>4. \A e \in Events : late'[e] \in 0..copies'[e] /\ ~(late'[e] > 0)
    BY <2>2
  <2> QED
    BY <1>0, <2>1, <2>3, <2>4 DEF TablesTyped
<1>6. CASE Crash
  <2>1. /\ UNCHANGED <<copies, half, derived, torn>>
        /\ \/ late' = late
           \/ late' = [e \in Events |-> IF e \in run.batch THEN copies[e] ELSE late[e]]
    BY <1>6 DEF Crash
  <2>2. \A e \in Events : late'[e] \in 0..copies[e] /\ (late'[e] > 0 => e \in Expired)
    BY <1>0, <2>1
  <2> QED
    BY <1>0, <2>1, <2>2 DEF TablesTyped
<1>7. CASE Clear
  <2>1. /\ derived' = [derived EXCEPT ![Tables[run.step]] = @ \ Affected(Tables[run.step])]
        /\ UNCHANGED <<copies, half, late, torn>>
    BY <1>7 DEF Clear
  <2>2. derived' \in [TableNames -> SUBSET Events]
    BY <1>0, <2>1
  <2> QED
    BY <1>0, <2>1, <2>2 DEF TablesTyped
<1>8. CASE Fill
  <2> DEFINE c == Tables[run.step]
             new == {e \in Affected(c) \cap Live : Feeds(c, e)}
  <2>1. derived' = [derived EXCEPT ![c] = @ \cup new] /\ UNCHANGED <<copies, half, late, torn>>
    BY <1>8 DEF Fill
  <2>2. new \subseteq Events
    BY DEF Affected
  <2> HIDE DEF c, new
  <2>3. derived' \in [TableNames -> SUBSET Events]
    BY <1>0, <2>1, <2>2
  <2> QED
    BY <1>0, <2>1, <2>3 DEF TablesTyped
<1>9. CASE UNCHANGED <<copies, half, late, torn, derived>>
  BY <1>9 DEF TablesTyped
<1>10. CASE \/ Start \/ Scan \/ RecordArchive \/ RecordEvents \/ StageRebuilds \/ ReadTasks
            \/ DeleteTasks \/ UNCHANGED vars
  <2>1. CASE Start \/ Scan \/ RecordEvents \/ StageRebuilds
    BY <1>9, <2>1 DEF Start, Scan, RecordEvents, StageRebuilds
  <2>2. CASE RecordArchive \/ ReadTasks \/ DeleteTasks \/ UNCHANGED vars
    BY <1>9, <2>2 DEF RecordArchive, ReadTasks, DeleteTasks, vars
  <2> QED
    BY <1>10, <2>1, <2>2
<1> HIDE DEF TablesTyped
<1> QED
  BY Zenon, <1>1, <1>2, <1>3, <1>4, <1>5, <1>6, <1>7, <1>8, <1>10 DEF Next, Command

LEMMA InitTyped == Init => Typed
<1> SUFFICES ASSUME Init PROVE Typed
  OBVIOUS
<1>1. TablesTyped
  BY BoundAssumption DEF Init, TablesTyped, NotLate, TableNames
<1>2. Archived
  BY DEF Init, Archived
<1>3. Limited(run)
  BY IdleLimited DEF Init
<1> QED
  BY <1>1, <1>2, <1>3, TypedParts

\* The store keeps its types and the command its limits, wherever it dies and whatever is
\* inserted, merged or mutated meanwhile: no batch is longer than EventBatchSize or has an
\* event that is not expired, a reconciliation reads no more than TaskLimit rebuilds, and
\* only expired events lose rows outside a batch.
THEOREM ClickHouseTypes == Spec => []TypeOK
<1>1. ASSUME IInv, Typed, [Next]_vars PROVE Typed'
  <2>1. TablesTyped /\ Archived /\ Limited(run)
    BY <1>1, TypedParts
  <2>2. TablesTyped' /\ Archived' /\ Limited(run')
    BY <1>1, <2>1, TablesStep, ArchivedStep, LimitedStep
  <2>3. Typed' <=> TablesTyped' /\ Archived' /\ Limited(run)'
    BY TypedParts, PTL
  <2> QED
    BY <2>2, <2>3
<1>2. IInv /\ Typed /\ [Next]_vars => Typed'
  BY <1>1
<1>3. Typed => TypeOK
  BY DEF Typed
<1> QED
  BY <1>2, <1>3, InitTyped, ClickHouseInvariant, PTL DEF Spec
=============================================================================
