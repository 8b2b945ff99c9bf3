------------------------- MODULE HttpCaptureProofs -------------------------
(***************************************************************************)
(* Proofs about modules NatsSink and HttpCapture, for any number of        *)
(* requests, bodies of any size, and every limit and capacity.             *)
(***************************************************************************)
EXTENDS HttpCapture, FiniteSetTheorems, SequenceTheorems, TLAPS

InQueue(r) == \E i \in 1..Len(queue) : queue[i] = r
InSpool(r) == r \in worker.job \/ InQueue(r)

\* Where a request is: its goroutine has not finished it, or has logged it, or has handed it
\* to the spooler, which holds it in one place or has logged it.
Spool ==
  /\ \A r \in Event :
       /\ stage[r] # "done" => logs[r] = 0 /\ r \notin accepted
       /\ stage[r] = "done" /\ r \notin accepted => logs[r] = 1
       /\ r \in accepted => logs[r] = IF InSpool(r) THEN 0 ELSE 1
       /\ InSpool(r) => r \in accepted
       /\ InQueue(r) => r \notin worker.job
  /\ \A i, j \in 1..Len(queue) : queue[i] = queue[j] => i = j
  /\ worker.pc = "put" => \E r \in Event : worker.job = {r}
  /\ worker.pc # "put" => worker.job = {}
  /\ worker.pc = "exit" => queue = <<>> /\ closed
  /\ \A c \in Closer : closing[c] = "returned" => worker.pc = "exit"

\* An event is new to the journal until it is logged, and the messages hold no new event.
Sink ==
  /\ \A r \in Event : fate[r] = "new" <=> logs[r] = 0
  /\ batch # {} => journal \in {"open", "closing"}
  /\ \A r \in Event : fate[r] = "new" => r \notin stream /\ \A S \in inflight : r \notin S
  /\ WrittenIsStored

\* A reference has its object, and the bodies of an accepted request are linked or still to
\* be stored.
Linked ==
  /\ \A r \in Event, b \in Role : link[r][b] = "ref" => <<r, b>> \in object
  /\ \A r \in accepted, b \in Role :
       job[r][b] # 0 /\ link[r][b] = "none" =>
         InQueue(r) \/ (r \in worker.job /\ b \in worker.todo)

\* Requests are made under an open journal, and a program in no haste has closed the spooler
\* before it closes the journal.
Orderly ==
  /\ \A r \in Event : stage[r] # "new" => journal # "none"
  /\ journal \in {"closing", "closed"} /\ ~hasty => \E c \in Closer : closing[c] = "returned"

IInv == TypeOK /\ Spool /\ Sink /\ Linked /\ Orderly

-----------------------------------------------------------------------------
(* Types                                                                   *)

LEMMA MinOfTwo ==
  ASSUME NEW m \in Nat, NEW n \in Nat
  PROVE  Min({m, n}) = IF m <= n THEN m ELSE n
<1>1. \A x \in {m, n} : (\A y \in {m, n} : x <= y) => x = IF m <= n THEN m ELSE n
  OBVIOUS
<1>2. \E x \in {m, n} : \A y \in {m, n} : x <= y
  OBVIOUS
<1> QED
  BY <1>1, <1>2 DEF Min

LEMMA SinkTypes ==
  ASSUME SinkTypeOK, Settling \/ Server
  PROVE  SinkTypeOK'
<1> USE DEF SinkTypeOK, With, Fates
<1>1. ASSUME NEW S \in SUBSET Event, MarshalBatch(S) \/ PublishRefused(S) \/ PublishMsg(S),
             UNCHANGED <<journal, malformed, stream>>
      PROVE  SinkTypeOK'
  BY <1>1 DEF MarshalBatch, PublishRefused, PublishMsg, Offered, Settled
<1>2. CASE Acknowledged /\ UNCHANGED <<journal, malformed, stream>>
  <2>1. Cardinality(batch) \in Nat
    <3>1. IsFiniteSet(batch)
      BY EventAssumption, FS_Subset
    <3> QED
      BY <3>1, FS_CardinalityType
  <2> QED
    BY <1>2, <2>1 DEF Acknowledged, Settled
<1>3. CASE TimedOut /\ UNCHANGED <<journal, malformed, stream>>
  BY <1>3 DEF TimedOut, Settled
<1>4. CASE CloseSink
  BY <1>4 DEF CloseSink
<1>5. CASE Server
  BY <1>5 DEF Server
<1> QED
  BY <1>1, <1>2, <1>3, <1>4, <1>5 DEF Settling, Publish

\* Logging an event that is new to the journal.
LEMMA EmitTypes ==
  ASSUME IInv, NEW r \in Event, fate[r] = "new", Emit(r),
         UNCHANGED sinkVars
  PROVE  /\ SinkTypeOK'
         /\ logs' \in [Event -> Nat]
         /\ \E f \in {"pending", "dropped"} :
              /\ f = "pending" => journal = "open"
              /\ fate' = [fate EXCEPT ![r] = f]
<1>1. PICK f \in {"pending", "dropped"} :
        /\ f = "pending" => journal = "open"
        /\ fate' = [fate EXCEPT ![r] = f]
  BY DEF Emit, Log
<1>2. logs' \in [Event -> Nat]
  BY DEF IInv, TypeOK, Emit
<1>3. fate \in [Event -> Fates] /\ batch \subseteq {e \in Event : fate[e] = "pending"}
  BY DEF IInv, TypeOK, SinkTypeOK, With
<1>4. fate' \in [Event -> Fates] /\ batch \subseteq {e \in Event : fate'[e] = "pending"}
  BY <1>1, <1>3 DEF Fates
<1> QED
  BY <1>1, <1>2, <1>4 DEF IInv, TypeOK, SinkTypeOK, With, sinkVars

\* What the spooler is given never exceeds the limit, with a redactor or without.
LEMMA SpoolBodyTypes ==
  ASSUME TypeOK, NEW r \in Event, NEW b \in Role, NEW n \in Snapshots(r, b),
         NEW k \in spoolBody(n)
  PROVE  k \in 0..PayloadLimit
<1>1. PayloadLimit \in Nat /\ read[r][b] \in Nat
  BY SpoolAssumption DEF TypeOK
<1>2. \A m \in Nat : Kept(m) \in 0..PayloadLimit
  BY <1>1, MinOfTwo DEF Kept
<1>3. Kept(read[r][b]) \in 0..PayloadLimit
  BY <1>1, <1>2
<1>4. n \in 0..PayloadLimit
  <2>1. n \in 0..Kept(read[r][b]) \/ n = Kept(read[r][b])
    BY Zenon DEF Snapshots
  <2> QED
    BY <1>1, <1>3, <2>1
<1>5. \A d \in Redacted : Kept(d) \in 0..PayloadLimit
  BY <1>2, RedactorAssumption
<1>6. k = 0 \/ k = n \/ \E d \in Redacted : k = Kept(d)
  BY Zenon DEF spoolBody
<1> QED
  BY <1>1, <1>4, <1>5, <1>6

\* The steps of a request's goroutine up to log.
Bodies(r) ==
  RoundTrip(r) \/ ReadRequest(r) \/ BaseReturns(r) \/ ReadResponse(r) \/ Finish(r)

LEMMA BodyTypes ==
  ASSUME TypeOK, NEW r \in Event, Bodies(r)
  PROVE  TypeOK'
<1> USE DEF TypeOK, spoolVars
<1>1. CASE RoundTrip(r)
  BY <1>1 DEF RoundTrip, SinkTypeOK, With
<1>2. CASE ReadRequest(r)
  <2>1. read' \in [Event -> [Role -> Nat]] /\ sending' \subseteq Event
    <3>1. CASE read' = [read EXCEPT ![r]["request"] = @ + 1] /\ UNCHANGED sending
      BY <3>1 DEF Role
    <3>2. CASE sending' = sending \ {r} /\ UNCHANGED read
      BY <3>2
    <3> QED
      BY <1>2, <3>1, <3>2 DEF ReadRequest
  <2> QED
    BY <1>2, <2>1 DEF ReadRequest, SinkTypeOK, With, sinkVars
<1>3. CASE BaseReturns(r)
  <2>1. stage' \in [Event -> {"new", "base", "body", "finish", "enqueue", "log", "done"}]
    BY <1>3 DEF BaseReturns
  <2>2. SinkTypeOK'
    BY <1>3 DEF BaseReturns, SinkTypeOK, With, sinkVars
  <2> QED
    BY Zenon, <1>3, <2>1, <2>2 DEF BaseReturns
<1>4. CASE ReadResponse(r)
  <2>1. read' \in [Event -> [Role -> Nat]]
    BY <1>4 DEF ReadResponse, Role
  <2>2. SinkTypeOK'
    BY <1>4 DEF ReadResponse, SinkTypeOK, With, sinkVars
  <2> QED
    BY Zenon, <1>4, <2>1, <2>2 DEF ReadResponse
<1>5. CASE Finish(r)
  <2>1. calls' \in [Event -> 0..MaxFinish]
    BY <1>5, SpoolAssumption DEF Finish
  <2> QED
    BY <1>5, <2>1 DEF Finish, Once, SinkTypeOK, With, sinkVars
<1> QED
  BY <1>1, <1>2, <1>3, <1>4, <1>5 DEF Bodies

LEMMA LogTypes ==
  ASSUME IInv, NEW r \in Event, Logging(r)
  PROVE  TypeOK'
<1> USE DEF IInv, TypeOK, spoolVars
<1>1. CASE log(r)
  <2>1. PICK q \in Snapshots(r, "request"), p \in Snapshots(r, "response") :
          /\ \E x \in spoolBody(q), y \in spoolBody(p) :
               job' = [job EXCEPT ![r] = [b \in Role |-> IF b = "request" THEN x ELSE y]]
          /\ stage' = [stage EXCEPT ![r] = IF {q, p} = {0} THEN "log" ELSE "enqueue"]
    BY Zenon, <1>1 DEF log
  <2>2. PICK x \in spoolBody(q), y \in spoolBody(p) :
          job' = [job EXCEPT ![r] = [b \in Role |-> IF b = "request" THEN x ELSE y]]
    BY Zenon, <2>1
  <2>3. job' \in [Event -> [Role -> 0..PayloadLimit]]
    <3>1. x \in 0..PayloadLimit /\ y \in 0..PayloadLimit
      BY SpoolBodyTypes DEF Role
    <3> QED
      BY <2>2, <3>1
  <2>4. stage' \in [Event -> {"new", "base", "body", "finish", "enqueue", "log", "done"}]
    BY <2>1
  <2> QED
    BY <1>1, <2>3, <2>4 DEF log, SinkTypeOK, With, sinkVars
<1>2. CASE enqueue(r)
  <2>1. queue' \in Seq(Event) /\ Len(queue') <= QueueCapacity
    <3>1. CASE Accepts /\ queue' = Append(queue, r)
      BY <3>1, SpoolAssumption DEF Accepts
    <3> QED
      BY <1>2, <3>1 DEF enqueue
  <2> QED
    BY <1>2, <2>1 DEF enqueue, SinkTypeOK, With, sinkVars
<1>3. CASE LogEvent(r)
  <2>1. fate[r] = "new"
    BY <1>3 DEF LogEvent, Spool, Sink
  <2>2. SinkTypeOK' /\ logs' \in [Event -> Nat]
    BY <1>3, <2>1, EmitTypes DEF LogEvent
  <2> QED
    BY <1>3, <2>2 DEF LogEvent
<1> QED
  BY <1>1, <1>2, <1>3 DEF Logging

\* The job the worker holds.
LEMMA WorkerJob ==
  ASSUME IInv, worker.pc = "put"
  PROVE  \E r \in Event : /\ worker.job = {r} /\ r \in accepted
                          /\ logs[r] = 0 /\ fate[r] = "new" /\ ~InQueue(r)
BY DEF IInv, Spool, Sink, InSpool

LEMMA WorkerTypes ==
  ASSUME IInv, Worker
  PROVE  TypeOK'
<1> USE DEF IInv, TypeOK, httpVars
<1>1. CASE TakeJob
  <2>1. Head(queue) \in Event /\ Tail(queue) \in Seq(Event) /\ Len(Tail(queue)) <= QueueCapacity
    BY <1>1, SpoolAssumption DEF TakeJob
  <2> QED
    BY <1>1, <2>1 DEF TakeJob, SinkTypeOK, With, sinkVars
<1>2. CASE PutBody
  <2>1. PICK r \in Event, b \in Role : Put(r, b) /\ worker' = [worker EXCEPT !.todo = @ \ {b}]
    BY <1>2 DEF PutBody, Role
  <2>2. link' \in [Event -> [Role -> {"none", "ref", "error"}]] /\ object' \subseteq Event \X Role
    <3>1. CASE link' = [link EXCEPT ![r][b] = "ref"] /\ object' = object \cup {<<r, b>>}
      BY <3>1
    <3>2. CASE link' = [link EXCEPT ![r][b] = "error"] /\ UNCHANGED object
      BY <3>2
    <3> QED
      BY <2>1, <3>1, <3>2 DEF Put
  <2>3. worker' \in [pc : {"wait", "put", "exit"}, job : SUBSET Event, todo : SUBSET Role]
    BY <2>1
  <2> QED
    BY <1>2, <2>2, <2>3 DEF PutBody, SinkTypeOK, With, sinkVars
<1>3. CASE LogJob
  <2>1. PICK r \in Event : Emit(r) /\ fate[r] = "new"
    BY <1>3, WorkerJob DEF LogJob
  <2>2. SinkTypeOK' /\ logs' \in [Event -> Nat]
    BY <1>3, <2>1, EmitTypes DEF LogJob
  <2> QED
    BY <1>3, <2>2 DEF LogJob, Waiting
<1>4. CASE RunReturns
  BY <1>4 DEF RunReturns, SinkTypeOK, With, sinkVars
<1> QED
  BY <1>1, <1>2, <1>3, <1>4 DEF Worker

Closing == \E c \in Closer : CloseSpooler(c) \/ CloseSpoolerReturns(c)

LEMMA TypesKept ==
  ASSUME IInv, [Next]_vars
  PROVE  TypeOK'
<1>1. CASE Program
  <2>1. hasty' \in BOOLEAN
    BY <1>1 DEF Program, IInv, TypeOK
  <2> QED
    BY <1>1, <2>1 DEF Program, Open, CloseJournal, IInv, TypeOK, SinkTypeOK, With, httpVars, spoolVars
<1>2. CASE Closing
  BY <1>2 DEF Closing, CloseSpooler, CloseSpoolerReturns, IInv, TypeOK, SinkTypeOK, With,
     sinkVars, httpVars
<1>3. CASE (Settling \/ Server) /\ UNCHANGED <<httpVars, spoolVars, hasty>>
  BY <1>3, SinkTypes DEF IInv, TypeOK, httpVars, spoolVars
<1>4. CASE UNCHANGED vars
  BY <1>4 DEF vars, IInv, TypeOK, SinkTypeOK, With, sinkVars, httpVars, spoolVars
<1> QED
  BY <1>1, <1>2, <1>3, <1>4, BodyTypes, LogTypes, WorkerTypes DEF Next, Bodies, Closing, IInv

-----------------------------------------------------------------------------
(* Steps of a request before log                                           *)

Early == {"new", "base", "body", "finish"}

LEMMA BodyMoves ==
  ASSUME TypeOK, NEW r \in Event, Bodies(r)
  PROVE  /\ UNCHANGED <<fate, journal, batch, inflight, stream, published,
                        job, link, accepted, logs, queue, worker, closing, object, hasty>>
         /\ \A x \in Event : stage'[x] = stage[x] \/ {stage[x], stage'[x]} \subseteq Early
         /\ \A x \in Event : stage[x] = "new" /\ stage'[x] # "new" => journal # "none"
<1> USE DEF TypeOK, spoolVars, sinkVars, Early
<1>1. CASE RoundTrip(r)
  BY <1>1 DEF RoundTrip
<1>2. CASE ReadRequest(r)
  BY <1>2 DEF ReadRequest
<1>3. CASE BaseReturns(r)
  BY <1>3 DEF BaseReturns
<1>4. CASE ReadResponse(r)
  BY <1>4 DEF ReadResponse
<1>5. CASE Finish(r)
  BY <1>5 DEF Finish, Once
<1> QED
  BY <1>1, <1>2, <1>3, <1>4, <1>5 DEF Bodies

\* Spool and Linked depend on the stages only through which requests are done.
LEMMA SpoolFrame ==
  ASSUME Spool, \A x \in Event : stage'[x] = "done" <=> stage[x] = "done",
         UNCHANGED <<accepted, logs, queue, worker, closing>>
  PROVE  Spool'
BY DEF Spool, InSpool, InQueue, closed

LEMMA SinkFrame ==
  ASSUME Sink, UNCHANGED <<fate, logs, journal, batch, inflight, stream, published>>
  PROVE  Sink'
BY DEF Sink, WrittenIsStored, With

LEMMA LinkedFrame ==
  ASSUME Linked, UNCHANGED <<link, object, accepted, job, queue, worker>>
  PROVE  Linked'
BY DEF Linked, InQueue

LEMMA OrderlyFrame ==
  ASSUME Orderly, UNCHANGED <<journal, hasty>>,
         \A x \in Event : stage[x] = "new" /\ stage'[x] # "new" => journal # "none",
         \A c \in Closer : closing[c] = "returned" => closing'[c] = "returned"
  PROVE  Orderly'
BY Zenon DEF Orderly

LEMMA BodyIInv ==
  ASSUME IInv, NEW r \in Event, Bodies(r)
  PROVE  IInv'
<1> USE DEF IInv
<1>1. TypeOK'
  BY BodyTypes
<1>2. \A x \in Event : stage'[x] = "done" <=> stage[x] = "done"
  BY BodyMoves DEF Early
<1>3. Spool' /\ Sink' /\ Linked'
  BY <1>2, BodyMoves, SpoolFrame, SinkFrame, LinkedFrame
<1>4. Orderly'
  BY BodyMoves, OrderlyFrame
<1> QED
  BY <1>1, <1>3, <1>4

-----------------------------------------------------------------------------
(* log, enqueue and the event                                              *)

LEMMA LogCopies ==
  ASSUME IInv, NEW r \in Event, log(r)
  PROVE  IInv'
<1> USE DEF IInv
<1>0. TypeOK'
  BY LogTypes DEF Logging
<1>1. PICK q \in Snapshots(r, "request"), p \in Snapshots(r, "response") :
        /\ \E x \in spoolBody(q), y \in spoolBody(p) :
             job' = [job EXCEPT ![r] = [b \in Role |-> IF b = "request" THEN x ELSE y]]
        /\ stage' = [stage EXCEPT ![r] = IF {q, p} = {0} THEN "log" ELSE "enqueue"]
  BY Zenon DEF log
<1>2. /\ stage[r] = "finish" /\ stage'[r] \in {"log", "enqueue"}
      /\ \A x \in Event \ {r} : stage'[x] = stage[x] /\ job'[x] = job[x]
  BY <1>1 DEF log, TypeOK
<1>3. /\ UNCHANGED <<fate, journal, batch, inflight, stream, published, hasty>>
      /\ UNCHANGED <<link, accepted, logs, queue, worker, closing, object>>
  BY DEF log, sinkVars, spoolVars
<1>4. Spool'
  <2>1. \A x \in Event : stage'[x] = "done" <=> stage[x] = "done"
    BY <1>2
  <2> QED
    BY <1>3, <2>1, SpoolFrame
<1>5. Sink'
  BY <1>3, SinkFrame
<1>6. Linked'
  <2>1. \A x \in accepted : x # r /\ x \in Event
    BY <1>2 DEF Spool, TypeOK
  <2> QED
    BY <1>2, <1>3, <2>1 DEF Linked, InQueue
<1>7. Orderly'
  BY <1>2, <1>3, OrderlyFrame
<1> QED
  BY <1>0, <1>4, <1>5, <1>6, <1>7

LEMMA EnqueueIInv ==
  ASSUME IInv, NEW r \in Event, enqueue(r)
  PROVE  IInv'
<1> USE DEF IInv
<1>0. TypeOK'
  BY LogTypes DEF Logging
<1>1. /\ UNCHANGED <<fate, journal, batch, inflight, stream, published>>
      /\ UNCHANGED <<job, link, logs, worker, closing, object, hasty>>
      /\ stage[r] = "enqueue" /\ r \notin accepted /\ logs[r] = 0
      /\ \A x \in Event \ {r} : stage'[x] = stage[x]
  BY DEF enqueue, sinkVars, Spool, TypeOK
<1>2. Sink'
  BY <1>1, SinkFrame
<1>3. Orderly'
  BY <1>1, OrderlyFrame
<1>4. CASE Accepts /\ queue' = Append(queue, r) /\ accepted' = accepted \cup {r}
           /\ stage' = [stage EXCEPT ![r] = "done"]
  <2>1. queue \in Seq(Event) /\ stage'[r] = "done"
    BY <1>4 DEF TypeOK
  <2>2. \A x \in Event : InQueue(x)' <=> InQueue(x) \/ x = r
    BY <1>4, <2>1 DEF InQueue
  <2>3. ~InQueue(r) /\ r \notin worker.job
    BY <1>1 DEF Spool, InSpool
  <2>4. \A i, j \in 1..Len(queue') : queue'[i] = queue'[j] => i = j
    BY <1>4, <2>1, <2>3 DEF Spool, InQueue
  <2>5. worker.pc # "exit"
    BY <1>4 DEF Accepts, Spool
  <2>6. \A x \in Event :
          /\ stage'[x] # "done" => logs'[x] = 0 /\ x \notin accepted'
          /\ stage'[x] = "done" /\ x \notin accepted' => logs'[x] = 1
          /\ x \in accepted' => logs'[x] = IF InSpool(x)' THEN 0 ELSE 1
          /\ InSpool(x)' => x \in accepted'
          /\ InQueue(x)' => x \notin worker'.job
    BY <1>1, <1>4, <2>1, <2>2, <2>3 DEF Spool, InSpool
  <2>7. Spool'
    BY <1>1, <2>4, <2>5, <2>6 DEF Spool, closed
  <2>8. Linked'
    <3>1. \A x \in accepted' : x \in Event
      BY <1>0 DEF TypeOK
    <3> QED
      BY <1>1, <1>4, <2>2, <3>1 DEF Linked
  <2> QED
    BY <1>0, <1>2, <1>3, <2>7, <2>8
<1>5. CASE UNCHANGED <<queue, accepted>> /\ stage' = [stage EXCEPT ![r] = "log"]
  <2>1. \A x \in Event : stage'[x] = "done" <=> stage[x] = "done"
    BY <1>1, <1>5 DEF TypeOK
  <2> QED
    BY <1>0, <1>1, <1>2, <1>3, <1>5, <2>1, SpoolFrame, LinkedFrame
<1> QED
  BY <1>4, <1>5 DEF enqueue

\* Logging a new event keeps what the sink knows.
LEMMA EmitSink ==
  ASSUME IInv, NEW r \in Event, fate[r] = "new", Emit(r), UNCHANGED sinkVars
  PROVE  /\ Sink'
         /\ logs'[r] = 1
         /\ \A x \in Event \ {r} : logs'[x] = logs[x]
<1> USE DEF IInv
<1>1. PICK f \in {"pending", "dropped"} : fate' = [fate EXCEPT ![r] = f]
  BY EmitTypes
<1>2. /\ logs[r] = 0 /\ logs'[r] = 1
      /\ \A x \in Event \ {r} : logs'[x] = logs[x] /\ fate'[x] = fate[x]
      /\ fate'[r] = f
  BY <1>1 DEF Sink, Emit, TypeOK, SinkTypeOK
<1>3. {e \in Event : fate'[e] = "written"} = {e \in Event : fate[e] = "written"}
  BY <1>2
<1>4. WrittenIsStored'
  BY <1>3 DEF Sink, WrittenIsStored, With, sinkVars
<1>5. /\ \A x \in Event : fate'[x] = "new" <=> logs'[x] = 0
      /\ \A x \in Event : fate'[x] = "new" => x \notin stream /\ \A S \in inflight : x \notin S
  BY <1>2 DEF Sink
<1> QED
  BY <1>2, <1>4, <1>5 DEF Sink, sinkVars

LEMMA LogEventIInv ==
  ASSUME IInv, NEW r \in Event, LogEvent(r)
  PROVE  IInv'
<1> USE DEF IInv
<1>0. TypeOK'
  BY LogTypes DEF Logging
<1>1. /\ UNCHANGED <<sinkVars, job, link, accepted, queue, worker, closing, object, hasty>>
      /\ stage[r] = "log" /\ stage'[r] = "done" /\ r \notin accepted /\ fate[r] = "new" /\ Emit(r)
      /\ \A x \in Event \ {r} : stage'[x] = stage[x]
  BY DEF LogEvent, Spool, Sink, TypeOK, spoolVars
<1>2. Sink' /\ logs'[r] = 1 /\ \A x \in Event \ {r} : logs'[x] = logs[x]
  BY <1>1, EmitSink
<1>3. \A x \in Event : (InSpool(x)' <=> InSpool(x)) /\ (InQueue(x)' <=> InQueue(x))
  BY <1>1 DEF InSpool, InQueue
<1>4. Spool'
  <2>1. \A x \in Event :
          /\ stage'[x] # "done" => logs'[x] = 0 /\ x \notin accepted'
          /\ stage'[x] = "done" /\ x \notin accepted' => logs'[x] = 1
          /\ x \in accepted' => logs'[x] = IF InSpool(x)' THEN 0 ELSE 1
          /\ InSpool(x)' => x \in accepted'
          /\ InQueue(x)' => x \notin worker'.job
    BY <1>1, <1>2, <1>3 DEF Spool
  <2>2. \A i, j \in 1..Len(queue') : queue'[i] = queue'[j] => i = j
    BY <1>1 DEF Spool
  <2>3. /\ worker' = worker /\ queue' = queue /\ (closed' <=> closed) /\ closing' = closing
    BY <1>1 DEF closed
  <2> QED
    BY <2>1, <2>2, <2>3 DEF Spool
<1>5. Linked'
  BY <1>1, LinkedFrame
<1>6. Orderly'
  BY <1>1, OrderlyFrame DEF sinkVars
<1> QED
  BY <1>0, <1>2, <1>4, <1>5, <1>6

-----------------------------------------------------------------------------
(* The spooler                                                             *)

LEMMA TakeJobIInv ==
  ASSUME IInv, TakeJob
  PROVE  IInv'
<1> USE DEF IInv
<1> DEFINE h == Head(queue)
<1>0. TypeOK'
  BY WorkerTypes DEF Worker
<1>1. /\ worker.pc = "wait" /\ queue # <<>> /\ queue' = Tail(queue)
      /\ worker'.pc = "put" /\ worker'.job = {h}
      /\ worker'.todo = {b \in Role : job[h][b] # 0}
      /\ UNCHANGED <<fate, journal, batch, inflight, stream, published>>
      /\ UNCHANGED <<stage, job, link, accepted, logs, closing, object, hasty>>
  BY DEF TakeJob, httpVars, sinkVars
<1>2. queue \in Seq(Event) /\ h = queue[1] /\ h \in Event /\ worker.job = {}
  <2>1. queue \in Seq(Event)
    BY Zenon DEF TypeOK
  <2>2. worker.job = {}
    BY <1>1 DEF Spool
  <2>3. h = queue[1] /\ h \in Event
    BY <1>1, <2>1, HeadTailProperties
  <2> QED
    BY <2>1, <2>2, <2>3
<1>3. \A i, j \in 1..Len(queue) : queue[i] = queue[j] => i = j
  BY DEF Spool
<1>4. \A i \in 1..Len(queue') : i + 1 \in 1..Len(queue) /\ queue'[i] = queue[i + 1]
  BY <1>1, <1>2
<1>5. \A i \in 1..Len(queue) : i = 1 \/ (i - 1 \in 1..Len(queue') /\ queue'[i - 1] = queue[i])
  BY <1>1, <1>2
<1>6. ASSUME NEW x \in Event PROVE InQueue(x)' <=> InQueue(x) /\ x # h
  <2>1. ASSUME InQueue(x)' PROVE InQueue(x) /\ x # h
    <3>1. PICK i \in 1..Len(queue') : queue'[i] = x
      BY <2>1 DEF InQueue
    <3>2. i + 1 \in 1..Len(queue) /\ queue[i + 1] = x /\ i + 1 # 1 /\ 1 \in 1..Len(queue)
      BY <1>1, <1>2, <1>4, <3>1
    <3> QED
      BY <1>2, <1>3, <3>2 DEF InQueue
  <2>2. ASSUME InQueue(x), x # h PROVE InQueue(x)'
    <3>1. PICK i \in 1..Len(queue) : queue[i] = x
      BY <2>2 DEF InQueue
    <3> QED
      BY <1>2, <1>5, <2>2, <3>1 DEF InQueue
  <2> QED
    BY <2>1, <2>2
<1>7. InQueue(h)
  BY <1>1, <1>2 DEF InQueue
<1> HIDE DEF h
<1>8. \A x \in Event : InSpool(x)' <=> InSpool(x)
  BY <1>1, <1>2, <1>6, <1>7 DEF InSpool
<1>9. \A i, j \in 1..Len(queue') : queue'[i] = queue'[j] => i = j
  <2>1. SUFFICES ASSUME NEW i \in 1..Len(queue'), NEW j \in 1..Len(queue'), queue'[i] = queue'[j]
                 PROVE  i = j
    OBVIOUS
  <2>2. i + 1 = j + 1
    BY <1>3, <1>4, <2>1
  <2> QED
    BY <2>2
<1>10. Spool'
  <2>1. \A x \in Event :
          /\ stage'[x] # "done" => logs'[x] = 0 /\ x \notin accepted'
          /\ stage'[x] = "done" /\ x \notin accepted' => logs'[x] = 1
          /\ x \in accepted' => logs'[x] = IF InSpool(x)' THEN 0 ELSE 1
          /\ InSpool(x)' => x \in accepted'
          /\ InQueue(x)' => x \notin worker'.job
    BY <1>1, <1>6, <1>8 DEF Spool
  <2> QED
    BY <1>1, <1>2, <1>9, <2>1 DEF Spool
<1>11. Linked'
  <2>1. \A x \in accepted : x \in Event
    BY DEF TypeOK
  <2> QED
    BY <1>1, <1>2, <1>6, <2>1 DEF Linked
<1>12. Sink' /\ Orderly'
  BY <1>1, SinkFrame, OrderlyFrame
<1> QED
  BY <1>0, <1>10, <1>11, <1>12

LEMMA PutBodyIInv ==
  ASSUME IInv, PutBody
  PROVE  IInv'
<1> USE DEF IInv
<1>0. TypeOK'
  BY WorkerTypes DEF Worker
<1>1. PICK r \in Event, b \in Role :
        /\ worker.job = {r} /\ Put(r, b) /\ b \in worker.todo
        /\ worker' = [worker EXCEPT !.todo = @ \ {b}]
  <2>1. PICK r \in Event : worker.job = {r}
    BY WorkerJob DEF PutBody
  <2> DEFINE b == IF "request" \in worker.todo THEN "request" ELSE "response"
  <2>2. b \in Role /\ b \in worker.todo
    BY DEF PutBody, Role, TypeOK
  <2>3. Put(r, b) /\ worker' = [worker EXCEPT !.todo = @ \ {b}]
    BY <2>1 DEF PutBody
  <2> HIDE DEF b
  <2> QED
    BY <2>1, <2>2, <2>3
<1>2. /\ UNCHANGED <<fate, journal, batch, inflight, stream, published>>
      /\ UNCHANGED <<stage, job, accepted, logs, queue, closing, hasty>>
      /\ worker'.pc = worker.pc /\ worker'.job = worker.job /\ worker'.todo = worker.todo \ {b}
  BY <1>1 DEF PutBody, sinkVars, TypeOK
<1>3. Spool'
  BY <1>2 DEF Spool, InSpool, InQueue, closed
<1>4. /\ link'[r][b] \in {"ref", "error"}
      /\ link'[r][b] = "ref" => <<r, b>> \in object'
      /\ object \subseteq object'
      /\ \A x \in Event, c \in Role : <<x, c>> # <<r, b>> => link'[x][c] = link[x][c]
  <2>1. CASE link' = [link EXCEPT ![r][b] = "ref"] /\ object' = object \cup {<<r, b>>}
    BY <2>1 DEF TypeOK
  <2>2. CASE link' = [link EXCEPT ![r][b] = "error"] /\ UNCHANGED object
    BY <2>2 DEF TypeOK
  <2> QED
    BY <1>1, <2>1, <2>2 DEF Put
<1>5. ASSUME NEW x \in Event, NEW c \in Role, link'[x][c] = "ref"
      PROVE  <<x, c>> \in object'
  <2>1. CASE <<x, c>> = <<r, b>>
    BY <1>4, <1>5, <2>1
  <2>2. CASE <<x, c>> # <<r, b>>
    BY <1>4, <1>5, <2>2 DEF Linked
  <2> QED
    BY <2>1, <2>2
<1>6. ASSUME NEW x \in accepted', NEW c \in Role, job'[x][c] # 0, link'[x][c] = "none"
      PROVE  InQueue(x)' \/ (x \in worker'.job /\ c \in worker'.todo)
  <2>1. x \in Event /\ x \in accepted /\ (InQueue(x)' <=> InQueue(x))
    BY <1>2 DEF TypeOK, InQueue
  <2>2. <<x, c>> # <<r, b>>
    BY <1>4, <1>6
  <2>3. link[x][c] = "none"
    BY <1>4, <1>6, <2>1, <2>2
  <2>4. InQueue(x) \/ (x \in worker.job /\ c \in worker.todo)
    BY <1>2, <1>6, <2>1, <2>3 DEF Linked
  <2>5. x \in worker.job => c # b
    BY <1>1, <2>2
  <2> QED
    BY <1>2, <2>1, <2>4, <2>5
<1>7. Linked'
  BY <1>5, <1>6 DEF Linked
<1>8. Sink' /\ Orderly'
  BY <1>2, SinkFrame, OrderlyFrame
<1> QED
  BY <1>0, <1>3, <1>7, <1>8

LEMMA LogJobIInv ==
  ASSUME IInv, LogJob
  PROVE  IInv'
<1> USE DEF IInv
<1>0. TypeOK'
  BY WorkerTypes DEF Worker
<1>1. PICK r \in Event :
        /\ worker.job = {r} /\ Emit(r) /\ fate[r] = "new" /\ r \in accepted /\ ~InQueue(r)
  BY WorkerJob DEF LogJob
<1>2. /\ UNCHANGED <<sinkVars, stage, job, link, accepted, queue, closing, object, hasty>>
      /\ worker.pc = "put" /\ worker.todo = {}
      /\ worker'.pc = "wait" /\ worker'.job = {}
  BY DEF LogJob, Waiting
<1>3. Sink' /\ logs'[r] = 1 /\ \A x \in Event \ {r} : logs'[x] = logs[x]
  BY <1>1, <1>2, EmitSink
<1>4. \A x \in Event : (InQueue(x)' <=> InQueue(x)) /\ (InSpool(x)' <=> InSpool(x) /\ x # r)
  BY <1>1, <1>2 DEF InSpool, InQueue
<1>5. Spool'
  <2>1. \A x \in Event :
          /\ stage'[x] # "done" => logs'[x] = 0 /\ x \notin accepted'
          /\ stage'[x] = "done" /\ x \notin accepted' => logs'[x] = 1
          /\ x \in accepted' => logs'[x] = IF InSpool(x)' THEN 0 ELSE 1
          /\ InSpool(x)' => x \in accepted'
          /\ InQueue(x)' => x \notin worker'.job
    <3>1. /\ stage' = stage /\ accepted' = accepted /\ worker'.job = {}
          /\ r \in accepted /\ logs'[r] = 1 /\ ~InSpool(r)'
      BY <1>1, <1>2, <1>3, <1>4
    <3>2. r \in Event /\ stage[r] = "done"
      BY <3>1 DEF Spool
    <3>3. \A x \in Event \ {r} : logs'[x] = logs[x] /\ (InSpool(x)' <=> InSpool(x))
      BY <1>3, <1>4
    <3> QED
      BY <3>1, <3>2, <3>3 DEF Spool
  <2>2. /\ \A i, j \in 1..Len(queue') : queue'[i] = queue'[j] => i = j
        /\ worker'.pc = "wait" /\ worker'.job = {}
        /\ \A c \in Closer : closing'[c] # "returned"
    BY <1>2 DEF Spool
  <2> QED
    BY <2>1, <2>2 DEF Spool
<1>6. Linked'
  <2>1. \A x \in accepted : x \in Event
    BY DEF TypeOK
  <2> QED
    BY <1>2, <1>4, <2>1 DEF Linked
<1>7. Orderly'
  BY <1>2, OrderlyFrame DEF sinkVars
<1> QED
  BY <1>0, <1>3, <1>5, <1>6, <1>7

LEMMA OtherSpoolIInv ==
  ASSUME IInv, RunReturns \/ Closing
  PROVE  IInv'
<1> USE DEF IInv
<1>0. TypeOK'
  BY TypesKept DEF Next, Worker, Closing
<1>1. /\ UNCHANGED <<fate, journal, batch, inflight, stream, published>>
      /\ UNCHANGED <<stage, job, link, accepted, logs, queue, object, hasty>>
      /\ worker'.job = worker.job /\ worker'.todo = worker.todo
      /\ worker'.pc \in {worker.pc, "exit"}
  BY DEF RunReturns, Closing, CloseSpooler, CloseSpoolerReturns, httpVars, sinkVars, TypeOK
<1>2. /\ worker'.pc = "exit" => queue = <<>> /\ closed'
      /\ \A c \in Closer : closing'[c] = "returned" => worker'.pc = "exit"
      /\ worker'.pc = "put" <=> worker.pc = "put"
  <2>1. CASE RunReturns
    BY <2>1 DEF RunReturns, Spool, TypeOK, closed
  <2>2. ASSUME NEW c \in Closer, CloseSpooler(c) \/ CloseSpoolerReturns(c)
        PROVE  /\ worker' = worker /\ (closed => closed')
               /\ \A d \in Closer : closing'[d] = "returned" => worker.pc = "exit"
    BY <2>2 DEF CloseSpooler, CloseSpoolerReturns, Spool, TypeOK, closed
  <2>3. CASE Closing
    BY <2>2, <2>3 DEF Closing, Spool
  <2> QED
    BY <2>1, <2>3
<1>3. Spool'
  <2>1. \A r \in Event : (InQueue(r)' <=> InQueue(r)) /\ (InSpool(r)' <=> InSpool(r))
    BY <1>1 DEF InSpool, InQueue
  <2>2. \A i, j \in 1..Len(queue') : queue'[i] = queue'[j] => i = j
    <3>1. \A i, j \in 1..Len(queue) : queue[i] = queue[j] => i = j
      BY Zenon DEF Spool
    <3>2. queue' = queue
      BY Zenon, <1>1
    <3> QED  BY Zenon, <3>1, <3>2
  <2>3. \A r \in Event :
          /\ stage'[r] # "done" => logs'[r] = 0 /\ r \notin accepted'
          /\ stage'[r] = "done" /\ r \notin accepted' => logs'[r] = 1
          /\ r \in accepted' => logs'[r] = IF InSpool(r)' THEN 0 ELSE 1
          /\ InSpool(r)' => r \in accepted'
          /\ InQueue(r)' => r \notin worker'.job
    BY <1>1, <2>1 DEF Spool
  <2>4. /\ worker'.pc = "put" => \E r \in Event : worker'.job = {r}
        /\ worker'.pc # "put" => worker'.job = {}
    BY <1>1, <1>2 DEF Spool
  <2> QED
    BY <1>1, <1>2, <2>2, <2>3, <2>4 DEF Spool
<1>4. Linked'
  BY <1>1 DEF Linked, InQueue
<1>5. Sink'
  BY <1>1, SinkFrame
<1>6. Orderly'
  <2>1. \A c \in Closer : closing[c] = "returned" => closing'[c] = "returned"
    BY DEF RunReturns, Closing, CloseSpooler, CloseSpoolerReturns, TypeOK
  <2> QED
    BY <1>1, <2>1, OrderlyFrame
<1> QED
  BY <1>0, <1>3, <1>4, <1>5, <1>6

-----------------------------------------------------------------------------
(* The sink                                                                *)

\* Settling a set of pending events as dropped, or a stored one as written.
LEMMA SettleSink ==
  ASSUME IInv, NEW S \in SUBSET With("pending"), NEW f \in {"written", "dropped"}, Settled(S, f),
         UNCHANGED <<logs, stream>>, inflight' = inflight, batch' = {} \/ batch' = batch,
         journal' = journal,
         f = "written" => S \subseteq stream,
         published' = IF f = "written" THEN published + Cardinality(S) ELSE published
  PROVE  Sink'
<1> USE DEF IInv
<1>1. \A r \in Event : /\ fate'[r] = IF r \in S THEN f ELSE fate[r]
                       /\ r \in S => fate[r] = "pending"
  BY DEF Settled, With
<1>2. /\ \A r \in Event : fate'[r] = "new" <=> fate[r] = "new"
      /\ S \subseteq Event
  BY <1>1 DEF With
<1> DEFINE old == {e \in Event : fate[e] = "written"}
           new == {e \in Event : fate'[e] = "written"}
<1>3. old \subseteq stream /\ published = Cardinality(old)
  BY DEF Sink, WrittenIsStored, With
<1>4. new \subseteq stream /\ published' = Cardinality(new)
  <2>1. CASE f = "dropped"
    <3>1. new = old
      BY <1>1, <1>2, <2>1
    <3> QED
      BY <1>3, <2>1, <3>1
  <2>2. CASE f = "written"
    <3>1. new = old \cup S /\ old \cap S = {}
      BY <1>1, <1>2, <2>2
    <3>2. IsFiniteSet(old) /\ IsFiniteSet(S)
      BY <1>2, EventAssumption, FS_Subset
    <3> HIDE DEF old, new
    <3>3. Cardinality(old \cup S) = Cardinality(old) + Cardinality(S) - Cardinality(old \cap S)
      BY <3>2, FS_Union
    <3>4. Cardinality(old \cap S) = 0
      BY <3>1, FS_EmptySet
    <3>5. Cardinality(old) \in Nat /\ Cardinality(S) \in Nat
      BY <3>2, FS_CardinalityType
    <3>6. published' = Cardinality(new)
      BY <1>3, <2>2, <3>1, <3>3, <3>4, <3>5
    <3> QED
      BY <1>3, <2>2, <3>1, <3>6
  <2> QED
    BY <2>1, <2>2
<1>5. WrittenIsStored'
  BY <1>4 DEF WrittenIsStored, With
<1> QED
  BY <1>2, <1>5 DEF Sink

LEMMA SettlingSink ==
  ASSUME IInv, Settling \/ Server, UNCHANGED logs
  PROVE  Sink'
<1> USE DEF IInv
<1>1. batch \subseteq With("pending")
  BY DEF TypeOK, SinkTypeOK
<1>2. ASSUME NEW S \in SUBSET Event, MarshalBatch(S) \/ PublishRefused(S),
             UNCHANGED <<journal, malformed, stream>>
      PROVE  Sink'
  <2>1. S \subseteq With("pending") /\ Settled(S, "dropped") /\ UNCHANGED <<batch, inflight, published>>
    BY <1>2 DEF MarshalBatch, PublishRefused, Offered
  <2> QED
    BY <1>2, <2>1, SettleSink
<1>3. ASSUME NEW S \in SUBSET Event, PublishMsg(S), UNCHANGED <<journal, malformed, stream>>
      PROVE  Sink'
  <2>1. /\ journal \in {"open", "closing"} /\ S \subseteq With("pending")
        /\ batch' = S /\ inflight' = inflight \cup {S} /\ UNCHANGED <<fate, published>>
    BY <1>3 DEF PublishMsg, Offered
  <2>2. \A r \in Event : fate[r] = "new" => r \notin S
    BY <2>1 DEF With
  <2>3. WrittenIsStored'
    BY <1>3, <2>1 DEF Sink, WrittenIsStored, With
  <2> QED
    BY <1>3, <2>1, <2>2, <2>3 DEF Sink
<1>4. CASE Acknowledged /\ UNCHANGED <<journal, malformed, stream>>
  BY <1>1, <1>4, SettleSink DEF Acknowledged
<1>5. CASE TimedOut /\ UNCHANGED <<journal, malformed, stream>>
  BY <1>1, <1>5, SettleSink DEF TimedOut
<1>6. CASE CloseSink
  BY <1>6 DEF CloseSink, Sink, WrittenIsStored, With
<1>7. CASE Server
  <2>1. PICK S \in inflight : inflight' = inflight \ {S} /\ stream' = stream \cup S
    BY <1>7 DEF Server
  <2>2. UNCHANGED <<fate, journal, batch, published>>
    BY <1>7 DEF Server
  <2>3. WrittenIsStored'
    BY <2>1, <2>2 DEF Sink, WrittenIsStored, With
  <2>4. \A r \in Event : fate[r] = "new" => r \notin stream' /\ \A T \in inflight' : r \notin T
    BY <2>1 DEF Sink
  <2> QED
    BY <2>2, <2>3, <2>4 DEF Sink
<1> QED
  BY <1>2, <1>3, <1>4, <1>5, <1>6, <1>7 DEF Settling, Publish

LEMMA SinkIInv ==
  ASSUME IInv, \/ (Settling \/ Server) /\ UNCHANGED <<httpVars, spoolVars, hasty>>
               \/ Program
               \/ UNCHANGED vars
  PROVE  IInv'
<1> USE DEF IInv
<1>1. TypeOK'
  BY TypesKept DEF Next
<1>2. UNCHANGED <<httpVars, spoolVars>>
  BY DEF Program, vars
<1>3. Spool' /\ Linked'
  BY <1>2, SpoolFrame, LinkedFrame DEF httpVars, spoolVars
<1>4. Sink'
  <2>1. CASE Settling \/ Server
    BY <1>2, <2>1, SettlingSink DEF httpVars
  <2>2. CASE Program
    <3>1. UNCHANGED <<fate, logs, batch, inflight, stream, published>>
      BY <2>2 DEF Program, httpVars
    <3>2. batch # {} => journal' \in {"open", "closing"}
      BY <2>2 DEF Program, Open, CloseJournal, Sink
    <3>3. WrittenIsStored'
      BY <3>1 DEF Sink, WrittenIsStored, With
    <3> QED
      BY <3>1, <3>2, <3>3 DEF Sink
  <2>3. CASE UNCHANGED vars
    BY <2>3, SinkFrame DEF vars, sinkVars, httpVars
  <2> QED
    BY <2>1, <2>2, <2>3
<1>5. Orderly'
  <2>1. UNCHANGED <<stage, closing>>
    BY <1>2 DEF httpVars, spoolVars
  <2>2. CASE UNCHANGED <<journal, hasty>>
    BY <2>1, <2>2, OrderlyFrame
  <2>3. CASE CloseSink /\ UNCHANGED hasty
    <3>1. journal = "closing" /\ journal' = "closed" /\ hasty' = hasty
      BY <2>3 DEF CloseSink
    <3> QED
      BY <2>1, <3>1 DEF Orderly
  <2>4. CASE Program
    <3>1. \/ journal' = "open"
          \/ /\ journal = "open" /\ journal' = "closing"
             /\ hasty' = ~\E c \in Closer : closing[c] = "returned"
      BY <2>4 DEF Program, Open, CloseJournal
    <3> QED
      BY <2>1, <3>1 DEF Orderly
  <2> QED
    BY <2>2, <2>3, <2>4 DEF Settling, Publish, Server, vars, sinkVars
<1> QED
  BY <1>1, <1>3, <1>4, <1>5

-----------------------------------------------------------------------------
(* Theorems                                                                *)

LEMMA InitIInv == Init => IInv
<1> SUFFICES ASSUME Init PROVE IInv
  OBVIOUS
<1>1. TypeOK
  <2>1. SinkTypeOK
    BY DEF Init, SinkInit, SinkTypeOK, Fates, With
  <2>2. /\ stage \in [Event -> {"new", "base", "body", "finish", "enqueue", "log", "done"}]
        /\ sending \subseteq Event /\ accepted \subseteq Event /\ hasty \in BOOLEAN
        /\ link \in [Event -> [Role -> {"none", "ref", "error"}]]
        /\ closing \in [Closer -> {"no", "waiting", "returned"}]
        /\ object \subseteq Event \X Role
    BY DEF Init
  <2>3. calls \in [Event -> 0..MaxFinish] /\ logs \in [Event -> Nat]
    BY SpoolAssumption DEF Init
  <2>4. read \in [Event -> [Role -> Nat]]
    BY DEF Init
  <2>5. job \in [Event -> [Role -> 0..PayloadLimit]]
    BY SpoolAssumption DEF Init
  <2>6. queue \in Seq(Event) /\ Len(queue) <= QueueCapacity
    BY SpoolAssumption DEF Init
  <2>7. worker \in [pc : {"wait", "put", "exit"}, job : SUBSET Event, todo : SUBSET Role]
    BY DEF Init, Waiting
  <2> QED
    BY <2>1, <2>2, <2>3, <2>4, <2>5, <2>6, <2>7 DEF TypeOK
<1>2. Spool
  BY DEF Init, Spool, InSpool, InQueue, Waiting, closed
<1>3. Sink
  <2>1. {e \in Event : fate[e] = "written"} = {}
    BY DEF Init, SinkInit
  <2>2. WrittenIsStored
    BY <2>1, FS_EmptySet DEF Init, SinkInit, WrittenIsStored, With
  <2> QED
    BY <2>2 DEF Init, SinkInit, Sink
<1>4. Linked /\ Orderly
  BY DEF Init, SinkInit, Linked, Orderly
<1> QED
  BY <1>1, <1>2, <1>3, <1>4 DEF IInv

LEMMA NextIInv ==
  ASSUME IInv, [Next]_vars
  PROVE  IInv'
BY BodyIInv, LogCopies, EnqueueIInv, LogEventIInv, TakeJobIInv, PutBodyIInv, LogJobIInv,
   OtherSpoolIInv, SinkIInv
   DEF Next, Bodies, Logging, Worker, Closing

\* The inductive invariant of the capture, the spooler and the sink.
THEOREM CaptureInvariant == Spec => []IInv
<1>1. IInv /\ [Next]_vars => IInv'
  BY NextIInv
<1> QED
  BY <1>1, InitIInv, PTL DEF Spec

\* Type correctness; the spooler's queue never holds more than its capacity.
THEOREM TypeCorrect == Spec => []TypeOK
BY CaptureInvariant, PTL DEF IInv

\* A request emits at most one event, whichever goroutines end its body.
THEOREM OneEventAlways == Spec => []OneEvent
<1>1. IInv => OneEvent
  BY DEF IInv, Spool, OneEvent
<1> QED
  BY <1>1, CaptureInvariant, PTL

\* When PayloadSpooler.Close has returned, every capture it accepted is logged.
THEOREM FlushedOnCloseAlways == Spec => []FlushedOnClose
<1>1. IInv => FlushedOnClose
  <2> SUFFICES ASSUME IInv, NEW c \in Closer, closing[c] = "returned", NEW r \in accepted
               PROVE  logs[r] = 1
    BY DEF FlushedOnClose
  <2>1. worker.pc = "exit" /\ queue = <<>> /\ worker.job = {} /\ r \in Event
    BY DEF IInv, Spool, TypeOK
  <2>2. ~InSpool(r)
    BY <2>1 DEF InSpool, InQueue
  <2> QED
    BY <2>1, <2>2 DEF IInv, Spool
<1> QED
  BY <1>1, CaptureInvariant, PTL

\* The payload links of a stored event are backed by objects or report the failure.
THEOREM ReferenceStoredAlways == Spec => []ReferenceStored
<1>1. IInv => ReferenceStored
  <2> SUFFICES ASSUME IInv, NEW r \in stream, NEW b \in Role
               PROVE  /\ b \in Links(r) /\ link[r][b] # "error" => <<r, b>> \in object
                      /\ r \in accepted /\ job[r][b] # 0 => b \in Links(r)
    BY DEF ReferenceStored
  <2>1. r \in Event /\ fate[r] # "new"
    BY DEF IInv, TypeOK, SinkTypeOK, Sink
  <2>2. r \in accepted => ~InSpool(r)
    BY <2>1 DEF IInv, Sink, Spool
  <2>3. link[r][b] \in {"none", "ref", "error"}
    BY <2>1 DEF IInv, TypeOK
  <2> QED
    BY <2>1, <2>2, <2>3 DEF IInv, Linked, Links, InSpool
<1> QED
  BY <1>1, CaptureInvariant, PTL

\* A program that closes the spooler before the journal has every accepted capture logged
\* while the journal is open (PayloadSpooler.Close waits for its worker).
THEOREM OrderlyCloseAlways == Spec => OrderlyClose
<1> DEFINE A == \A r \in accepted : logs'[r] # logs[r] => hasty \/ journal = "open"
<1>1. ASSUME IInv, [Next]_vars, NEW r \in accepted, logs'[r] # logs[r], ~hasty, journal # "open"
      PROVE  FALSE
  <2>1. r \in Event /\ stage[r] = "done"
    BY <1>1 DEF IInv, TypeOK, Spool
  <2>2. journal \in {"closing", "closed"}
    BY <1>1, <2>1 DEF IInv, TypeOK, SinkTypeOK, Orderly
  <2>3. worker.pc = "exit"
    BY <1>1, <2>2 DEF IInv, Orderly, Spool
  <2>4. ~Worker
    BY <2>3 DEF Worker, TakeJob, PutBody, LogJob, RunReturns
  <2>5. ASSUME NEW x \in Event, Bodies(x) PROVE UNCHANGED logs
    BY <1>1, <2>5, BodyMoves DEF IInv
  <2>6. ASSUME NEW x \in Event, Logging(x) PROVE logs'[r] = logs[r]
    <3>1. CASE log(x) \/ enqueue(x)
      BY <3>1 DEF log, enqueue
    <3>2. CASE LogEvent(x)
      <4>1. x # r /\ logs' = [logs EXCEPT ![x] = @ + 1]
        BY <2>1, <3>2 DEF LogEvent, Emit
      <4> QED
        BY <1>1, <2>1, <4>1 DEF IInv, TypeOK
    <3> QED
      BY <2>6, <3>1, <3>2 DEF Logging
  <2>7. CASE Program \/ Closing \/ UNCHANGED vars \/ UNCHANGED <<httpVars, spoolVars, hasty>>
    BY <1>1, <2>7 DEF Program, Closing, CloseSpooler, CloseSpoolerReturns, vars, httpVars
  <2> QED
    BY <1>1, <2>4, <2>5, <2>6, <2>7 DEF Next, Bodies, Closing
<1>2. IInv /\ [Next]_vars => [A]_vars
  BY <1>1
<1> QED
  BY <1>2, CaptureInvariant, PTL DEF Spec, OrderlyClose

\* What the writer counts as written is in the stream, and the sink counts the same.
THEOREM WrittenIsStoredAlways == Spec => []WrittenIsStored
<1>1. IInv => WrittenIsStored
  BY DEF IInv, Sink
<1> QED
  BY <1>1, CaptureInvariant, PTL

-----------------------------------------------------------------------------
(* The promise of package trail                                            *)

LEMMA JournalQuiet ==
  ASSUME UNCHANGED <<fate, journal>>
  PROVE  UNCHANGED J!vars
BY DEF J!vars

LEMMA JournalEmits ==
  ASSUME IInv, NEW r \in Event, fate[r] = "new", Emit(r), UNCHANGED sinkVars
  PROVE  J!Next
<1>1. PICK f \in {"pending", "dropped"} :
        /\ f = "pending" => journal = "open"
        /\ fate' = [fate EXCEPT ![r] = f]
  BY EmitTypes
<1>2. journal' = journal
  BY DEF sinkVars
<1>3. CASE f = "pending"
  <2>1. J!Accept(r)
    BY <1>1, <1>2, <1>3 DEF J!Accept
  <2> QED
    BY <2>1 DEF J!Next
<1>4. CASE f = "dropped"
  <2>1. J!Drop(r)
    BY <1>1, <1>2, <1>4 DEF J!Drop
  <2> QED
    BY <2>1 DEF J!Next
<1> QED
  BY <1>3, <1>4

LEMMA JournalSettles ==
  ASSUME NEW S \in SUBSET With("pending"), NEW f \in {"written", "dropped"}, Settled(S, f),
         journal \in {"open", "closing"}, journal' = journal
  PROVE  J!Next
<1>1. J!Settle(S, f)
  BY DEF J!Settle, J!PendingEvents, Settled, With
<1>2. S \in SUBSET Event
  BY DEF With
<1> QED
  BY <1>1, <1>2 DEF J!Next

LEMMA JournalStep ==
  ASSUME IInv, [Next]_vars
  PROVE  [J!Next]_(J!vars)
<1>1. CASE Program
  <2>1. CASE Open /\ UNCHANGED fate
    <3>1. J!Open
      BY <2>1 DEF Open, J!Open
    <3> QED
      BY <3>1 DEF J!Next
  <2>2. CASE CloseJournal /\ UNCHANGED fate
    BY <2>2 DEF CloseJournal, J!vars
  <2> QED
    BY <1>1, <2>1, <2>2 DEF Program
<1>2. ASSUME NEW r \in Event, LogEvent(r) PROVE J!Next
  <2>1. fate[r] = "new" /\ Emit(r) /\ UNCHANGED sinkVars
    BY <1>2 DEF LogEvent, IInv, Spool, Sink
  <2> QED
    BY <2>1, JournalEmits
<1>3. CASE LogJob
  <2>1. PICK r \in Event : Emit(r) /\ fate[r] = "new"
    BY <1>3, WorkerJob DEF LogJob
  <2>2. UNCHANGED sinkVars
    BY <1>3 DEF LogJob
  <2> QED
    BY <2>1, <2>2, JournalEmits
<1>4. CASE Publish
  <2>1. UNCHANGED journal /\ batch \subseteq With("pending")
        /\ (batch # {} => journal \in {"open", "closing"})
    BY <1>4 DEF Publish, IInv, TypeOK, SinkTypeOK, Sink
  <2>2. ASSUME NEW S \in SUBSET Event, MarshalBatch(S) \/ PublishRefused(S) PROVE J!Next
    BY <2>1, <2>2, JournalSettles DEF MarshalBatch, PublishRefused, Offered
  <2>3. ASSUME NEW S \in SUBSET Event, PublishMsg(S) PROVE UNCHANGED J!vars
    BY <2>1, <2>3, JournalQuiet DEF PublishMsg
  <2>4. CASE Acknowledged
    BY <2>1, <2>4, JournalSettles DEF Acknowledged
  <2>5. CASE TimedOut
    BY <2>1, <2>5, JournalSettles DEF TimedOut
  <2> QED
    BY <1>4, <2>2, <2>3, <2>4, <2>5 DEF Publish
<1>5. CASE CloseSink
  <2>1. J!Shut
    BY <1>5 DEF CloseSink, J!Shut, J!PendingEvents, With
  <2> QED
    BY <2>1 DEF J!Next
<1>6. CASE Server
  BY <1>6, JournalQuiet DEF Server
<1>7. ASSUME NEW r \in Event, Bodies(r) PROVE UNCHANGED J!vars
  BY <1>7, BodyMoves, JournalQuiet DEF IInv
<1>8. ASSUME NEW r \in Event, log(r) \/ enqueue(r) PROVE UNCHANGED J!vars
  BY <1>8, JournalQuiet DEF log, enqueue, sinkVars
<1>9. CASE TakeJob \/ PutBody \/ RunReturns \/ Closing \/ UNCHANGED vars
  BY <1>9, JournalQuiet
     DEF TakeJob, PutBody, RunReturns, Closing, CloseSpooler, CloseSpoolerReturns, sinkVars, vars
<1> QED
  BY <1>1, <1>2, <1>3, <1>4, <1>5, <1>6, <1>7, <1>8, <1>9
     DEF Next, Bodies, Logging, Worker, Closing, Settling

\* With the NATS sink behind it, and with trailhttp and its spooler in front, package trail
\* keeps the promise of module Journal.
THEOREM CaptureImplementsJournal == Spec => JournalSpec
<1>1. Init => J!Init
  BY DEF Init, SinkInit, J!Init
<1>2. IInv /\ [Next]_vars => [J!Next]_(J!vars)
  BY JournalStep
<1> QED
  BY <1>1, <1>2, CaptureInvariant, PTL DEF Spec, JournalSpec, J!Spec
=============================================================================
