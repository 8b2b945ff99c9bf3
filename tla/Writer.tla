------------------------------- MODULE Writer -------------------------------
(***************************************************************************)
(* The process-global event writer of trail.go: goroutines that call Log,  *)
(* goroutines that call Init and Close, and the goroutine `run` that owns  *)
(* the batch and the sink.                                                 *)
(*                                                                         *)
(* Grain of atomicity: one step per atomic load, store or add and per      *)
(* channel operation on which another goroutine depends.  The adds on the  *)
(* statistics counters that follow each other with no synchronisation in   *)
(* between are one step: only Stats reads them, counter by counter.        *)
(* The counters are integers here.  The uint64 of stats.go wraps exactly   *)
(* when the integer would become negative (BufferedGauge excludes it).     *)
(***************************************************************************)
EXTENDS Integers, Sequences, FiniteSets, Functions

CONSTANTS
  Producers,       \* goroutines that call Log
  Callers,         \* goroutines that call Init and Close
  Writers,         \* identities of *writer values, one for each successful Init
  Configs,         \* the Config values that Init is called with
  MaxLogs,         \* bound: Log calls of each producer
  DefaultCapacity, \* defaultBufferCapacity
  DefaultBatch,    \* defaultBatchSize
  None             \* nil

ASSUME SetsAssumption ==
  /\ IsFiniteSet(Producers)
  /\ None \notin Writers \cup Callers
ASSUME BoundsAssumption ==
  /\ MaxLogs \in Nat
  /\ DefaultCapacity \in Nat \ {0}
  /\ DefaultBatch \in Nat \ {0}
ASSUME ConfigsAssumption ==
  Configs \subseteq [complete: BOOLEAN, capacity: Int, batch: Int, policy: STRING]

\* An event is known by the Log call that made it: newEventID never repeats.
Event == Producers \X (1 .. MaxLogs)

VARIABLES
  mu,            \* holder of global.mu, or None
  current,       \* global.current
  config,        \* [writer -> normalised Config]
  accepting, inflight, queue, stop, wake,   \* fields of each writer
  rpc, batch,    \* where `run` is, and its local batch
  publishErr, closeErr,
  pc, held, calls,      \* each producer: place in Log, its w, finished calls
  cpc, closing,         \* each caller: place in Close, its w
  written, dropped, buffered, publishErrors,   \* stats.go
  accepted,      \* history: the events sent on each writer's queue, in order
  offered,       \* the sink: events passed to WriteBatch, in order
  refused,       \* the sink: events of the batches it returned an error for
  report         \* what Close returned for each writer

globalVars == <<mu, current, config>>
writerVars == <<accepting, inflight, queue, stop, wake>>
runVars == <<rpc, batch, publishErr, closeErr>>
producerVars == <<pc, held, calls>>
callerVars == <<cpc, closing, report>>
counters == <<written, dropped, buffered, publishErrors>>
historyVars == <<accepted, offered, refused>>

vars == <<globalVars, writerVars, runVars, producerVars, callerVars, counters,
          historyVars>>

Policies == {"Drop", "Block"}
NormalConfig == [capacity: Nat \ {0}, batch: Nat \ {0}, policy: Policies]

-----------------------------------------------------------------------------
\* config.go

\* normalizeConfig returns an error for this Config.
Invalid(cfg) ==
  \/ ~cfg.complete        \* Service = "", Sink = nil or FlushInterval < 0
  \/ cfg.capacity < 0 \/ cfg.batch < 0
  \/ cfg.policy \notin Policies

\* Mutant: a zero size is kept.
NormalizeConfig_KeepsZero(cfg) ==
  [capacity |-> cfg.capacity, batch |-> cfg.batch, policy |-> cfg.policy]

\* Zero sizes take the defaults.
NormalizeConfig(cfg) ==
  [capacity |-> IF cfg.capacity = 0 THEN DefaultCapacity ELSE cfg.capacity,
   batch    |-> IF cfg.batch = 0 THEN DefaultBatch ELSE cfg.batch,
   policy   |-> cfg.policy]

-----------------------------------------------------------------------------
\* Initially no writer exists.

Init ==
  /\ mu = None /\ current = None
  /\ config = [w \in Writers |-> [capacity |-> 1, batch |-> 1, policy |-> "Drop"]]
  /\ accepting = [w \in Writers |-> FALSE]
  /\ inflight = [w \in Writers |-> 0]
  /\ queue = [w \in Writers |-> <<>>]
  /\ stop = [w \in Writers |-> FALSE]
  /\ wake = [w \in Writers |-> FALSE]
  /\ rpc = [w \in Writers |-> "none"]
  /\ batch = [w \in Writers |-> <<>>]
  /\ publishErr = [w \in Writers |-> FALSE]
  /\ closeErr = [w \in Writers |-> FALSE]
  /\ pc = [p \in Producers |-> "idle"]
  /\ held = [p \in Producers |-> None]
  /\ calls = [p \in Producers |-> 0]
  /\ cpc = [c \in Callers |-> "idle"]
  /\ closing = [c \in Callers |-> None]
  /\ written = 0 /\ dropped = 0 /\ buffered = 0 /\ publishErrors = 0
  /\ accepted = [w \in Writers |-> <<>>]
  /\ offered = [w \in Writers |-> <<>>]
  /\ refused = [w \in Writers |-> {}]
  /\ report = [w \in Writers |-> "none"]

-----------------------------------------------------------------------------
\* Log and enqueue.  The event that producer p is logging.
Logging(p) == <<p, calls[p] + 1>>

Goto(p, place) == pc' = [pc EXCEPT ![p] = place]

Return(p) ==
  /\ Goto(p, "idle")
  /\ calls' = [calls EXCEPT ![p] = @ + 1]
  /\ held' = [held EXCEPT ![p] = None]

CountDropped ==
  /\ dropped' = dropped + 1
  /\ UNCHANGED <<written, buffered, publishErrors>>

\* w := global.current.Load(); without a writer the event is dropped.
LogLoad(p) ==
  /\ pc[p] = "idle" /\ calls[p] < MaxLogs
  /\ \/ /\ current = None
        /\ CountDropped
        /\ Return(p)
     \/ /\ current # None
        /\ held' = [held EXCEPT ![p] = current]
        /\ Goto(p, "check")
        /\ UNCHANGED <<calls, counters>>
  /\ UNCHANGED <<globalVars, writerVars, runVars, callerVars, historyVars>>

\* !w.accepting.Load() in Log: a writer that is shutting down takes nothing.
LogCheck(p) ==
  /\ pc[p] = "check"
  /\ \/ /\ ~accepting[held[p]]
        /\ CountDropped
        /\ Return(p)
     \/ /\ accepting[held[p]]
        /\ Goto(p, "enqueue")
        /\ UNCHANGED <<held, calls, counters>>
  /\ UNCHANGED <<globalVars, writerVars, runVars, callerVars, historyVars>>

\* w.inflight.Add(1)
EnqueueEnter(p) ==
  /\ pc[p] = "enqueue"
  /\ inflight' = [inflight EXCEPT ![held[p]] = @ + 1]
  /\ Goto(p, "recheck")
  /\ UNCHANGED <<globalVars, accepting, queue, stop, wake, runVars, held, calls,
                 callerVars, counters, historyVars>>

\* Mutant: enqueue trusts the check made in Log.
EnqueueRecheck_Skipped(p) ==
  /\ pc[p] = "recheck"
  /\ Goto(p, "count")
  /\ UNCHANGED <<globalVars, writerVars, runVars, held, calls, callerVars, counters,
                 historyVars>>

\* The second accepting.Load(), now that run can see the producer in inflight.
EnqueueRecheck(p) ==
  /\ pc[p] = "recheck"
  /\ \/ /\ ~accepting[held[p]]
        /\ CountDropped
        /\ Goto(p, "leave")
     \/ /\ accepting[held[p]]
        /\ Goto(p, "count")
        /\ UNCHANGED counters
  /\ UNCHANGED <<globalVars, writerVars, runVars, held, calls, callerVars, historyVars>>

\* Mutant: the gauge is not raised before the send.
EnqueueCount_Missing(p) ==
  /\ pc[p] = "count"
  /\ Goto(p, "send")
  /\ UNCHANGED <<globalVars, writerVars, runVars, held, calls, callerVars, counters,
                 historyVars>>

\* counters.buffered.Add(1)
EnqueueCount(p) ==
  /\ pc[p] = "count"
  /\ buffered' = buffered + 1
  /\ Goto(p, "send")
  /\ UNCHANGED <<globalVars, writerVars, runVars, held, calls, callerVars, written,
                 dropped, publishErrors, historyVars>>

\* case w.queue <- event
Send(p) ==
  LET w == held[p]
  IN  /\ Len(queue[w]) < config[w].capacity
      /\ queue' = [queue EXCEPT ![w] = Append(@, Logging(p))]
      /\ accepted' = [accepted EXCEPT ![w] = Append(@, Logging(p))]
      /\ UNCHANGED counters

\* The other case takes the event back: buffered.Add(^uint64(0)), dropped.Add(1).
TakeBack ==
  /\ buffered' = buffered - 1
  /\ dropped' = dropped + 1
  /\ UNCHANGED <<written, publishErrors, queue, accepted>>

\* Mutant: under Block only a free slot ends the wait.
EnqueueSend_IgnoresStop(p) ==
  /\ pc[p] = "send"
  /\ \/ Send(p)
     \/ /\ config[held[p]].policy = "Drop"
        /\ Len(queue[held[p]]) >= config[held[p]].capacity
        /\ TakeBack
  /\ Goto(p, "leave")
  /\ UNCHANGED <<globalVars, accepting, inflight, stop, wake, runVars, held, calls,
                 callerVars, offered, refused>>

\* Mutant: Drop waits for room like Block does.
EnqueueSend_DropWaits(p) ==
  /\ pc[p] = "send"
  /\ \/ Send(p)
     \/ stop[held[p]] /\ TakeBack
  /\ Goto(p, "leave")
  /\ UNCHANGED <<globalVars, accepting, inflight, stop, wake, runVars, held, calls,
                 callerVars, offered, refused>>

\* Mutant: an event the queue refuses is taken off the gauge but not counted.
EnqueueSend_Uncounted(p) ==
  /\ pc[p] = "send"
  /\ \/ Send(p)
     \/ /\ \/ config[held[p]].policy = "Block" /\ stop[held[p]]
           \/ /\ config[held[p]].policy = "Drop"
              /\ Len(queue[held[p]]) >= config[held[p]].capacity
        /\ buffered' = buffered - 1
        /\ UNCHANGED <<written, dropped, publishErrors, queue, accepted>>
  /\ Goto(p, "leave")
  /\ UNCHANGED <<globalVars, accepting, inflight, stop, wake, runVars, held, calls,
                 callerVars, offered, refused>>

\* The select of enqueue.  Block: a free slot or <-w.stop, either one when both
\* are ready.  Drop: default is taken only when the queue is full.
EnqueueSend(p) ==
  /\ pc[p] = "send"
  /\ \/ Send(p)
     \/ /\ config[held[p]].policy = "Block"
        /\ stop[held[p]]
        /\ TakeBack
     \/ /\ config[held[p]].policy = "Drop"
        /\ Len(queue[held[p]]) >= config[held[p]].capacity
        /\ TakeBack
  /\ Goto(p, "leave")
  /\ UNCHANGED <<globalVars, accepting, inflight, stop, wake, runVars, held, calls,
                 callerVars, offered, refused>>

\* The deferred w.inflight.Add(-1)
EnqueueLeave(p) ==
  /\ pc[p] = "leave"
  /\ inflight' = [inflight EXCEPT ![held[p]] = @ - 1]
  /\ Goto(p, "wake")
  /\ UNCHANGED <<globalVars, accepting, queue, stop, wake, runVars, held, calls,
                 callerVars, counters, historyVars>>

\* Mutant: the producer leaves without signalling run.
EnqueueWake_Missing(p) ==
  /\ pc[p] = "wake"
  /\ Return(p)
  /\ UNCHANGED <<globalVars, writerVars, runVars, callerVars, counters, historyVars>>

\* The deferred non-blocking send on wake (capacity 1), and the return from Log.
EnqueueWake(p) ==
  /\ pc[p] = "wake"
  /\ wake' = [wake EXCEPT ![held[p]] = TRUE]
  /\ Return(p)
  /\ UNCHANGED <<globalVars, accepting, inflight, queue, stop, runVars, callerVars,
                 counters, historyVars>>

-----------------------------------------------------------------------------
\* run.  rpc[w] is its place: "select" is the main loop; "publish", "drainPublish"
\* and "finalPublish" are the three calls of publish, inside WriteBatch.

Run(w, from, to) == rpc[w] = from /\ rpc' = [rpc EXCEPT ![w] = to]

\* batch = append(batch, <-w.queue)
Receive(w) ==
  /\ queue[w] # <<>>
  /\ queue' = [queue EXCEPT ![w] = Tail(@)]
  /\ batch' = [batch EXCEPT ![w] = Append(@, Head(queue[w]))]

\* One event from the queue; a full batch is published.
RunReceive(w) ==
  /\ Receive(w)
  /\ Run(w, "select", IF Len(batch'[w]) = config[w].batch THEN "publish" ELSE "select")
  /\ UNCHANGED <<globalVars, accepting, inflight, stop, wake, publishErr, closeErr,
                 producerVars, callerVars, counters, historyVars>>

\* Mutant: the ticker no longer flushes a partial batch.
RunTick_Missing(w) == FALSE /\ UNCHANGED vars

\* <-ticker.C with a partial batch (with an empty one nothing happens).
RunTick(w) ==
  /\ batch[w] # <<>>
  /\ Run(w, "select", "publish")
  /\ UNCHANGED <<globalVars, writerVars, batch, publishErr, closeErr, producerVars,
                 callerVars, counters, historyVars>>

\* <-w.stop
RunStop(w) ==
  /\ stop[w]
  /\ Run(w, "select", "wait")
  /\ UNCHANGED <<globalVars, writerVars, batch, publishErr, closeErr, producerVars,
                 callerVars, counters, historyVars>>

\* Mutant: run drains without waiting for the producers.
RunWait_Skipped(w) ==
  /\ Run(w, "wait", "drain")
  /\ UNCHANGED <<globalVars, writerVars, batch, publishErr, closeErr, producerVars,
                 callerVars, counters, historyVars>>

\* waitForProducers: inflight.Load() != 0
RunWait(w) ==
  /\ Run(w, "wait", IF inflight[w] # 0 THEN "sleep" ELSE "drain")
  /\ UNCHANGED <<globalVars, writerVars, batch, publishErr, closeErr, producerVars,
                 callerVars, counters, historyVars>>

\* waitForProducers: <-w.wake
RunWake(w) ==
  /\ wake[w]
  /\ wake' = [wake EXCEPT ![w] = FALSE]
  /\ Run(w, "sleep", "wait")
  /\ UNCHANGED <<globalVars, accepting, inflight, queue, stop, batch, publishErr,
                 closeErr, producerVars, callerVars, counters, historyVars>>

\* Mutant: the drained events go ahead of the partial batch.
RunDrain_Reordered(w) ==
  /\ queue[w] # <<>>
  /\ queue' = [queue EXCEPT ![w] = Tail(@)]
  /\ batch' = [batch EXCEPT ![w] = <<Head(queue[w])>> \o @]
  /\ Run(w, "drain", IF Len(batch'[w]) = config[w].batch THEN "drainPublish" ELSE "drain")
  /\ UNCHANGED <<globalVars, accepting, inflight, stop, wake, publishErr, closeErr,
                 producerVars, callerVars, counters, historyVars>>

\* The drain loop, one event.
RunDrain(w) ==
  /\ Receive(w)
  /\ Run(w, "drain", IF Len(batch'[w]) = config[w].batch THEN "drainPublish" ELSE "drain")
  /\ UNCHANGED <<globalVars, accepting, inflight, stop, wake, publishErr, closeErr,
                 producerVars, callerVars, counters, historyVars>>

\* The default of the drain loop: publish the remainder, then close the sink.
RunDrained(w) ==
  /\ queue[w] = <<>>
  /\ Run(w, "drain", IF batch[w] # <<>> THEN "finalPublish" ELSE "close")
  /\ UNCHANGED <<globalVars, writerVars, batch, publishErr, closeErr, producerVars,
                 callerVars, counters, historyVars>>

Publishing == {"publish", "drainPublish", "finalPublish"}

AfterPublish(place) ==
  IF place = "publish" THEN "select"
  ELSE IF place = "drainPublish" THEN "drain"
  ELSE "close"

\* The batch leaves run: batch = batch[:0] and buffered.Add(^uint64(count - 1)).
BatchDone(w) ==
  /\ offered' = [offered EXCEPT ![w] = @ \o batch[w]]
  /\ batch' = [batch EXCEPT ![w] = <<>>]
  /\ buffered' = buffered - Len(batch[w])
  /\ rpc[w] \in Publishing
  /\ rpc' = [rpc EXCEPT ![w] = AfterPublish(rpc[w])]

\* publish when WriteBatch returns nil
PublishOK(w) ==
  /\ BatchDone(w)
  /\ written' = written + Len(batch[w])
  /\ UNCHANGED <<globalVars, writerVars, publishErr, closeErr, producerVars, callerVars,
                 dropped, publishErrors, accepted, refused>>

\* Mutant: the error of a batch is counted but not kept for Close.
PublishError_Forgotten(w) ==
  /\ BatchDone(w)
  /\ publishErrors' = publishErrors + 1
  /\ dropped' = dropped + Len(batch[w])
  /\ refused' = [refused EXCEPT ![w] = @ \cup Range(batch[w])]
  /\ UNCHANGED <<globalVars, writerVars, publishErr, closeErr, producerVars, callerVars,
                 written, accepted>>

\* publish when WriteBatch returns an error: the batch is discarded.
PublishError(w) ==
  /\ BatchDone(w)
  /\ publishErrors' = publishErrors + 1
  /\ dropped' = dropped + Len(batch[w])
  /\ publishErr' = [publishErr EXCEPT ![w] = TRUE]
  /\ refused' = [refused EXCEPT ![w] = @ \cup Range(batch[w])]
  /\ UNCHANGED <<globalVars, writerVars, closeErr, producerVars, callerVars, written,
                 accepted>>

\* sink.Close() returns, with or without an error, and run closes done.
RunClose(w) ==
  /\ Run(w, "close", "exit")
  /\ \E failed \in BOOLEAN : closeErr' = [closeErr EXCEPT ![w] = failed]
  /\ UNCHANGED <<globalVars, writerVars, batch, publishErr, producerVars, callerVars,
                 counters, historyVars>>

-----------------------------------------------------------------------------
\* Init and Close.

\* Init, under global.mu: ErrAlreadyInitialized and ErrInvalidConfig change
\* nothing; otherwise the fresh writer w accepts, is installed and its run starts.
InitWriter(c, cfg, w) ==
  /\ cpc[c] = "idle" /\ mu = None /\ rpc[w] = "none"
  /\ IF current # None \/ Invalid(cfg)
     THEN UNCHANGED <<config, accepting, current, rpc>>
     ELSE /\ config' = [config EXCEPT ![w] = NormalizeConfig(cfg)]
          /\ accepting' = [accepting EXCEPT ![w] = TRUE]
          /\ current' = w
          /\ rpc' = [rpc EXCEPT ![w] = "select"]
  /\ UNCHANGED <<mu, inflight, queue, stop, wake, batch, publishErr, closeErr,
                 producerVars, callerVars, counters, historyVars>>

\* Close takes global.mu and swaps the pointer (without a writer it returns nil).
CloseSwap(c) ==
  /\ cpc[c] = "idle" /\ mu = None /\ current # None
  /\ mu' = c
  /\ closing' = [closing EXCEPT ![c] = current]
  /\ current' = None
  /\ cpc' = [cpc EXCEPT ![c] = "refuse"]
  /\ UNCHANGED <<config, writerVars, runVars, producerVars, report, counters, historyVars>>

\* w.accepting.Store(false)
CloseRefuse(c) ==
  /\ cpc[c] = "refuse"
  /\ accepting' = [accepting EXCEPT ![closing[c]] = FALSE]
  /\ cpc' = [cpc EXCEPT ![c] = "stop"]
  /\ UNCHANGED <<globalVars, inflight, queue, stop, wake, runVars, producerVars, closing,
                 report, counters, historyVars>>

\* Mutant: Close gives global.mu back before run is done.
CloseStop_Unlocks(c) ==
  /\ cpc[c] = "stop"
  /\ stop' = [stop EXCEPT ![closing[c]] = TRUE]
  /\ cpc' = [cpc EXCEPT ![c] = "wait"]
  /\ mu' = None
  /\ UNCHANGED <<current, config, accepting, inflight, queue, wake, runVars,
                 producerVars, closing, report, counters, historyVars>>

\* close(w.stop)
CloseStop(c) ==
  /\ cpc[c] = "stop"
  /\ stop' = [stop EXCEPT ![closing[c]] = TRUE]
  /\ cpc' = [cpc EXCEPT ![c] = "wait"]
  /\ UNCHANGED <<globalVars, accepting, inflight, queue, wake, runVars, producerVars,
                 closing, report, counters, historyVars>>

\* <-w.done, errors.Join(w.publishErr, w.closeErr), the deferred unlock.
CloseReturn(c) ==
  LET w == closing[c]
  IN  /\ cpc[c] = "wait" /\ rpc[w] = "exit"
      /\ report' = [report EXCEPT ![w] =
                      IF publishErr[w] \/ closeErr[w] THEN "error" ELSE "nil"]
      /\ mu' = None
      /\ closing' = [closing EXCEPT ![c] = None]
      /\ cpc' = [cpc EXCEPT ![c] = "idle"]
      /\ UNCHANGED <<current, config, writerVars, runVars, producerVars, counters,
                     historyVars>>

-----------------------------------------------------------------------------
\* The specification.

\* What a producer does on its own once it is inside Log.
LogStep(p) ==
  \/ LogCheck(p) \/ EnqueueEnter(p) \/ EnqueueRecheck(p) \/ EnqueueCount(p)
  \/ EnqueueSend(p) \/ EnqueueLeave(p) \/ EnqueueWake(p)

\* What run does on its own.
RunStep(w) ==
  \/ RunReceive(w) \/ RunTick(w) \/ RunStop(w) \/ RunWait(w) \/ RunWake(w)
  \/ RunDrain(w) \/ RunDrained(w)

\* The calls in which run waits for the sink.
SinkStep(w) == PublishOK(w) \/ PublishError(w) \/ RunClose(w)

CloseStep(c) == CloseRefuse(c) \/ CloseStop(c) \/ CloseReturn(c)

\* Every call has been made and every writer is closed: nothing is left to do.
Finished ==
  /\ \A p \in Producers : pc[p] = "idle" /\ calls[p] = MaxLogs
  /\ \A w \in Writers : rpc[w] = "exit"
  /\ \A c \in Callers : cpc[c] = "idle"
  /\ UNCHANGED vars

Next ==
  \/ \E p \in Producers : LogLoad(p) \/ LogStep(p)
  \/ \E w \in Writers : RunStep(w) \/ SinkStep(w)
  \/ \E c \in Callers, cfg \in Configs, w \in Writers : InitWriter(c, cfg, w)
  \/ \E c \in Callers : CloseSwap(c) \/ CloseStep(c)
  \/ Finished

Spec == Init /\ [][Next]_vars

\* The Go scheduler runs every goroutine that can run.  A sender blocked on a full
\* channel waits in the channel's FIFO, so it is served if slots keep coming free.
ProducerFairness ==
  \A p \in Producers : WF_vars(LogStep(p)) /\ SF_vars(EnqueueSend(p))
RunFairness == \A w \in Writers : WF_vars(RunStep(w))
CloseFairness == \A c \in Callers : WF_vars(CloseStep(c))

\* WriteBatch and Close of the sink return.
SinkFairness == \A w \in Writers : WF_vars(SinkStep(w))

\* The sink may hang, everything else runs.
StuckSinkSpec == Spec /\ ProducerFairness /\ RunFairness /\ CloseFairness

FairSpec == StuckSinkSpec /\ SinkFairness

-----------------------------------------------------------------------------
\* Invariants.

ProducerPlaces ==
  {"idle", "check", "enqueue", "recheck", "count", "send", "leave", "wake"}
RunPlaces ==
  {"none", "select", "wait", "sleep", "drain", "close", "exit"} \cup Publishing

\* The values every variable of the writer ranges over.
TypeOK ==
  /\ mu \in Callers \cup {None}
  /\ current \in Writers \cup {None}
  /\ config \in [Writers -> NormalConfig]
  /\ accepting \in [Writers -> BOOLEAN]
  /\ inflight \in [Writers -> Int]
  /\ queue \in [Writers -> Seq(Event)]
  /\ stop \in [Writers -> BOOLEAN]
  /\ wake \in [Writers -> BOOLEAN]
  /\ rpc \in [Writers -> RunPlaces]
  /\ batch \in [Writers -> Seq(Event)]
  /\ publishErr \in [Writers -> BOOLEAN]
  /\ closeErr \in [Writers -> BOOLEAN]
  /\ pc \in [Producers -> ProducerPlaces]
  /\ held \in [Producers -> Writers \cup {None}]
  /\ calls \in [Producers -> 0 .. MaxLogs]
  /\ cpc \in [Callers -> {"idle", "refuse", "stop", "wait"}]
  /\ closing \in [Callers -> Writers \cup {None}]
  /\ written \in Int /\ dropped \in Int /\ buffered \in Int /\ publishErrors \in Int
  /\ accepted \in [Writers -> Seq(Event)]
  /\ offered \in [Writers -> Seq(Event)]
  /\ refused \in [Writers -> SUBSET Event]
  /\ report \in [Writers -> {"none", "nil", "error"}]

\* Once the sink of a writer is being closed, every event its queue ever took has
\* been passed to WriteBatch, and no producer is on its way to put in another:
\* the second accepting.Load() in enqueue and waitForProducers in run together
\* strand no event, however Log and Close interleave.
NothingStranded ==
  \A w \in Writers : rpc[w] \in {"close", "exit"} =>
    /\ offered[w] = accepted[w]
    /\ queue[w] = <<>> /\ batch[w] = <<>>
    /\ \A p \in Producers : held[p] = w => pc[p] \notin {"count", "send"}

\* The sink sees the events of a writer in the order in which the channel took
\* them, without a loss or a repetition before it, over all batches, flushes by the
\* ticker and the drain; so each producer's events arrive in the order it logged them.
SinkOrder ==
  \A w \in Writers :
    /\ offered[w] \o batch[w] \o queue[w] = accepted[w]
    /\ \A i, j \in DOMAIN accepted[w] :
         i < j /\ accepted[w][i][1] = accepted[w][j][1]
           => accepted[w][i][2] < accepted[w][j][2]

\* At most one run goroutine is alive, so at most one sink is in use: Init cannot
\* install a writer until Close, holding global.mu, has seen the previous run end;
\* and the installed writer is the live one and accepts.
OneLiveWriter ==
  /\ \A v, w \in Writers :
       rpc[v] \notin {"none", "exit"} /\ rpc[w] \notin {"none", "exit"} => v = w
  /\ current # None => rpc[current] \notin {"none", "exit"} /\ accepting[current]

\* The events that stats.go reports as Buffered: a producer holds it between the
\* add and the send, or it is in a queue, or in a batch.
Pending ==
  {Logging(p) : p \in {q \in Producers : pc[q] = "send"}}
    \cup UNION {Range(queue[w]) \cup Range(batch[w]) : w \in Writers}

\* The Buffered gauge counts exactly the pending events, over all writers: it never
\* wraps below zero, and is zero whenever no event is pending, in particular after
\* Close has drained the writer (README: "returns to zero after shutdown").
BufferedGauge == buffered = Cardinality(Pending)

\* The Log calls whose fate is already in the statistics.
Counted ==
  {e \in Event : \/ e[2] <= calls[e[1]]
                 \/ e[2] = calls[e[1]] + 1 /\ pc[e[1]] \in {"send", "leave", "wake"}}

\* Every Log call is counted exactly once, as written, dropped or still buffered,
\* whichever early return, refusal, shutdown or sink error ends it.
EveryLogCountedOnce == written + dropped + buffered = Cardinality(Counted)

\* Close returns nil for a writer only if every event its queue took was written.
NilMeansWritten ==
  \A w \in Writers : report[w] = "nil" => offered[w] = accepted[w] /\ refused[w] = {}

-----------------------------------------------------------------------------
\* What the writer promises its callers, as a journal of events (module Journal).

Fate(e) ==
  IF \E w \in Writers : e \in Range(offered[w]) \ refused[w] THEN "written"
  ELSE IF e \in Pending THEN "pending"
  ELSE IF e \in Counted THEN "dropped"
  ELSE "new"

J == INSTANCE Journal WITH
       fate <- [e \in Event |-> Fate(e)],
       open <- \E w \in Writers : rpc[w] \notin {"none", "exit"}

\* The writer implements the journal: an event gets one fate, a batch is written or
\* lost as a whole, and a sink is closed only when no event is pending.
JournalSpec == J!Spec

-----------------------------------------------------------------------------
\* Liveness.

\* Log returns (under Block this needs the sink to make progress or a Close).
LogReturns == \A p \in Producers : pc[p] # "idle" ~> pc[p] = "idle"

\* Close returns once the sink does: waitForProducers misses no wake-up.
CloseReturns == \A c \in Callers : cpc[c] # "idle" ~> cpc[c] = "idle"

\* An event that the queue took reaches the sink though no other event follows
\* and nobody calls Close: the ticker flushes a partial batch.
AcceptedIsOffered ==
  \A w \in Writers, e \in Event :
    e \in Range(accepted[w]) ~> e \in Range(offered[w])

\* Close releases the callers that Block holds back, even if the sink hangs.
StopReleasesProducers ==
  \A p \in Producers, w \in Writers :
    (pc[p] = "send" /\ held[p] = w /\ stop[w]) ~> pc[p] # "send"

\* Under Drop a Log call returns even if the sink hangs.
DropNeverBlocks ==
  \A p \in Producers, w \in Writers :
    (held[p] = w /\ config[w].policy = "Drop") ~> pc[p] = "idle"
=============================================================================
