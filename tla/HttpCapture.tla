---------------------------- MODULE HttpCapture ----------------------------
(***************************************************************************)
(* Package trailhttp over package trail and the NATS sink.  A wrapped      *)
(* RoundTripper counts and captures the bodies of a request and its        *)
(* response and logs one event per request; bodies are handed to the       *)
(* PayloadSpooler, whose worker stores them and logs the event itself.     *)
(* A request and its event are the same thing here.                        *)
(***************************************************************************)
EXTENDS NatsSink, Sequences, FiniteSetsExt

CONSTANTS
  Size,           \* [request -> [role -> bytes of that body]]
  Unscoped,       \* requests whose correlation may not make a valid event
  PayloadLimit,   \* MaxCaptureBytes
  Redacted,       \* sizes of what the program's redactor may return, {} without one
  QueueCapacity,
  Closer,         \* goroutines that call PayloadSpooler.Close
  MaxFinish       \* bound: ends (EOF or Close) of one response body

Role == {"request", "response"}
ASSUME BodyAssumption == Size \in [Event -> [Role -> Nat]]
ASSUME RedactorAssumption == Redacted \subseteq Nat
ASSUME SpoolAssumption == {PayloadLimit, QueueCapacity, MaxFinish} \subseteq Nat \ {0}

VARIABLES
  stage,     \* [request -> where its goroutine is]
  calls,     \* [request -> calls that asked the response body to finish]
  sending,   \* requests whose capture the base transport may still add to, before log copies it
  read,      \* [request -> [role -> capture.n]]
  job,       \* [request -> [role -> bytes of the spoolBody built for it]]
  link,      \* [request -> [role -> "none", "ref" or "error"]], the event's payload fields
  accepted,  \* requests whose job enqueue took
  logs,      \* [request -> calls of trail.Log]
  queue,     \* PayloadSpooler.jobs
  worker,    \* PayloadSpooler.run: the job it holds and the bodies still to store
  closing,   \* [goroutine -> "no", "waiting" or "returned"]
  object,    \* bodies in the payload store, as pairs of request and role
  hasty      \* history: trail.Close was called before a Close of the spooler had returned

spoolVars == <<queue, worker, closing, object>>
httpVars == <<stage, calls, sending, read, job, link, accepted, logs>>
vars == <<fate, sinkVars, httpVars, spoolVars, hasty>>

Waiting == [pc |-> "wait", job |-> {}, todo |-> {}]
closed == \E c \in Closer : closing[c] # "no"

Init ==
  /\ SinkInit
  /\ stage = [r \in Event |-> "new"]
  /\ calls = [r \in Event |-> 0]
  /\ sending = {}
  /\ read = [r \in Event |-> [b \in Role |-> 0]]
  /\ job = [r \in Event |-> [b \in Role |-> 0]]
  /\ link = [r \in Event |-> [b \in Role |-> "none"]]
  /\ accepted = {}
  /\ logs = [r \in Event |-> 0]
  /\ queue = <<>>
  /\ worker = Waiting
  /\ closing = [c \in Closer |-> "no"]
  /\ object = {}
  /\ hasty = FALSE

(***************************************************************************)
(* RoundTrip and the bodies.                                               *)
(***************************************************************************)
\* The program has called trail.Init.
RoundTrip(r) ==
  /\ journal # "none" /\ stage[r] = "new"
  /\ stage' = [stage EXCEPT ![r] = "base"]
  /\ sending' = IF Size[r]["request"] = 0 THEN sending ELSE sending \cup {r}
  /\ malformed' \in {malformed, malformed \cup (Unscoped \cap {r})}
  /\ UNCHANGED <<fate, journal, batch, inflight, stream, published, calls, read,
                 job, link, accepted, logs, spoolVars, hasty>>

\* A RoundTripper may go on reading the request body after it has returned; what
\* it reads after log has copied the capture has no effect.
ReadRequest(r) ==
  /\ r \in sending /\ stage[r] \in {"base", "body", "finish"}
  /\ \/ /\ read[r]["request"] < Size[r]["request"]
        /\ read' = [read EXCEPT ![r]["request"] = @ + 1]
        /\ UNCHANGED sending
     \/ sending' = sending \ {r} /\ UNCHANGED read
  /\ UNCHANGED <<fate, sinkVars, stage, calls, job, link, accepted, logs, spoolVars, hasty>>

\* An error, or a response without a body, is logged at once.
BaseReturns(r) ==
  /\ stage[r] = "base"
  /\ stage' \in {[stage EXCEPT ![r] = "finish"], [stage EXCEPT ![r] = "body"]}
  /\ UNCHANGED <<fate, sinkVars, calls, sending, read, job, link, accepted, logs, spoolVars, hasty>>

Once_EveryTime(r) == stage' = [stage EXCEPT ![r] = "finish"]

\* once.Do(finish): the first caller runs it, the others wait for it.
Once(r) == stage' = [stage EXCEPT ![r] = IF @ = "body" THEN "finish" ELSE @]

HasBody(r) == calls[r] > 0 \/ stage[r] = "body"

ReadResponse(r) ==
  /\ stage[r] = "body" /\ read[r]["response"] < Size[r]["response"]
  /\ read' = [read EXCEPT ![r]["response"] = @ + 1]
  /\ UNCHANGED <<fate, sinkVars, stage, calls, sending, job, link, accepted, logs, spoolVars, hasty>>

\* Read meets io.EOF (of the whole body), or the body is closed, in any order and
\* by any goroutine.
Finish(r) ==
  /\ HasBody(r) /\ calls[r] < MaxFinish
  /\ calls' = [calls EXCEPT ![r] = @ + 1]
  /\ Once(r)
  /\ UNCHANGED <<fate, sinkVars, sending, read, job, link, accepted, logs, spoolVars, hasty>>

(***************************************************************************)
(* log, in the goroutine that finished the request.                        *)
(***************************************************************************)
Kept(n) == Min({n, PayloadLimit})

\* A redactor replaces what was kept; its answer is cut at the limit once more.
spoolBody(n) ==
  IF n = 0 THEN {0} ELSE IF Redacted = {} THEN {n} ELSE {Kept(d) : d \in Redacted}

\* The capture is read without a lock: while the transport still adds to it the
\* size is that of any moment up to now.
Snapshots(r, b) ==
  IF b = "request" /\ r \in sending THEN 0..Kept(read[r][b]) ELSE {Kept(read[r][b])}

\* The spooler gets the bodies when the transport kept any of them, redacted or not.
log(r) ==
  /\ stage[r] = "finish"
  /\ \E q \in Snapshots(r, "request"), p \in Snapshots(r, "response") :
       /\ \E x \in spoolBody(q), y \in spoolBody(p) :
            job' = [job EXCEPT ![r] = [b \in Role |-> IF b = "request" THEN x ELSE y]]
       /\ stage' = [stage EXCEPT ![r] = IF {q, p} = {0} THEN "log" ELSE "enqueue"]
  /\ sending' = sending \ {r}
  /\ UNCHANGED <<fate, sinkVars, calls, read, link, accepted, logs, spoolVars, hasty>>

Accepts_RoomOnly == Len(queue) < QueueCapacity

Accepts_Unbounded == ~closed

Accepts == ~closed /\ Len(queue) < QueueCapacity

\* A refused job leaves the event with the field payload.error, and no bodies.
enqueue(r) ==
  /\ stage[r] = "enqueue"
  /\ \/ /\ Accepts
        /\ queue' = Append(queue, r)
        /\ accepted' = accepted \cup {r}
        /\ stage' = [stage EXCEPT ![r] = "done"]
     \/ /\ ~Accepts
        /\ stage' = [stage EXCEPT ![r] = "log"]
        /\ UNCHANGED <<queue, accepted>>
  /\ UNCHANGED <<fate, sinkVars, calls, sending, read, job, link, logs, worker, closing, object, hasty>>

Emit(r) == Log(r) /\ logs' = [logs EXCEPT ![r] = @ + 1]

LogEvent(r) ==
  /\ stage[r] = "log"
  /\ Emit(r)
  /\ stage' = [stage EXCEPT ![r] = "done"]
  /\ UNCHANGED <<sinkVars, calls, sending, read, job, link, accepted, spoolVars, hasty>>

(***************************************************************************)
(* PayloadSpooler.                                                         *)
(***************************************************************************)
TakeJob ==
  /\ worker.pc = "wait" /\ queue # <<>>
  /\ worker' = [pc |-> "put", job |-> {Head(queue)},
                todo |-> {b \in Role : job[Head(queue)][b] # 0}]
  /\ queue' = Tail(queue)
  /\ UNCHANGED <<fate, sinkVars, httpVars, closing, object, hasty>>

Put_RefAnyway(r, b) ==
  /\ link' = [link EXCEPT ![r][b] = "ref"]
  /\ object' \in {object, object \cup {<<r, b>>}}

Put_NoTimeout(r, b) ==
  /\ <<r, b>> \in object
  /\ link' = [link EXCEPT ![r][b] = "ref"]
  /\ UNCHANGED object

\* Put stores the body and returns its reference, or fails (PutTimeout at the
\* latest); what a failed Put leaves behind is not told apart.
Put(r, b) ==
  \/ /\ link' = [link EXCEPT ![r][b] = "ref"]
     /\ object' = object \cup {<<r, b>>}
  \/ link' = [link EXCEPT ![r][b] = "error"] /\ UNCHANGED object

PutBody ==
  /\ worker.pc = "put" /\ worker.todo # {}
  /\ LET b == IF "request" \in worker.todo THEN "request" ELSE "response" IN
       /\ \E r \in worker.job : Put(r, b)
       /\ worker' = [worker EXCEPT !.todo = @ \ {b}]
  /\ UNCHANGED <<fate, sinkVars, stage, calls, sending, read, job, accepted, logs,
                 queue, closing, hasty>>

LogJob ==
  /\ worker.pc = "put" /\ worker.todo = {}
  /\ \E r \in worker.job : Emit(r)
  /\ worker' = Waiting
  /\ UNCHANGED <<sinkVars, stage, calls, sending, read, job, link, accepted,
                 queue, closing, object, hasty>>

RunReturns ==
  /\ worker.pc = "wait" /\ queue = <<>> /\ closed
  /\ worker' = [worker EXCEPT !.pc = "exit"]
  /\ UNCHANGED <<fate, sinkVars, httpVars, queue, closing, object, hasty>>

Worker == TakeJob \/ PutBody \/ LogJob \/ RunReturns

CloseSpooler(c) ==
  /\ closing[c] = "no"
  /\ closing' = [closing EXCEPT ![c] = "waiting"]
  /\ UNCHANGED <<fate, sinkVars, httpVars, queue, worker, object, hasty>>

CloseSpoolerReturns_Early(c) ==
  /\ closing[c] = "waiting"
  /\ closing' = [closing EXCEPT ![c] = "returned"]
  /\ UNCHANGED <<fate, sinkVars, httpVars, queue, worker, object, hasty>>

\* workers.Wait() for the first caller, closeOnce for the others.
CloseSpoolerReturns(c) ==
  /\ closing[c] = "waiting" /\ worker.pc = "exit"
  /\ closing' = [closing EXCEPT ![c] = "returned"]
  /\ UNCHANGED <<fate, sinkVars, httpVars, queue, worker, object, hasty>>

(***************************************************************************)
(* The program: trail.Init, and trail.Close, which should come after the   *)
(* spooler's Close and need not.                                           *)
(***************************************************************************)
Program ==
  /\ \/ Open /\ UNCHANGED hasty
     \/ CloseJournal /\ hasty' = ~\E c \in Closer : closing[c] = "returned"
  /\ UNCHANGED <<fate, malformed, batch, inflight, stream, published, httpVars, spoolVars>>

Logging(r) == log(r) \/ enqueue(r) \/ LogEvent(r)

Next ==
  \/ Program
  \/ \E r \in Event :
       \/ RoundTrip(r) \/ ReadRequest(r) \/ BaseReturns(r) \/ ReadResponse(r)
       \/ Finish(r) \/ Logging(r)
  \/ Worker
  \/ \E c \in Closer : CloseSpooler(c) \/ CloseSpoolerReturns(c)
  \/ (Settling \/ Server) /\ UNCHANGED <<httpVars, spoolVars, hasty>>

\* Goroutines keep running, every Put and every publish has a timeout.
Spec ==
  /\ Init /\ [][Next]_vars
  /\ \A r \in Event : WF_vars(Logging(r))
  /\ WF_vars(Worker)
  /\ \A c \in Closer : WF_vars(CloseSpoolerReturns(c))
  /\ WF_vars(Settling /\ UNCHANGED <<httpVars, spoolVars, hasty>>)

(***************************************************************************)
(* Properties.                                                             *)
(***************************************************************************)
TypeOK ==
  /\ SinkTypeOK
  /\ stage \in [Event -> {"new", "base", "body", "finish", "enqueue", "log", "done"}]
  /\ calls \in [Event -> 0..MaxFinish]
  /\ sending \subseteq Event /\ accepted \subseteq Event
  /\ read \in [Event -> [Role -> Nat]]
  /\ job \in [Event -> [Role -> 0..PayloadLimit]]
  /\ link \in [Event -> [Role -> {"none", "ref", "error"}]]
  /\ logs \in [Event -> Nat]
  /\ queue \in Seq(Event) /\ Len(queue) <= QueueCapacity
  /\ worker \in [pc : {"wait", "put", "exit"}, job : SUBSET Event, todo : SUBSET Role]
  /\ closing \in [Closer -> {"no", "waiting", "returned"}]
  /\ object \subseteq Event \X Role
  /\ hasty \in BOOLEAN

\* A request emits one event, however its response body ends: EOF, Close, both,
\* by several goroutines, or no body at all, and whether the event is logged by
\* the request's goroutine or by the spooler (README.md: "emits one
\* `provider.http` event").
OneEvent == \A r \in Event : logs[r] <= 1

\* The payload links that storage.Normalize derives from an event: a role with
\* a reference or an error; the field payload.error names no role.
Links(r) == {b \in Role : link[r][b] # "none"}

\* Every payload link of an event that reached the stream is backed by an
\* object in the store or says that storing it failed, and no event is logged
\* while its bodies are still to be stored.
ReferenceStored ==
  \A r \in stream : \A b \in Role :
    /\ b \in Links(r) /\ link[r][b] # "error" => <<r, b>> \in object
    /\ r \in accepted /\ job[r][b] # 0 => b \in Links(r)

\* Close of the spooler "flushes accepted captures" (spool.go): once a caller
\* returns, the first or a later one, every accepted capture has been logged.
FlushedOnClose ==
  (\E c \in Closer : closing[c] = "returned") => \A r \in accepted : logs[r] = 1

\* "Close the spooler before `trail.Close` so accepted payload jobs can attach their
\* references" (README.md): a program that does so has every accepted job logged while the
\* writer still takes events.  (One that does not may lose them with their bodies stored.)
OrderlyClose ==
  [][\A r \in accepted : logs'[r] # logs[r] => hasty \/ journal = "open"]_vars

\* An event under construction is eventually written or dropped: nothing waits
\* for ever in log, in the spooler's queue or in the journal.
Settles == \A r \in Event : stage[r] = "finish" ~> fate[r] \in {"written", "dropped"}

\* PayloadSpooler.Close returns to each of its callers.
CloseReturns == \A c \in Closer : closing[c] = "waiting" ~> closing[c] = "returned"
=============================================================================
