# Trail in TLA+

A verification development for Trail: an in-process event writer, a JetStream
pipeline that carries its batches into PostgreSQL or ClickHouse, and the tools
that archive, restore, expire and query what was stored. The modules here
are translated from the Go sources; each names the functions it models, and
`PROJECT.json` maps every definition to its lines.

Every part with state shared between goroutines, processes or statements is
modelled, the generator of test data excepted: the event writer, the NATS sink, the HTTP capture and its spooler, the
ingestor, retention over PostgreSQL and over ClickHouse with archives and
restores, and the paged listings of the explorer. The last section says what is
left out and why.

## The system

    Log -> writer -> Sink (nats) -> JetStream -> ingestor -> store -> explorer API
                                        |            \-> dead-letter stream
    trailhttp -> spooler -> payload store                store -> retention -> archive
                                                         payload store <- retention

| Part | Source | State | Operations that change it | Interacts with |
|------|--------|-------|---------------------------|----------------|
| event writer | `trail.go`, `config.go`, `stats.go`, `sink.go` | global pointer and mutex, per writer queue, `accepting`, `inflight`, `stop`, `wake`, batch, errors, four counters | `Init`, `Log`/`enqueue`, `Close`, `run`, `publish` | the sink |
| NATS sink | `sink/nats` | connection, closed flag, pending publishes | `WriteBatch`, `PublishEnvelope`, `Close` | writer, JetStream |
| memory, stdout sinks | `sink/memory`, `sink/stdout` | a slice, an output | `WriteBatch`, `Close` | writer |
| wire format | `wire` | none | encode, decode, `Validate` | NATS sink, ingestor |
| ingestor | `ingestor`, `cmd/trail-ingestor` | the current group and its sums, counters | `Run`, `write`, `reject`, `deadLetter` | JetStream consumer, store, dead-letter stream |
| normalisation | `storage/normalize.go` | none | `Normalize` | ingestor, retention |
| stores | `storage/postgres`, `storage/clickhouse` | event tables, summaries, payload links, archives, candidates | `WriteBatches`, the retention operations, queries | ingestor, retention, explorer |
| retention | `retention`, `cmd/trail-retention` | nothing of its own: the store's tables | `Run`, `collectPayloads`, `processCandidate` | store, archive, payload stores |
| archive | `archive` | bundles in an object store | `Write`, `Restore`, `ReadEvents` | retention, explorer |
| payload stores | `payload/filesystem`, `payload/s3` | content-addressed objects | `Put`, `Delete` | spooler, retention, archive |
| HTTP capture | `trailhttp` | capture buffers, spool queue | `RoundTrip`, body `Read`/`Close`, `enqueue`, `run` | writer, payload store |
| generator | `generator`, `cmd/trail-generator` | worker pool, first error | `Generate` | NATS sink |
| explorer API | `explorerapi`, `cmd/trail-explorer-api` | none (restore goes to the store) | HTTP handlers | store, archive |
| identifiers, fields, levels | `id.go`, `field.go`, `level.go`, `convention` | one atomic sequence | `nextID` | writer |

What is hard in it, and hard to test, is listed in `PROJECT.json` under
`hazards`, each at the line where it bites and with the properties that would
catch it. In short: Log against Close and Init without a common lock;
a gauge of unsigned integers that several goroutines move; a sink that fails or
hangs; at-least-once delivery with lost acks, late engines and crashes; two
limits on deliveries that have to agree; archive, record and delete without a
common transaction; payload objects that are collected while they are being
referenced again.

## Modules

| Module | What it is |
|--------|------------|
| `Writer` | the event writer, one step per atomic or channel operation |
| `Journal` | what package trail promises: each event has one fate, a sink is closed after its last pending event |
| `WriterProofs`, `WriterStatsProofs`, `WriterJournalProofs` | theorems about `Writer`: shutdown and order; the error of `Close` and the counters; `Writer` implements `Journal` |
| `NatsSink` | the writer's output side with the NATS sink in place of an abstract one |
| `HttpCapture` | `trailhttp` and the payload spooler, over `NatsSink` |
| `HttpCaptureProofs` | theorems about `HttpCapture` and `NatsSink` |
| `Ingestor` | engines on one JetStream consumer, with the faults of everything around them |
| `IngestorProofs` | theorems about `Ingestor` |
| `Vault` | what retention promises: an event leaves the live store only when an archive restores it |
| `Retention` | the retention command over PostgreSQL, archives, payload collection, restore, and the producers and ingestor beside it |
| `RetentionProofs` | theorems about `Retention` |
| `ClickHouse` | inserts, materialized views, merges, retention and listing in ClickHouse, statement by statement |
| `ClickHouseProofs` | theorems about `ClickHouse` |
| `Explorer` | a client paging through a listing while rows come and go |
| `ExplorerProofs` | theorems about `Explorer` |
| `MC*`, `*.cfg` | instances of these modules for TLC |

A definition named after the one that follows it with a suffix (`Seal_Early`,
`EnqueueRecheck_Skipped`) is a deliberate fault. None is part of a specification:
each is a small change of the definition that follows, used to see that a
property notices it (`mutants` in `PROJECT.json`).

### Writer

Processes: producers that call `Log`, callers of `Init` and `Close`, and one
`run` goroutine for each writer. `pc`, `cpc` and `rpc` are their places.

* `Log` is `LogLoad` (the pointer), `LogCheck` (the first look at `accepting`),
  then `enqueue`: `EnqueueEnter` (`inflight.Add(1)`), `EnqueueRecheck`,
  `EnqueueCount`, `EnqueueSend` (the `select` of either policy), `EnqueueLeave`
  and `EnqueueWake` (the deferred function). A producer keeps the pointer it
  loaded in `held`, across a `Close` and another `Init`.
* `run` is `RunReceive`, `RunTick`, `RunStop`, then `RunWait`/`RunWake`
  (`waitForProducers`), `RunDrain`, `RunDrained` and `RunClose`; `PublishOK` and
  `PublishError` end a `WriteBatch`.
* `Init` is one step under the mutex. `Close` is `CloseSwap`, `CloseRefuse`,
  `CloseStop`, `CloseReturn`, and holds the mutex throughout.

An event is the pair of its producer and the number of its `Log` call; kind,
options and fields do not matter to the writer. The counters of `stats.go` are
integers: `BufferedGauge` shows that the unsigned gauge never wraps. Adds on
several counters with nothing in between are one step. `accepted`, `offered`,
`refused` and `report` record what the queue took, what the sink was given, what
it refused and what `Close` returned.

### Ingestor

Engines (`epc` is the place of each in `Run`, `write`, `reject` or `deadLetter`)
fetch from one durable consumer. `NextMessage` is an iteration of the loop over
the fetched messages: it dead-letters a refused message, writes the group first
if the message does not fit, or appends it. `WriteOK`/`WriteError` end
`WriteBatches`; `DoubleAck` and `Reject` are iterations of the two loops over
the group; `DeadPublishOK`, `DeadPublishError`, `DeadAck` are `deadLetter`, which
returns (`Back`) to `decode` or to `reject`.

JetStream, the store and the dead-letter stream are external, modelled from how
the code uses them. The consumer hands out a message (`Deliver`) at most
`MaxDeliver` times and at most `MaxAckPending` at a time, and takes it back on a
nak or when `AckWait` runs out (`AckWaitExpires`). `stored` is a set:
`WriteBatches` stores a message's events once however often it is given them
(PostgreSQL by `ON CONFLICT`, ClickHouse by its replacing key). `Faults` says what
may go wrong: a write that fails after storing any part of the group, a
dead-letter publish that fails with or without effect, lost acks and naks,
`AckWait` running out under a slow engine, and crashes with a restart.
A message is its number of events, its length and whether it can be decoded.

### NatsSink and HttpCapture

`NatsSink` has the fate of each event, as `Journal` defines it, in place of the
writer's queues: `Log` makes an event pending or drops it, and one `WriteBatch`
settles a set of pending events. `MarshalBatch` refuses a whole batch for one
malformed event; `PublishRefused` stands for the early returns of `publish`;
`PublishMsg` sends the message, `Acknowledged` or `TimedOut` ends the wait, and
`Server` stores a message at any time after it was sent, also after the timeout.
A lost message stays in flight for ever. `CloseSink` follows the drain.

`HttpCapture` adds the requests. `RoundTrip`, `ReadRequest`, `BaseReturns` and
`ReadResponse` are the transport at work; `Finish` is an EOF or a `Close` of the
response body, as often as `MaxFinish` allows and by any goroutine, behind the
`sync.Once` of the code. `log`, `enqueue` and `LogEvent` run in that goroutine.
`TakeJob`, `PutBody`, `LogJob` and `RunReturns` are the spooler's worker;
`CloseSpooler` and `CloseSpoolerReturns` are `PayloadSpooler.Close`, which may have
several callers; `Program` is the main program, which opens the writer and may close
it at any time. The repository's `README.md` (lines 251-255) asks for the spooler to be
closed first; `hasty` remembers that the program did not wait for a `Close` of the spooler
to return, and `OrderlyClose` speaks of the programs that did.

`log` reads the capture of the request body without a lock, while the base
transport may still be adding to it (`net/http` allows that after `RoundTrip` has
returned). That data race is a nondeterministic choice among the states the
capture has gone through (`Snapshots`). A body is its size: `spoolBody` passes it on, or
has a redactor replace it by data of a size in `Redacted`, which is cut to the limit
again. The truncation flag is left out: no property tells it apart, and of a raced
capture it says nothing. Torn slice headers and a `Close` concurrent with a `Read` of the
same body are outside the model. What a failed `Put` leaves in the store is not told
apart.

### Retention

An engine of `Engine` is one run of the command; several may be at work. `Start`,
`Scan`, `Load`, `Copy` (one payload), `Seal` (the manifest), `RecordArchive` and
`DeleteRetentionEvents` (one transaction each) are the pages of events; `List`,
`Refs`, `CollectReferenced`, `CollectObject`, `Completed`, `CollectFails` and
`EndPage` are the collection of payloads with its workers. `Abort` ends a run
anywhere: an error, a cancelled context, the end of `MaxRuntime` or a crash.
Beside them `Capture` is a producer, `Ingest` the ingestor with redelivery, `Tick`
the clock, and `RestorePayloads`, `RestoreEvents`, `RestoreAbort` one call of
`archive.Restore`. The policies are the operators `eventExpiry` and
`payloadExpiry`: class, then the first matching policy, then the default, and for
ever under an unknown class.

An archive is the rows in it (its ID is their hash), a payload is its key (the
key is the hash of the content), and a row is the delivery it was written from.
A restore puts back the payloads of its chunk, or as many as it manages before
the first failure, in one step: the keys are independent of each other, so the
order of other steps among the puts makes no difference.

### ClickHouse

`copies` counts the rows of an event in `trail_events`, `derived` holds the events
each of the three derived tables accounts for, `tasks` the staged rebuilds.
`Insert`, `Views` and `Merge` are the server: a row is there before its views have
run, and copies are merged at any time. `Start`, `Scan`, `RecordArchive`,
`RecordEvents`, `StageRebuilds`, `DeleteEvents`, `ReadTasks`, `Clear`, `Fill` and
`DeleteTasks` are the command, a statement each. `Crash` ends it between any two
statements, and a mutation it has submitted may go on without it
(`LateMutation`), over the rows present when it was submitted.

All events have a flow and an execution, the three views of an insert run
together, and mutations are applied in the order of their submission. `MaxEvents`,
the bundle and the staging of payload candidates are in module `Retention`.
`StageRebuilds` begins with the check of the archive mapping (`Covered`), and the run ends
there if the mapping does not cover the batch.
An event whose last row a late mutation takes when its rebuild is under way or done, or
whose row goes before its views have run, is `torn`, until it is inserted again: the
summaries may go on counting it, because nothing rebuilds them before another event of
its flow or execution expires. `Stale` leaves it out.

### Explorer

One client: `Begin` chooses a listing (events, flows, executions, entities), a
filter, an order and a page size, `NextPage` asks for the next page behind the
cursor. `Ingest` and `Delete` change the rows between pages. An item of a grouped
listing has the time of its first event and a cursor ID that need not be unique
(an entity of two scopes). A status filter on flows or executions has a `HAVING`
of its own and the cursor adds a second one, so the second page of such a listing
fails, in the code and in the model. The client returns the `next_cursor` it was given.
Other cursors are not modelled: `decodeCursor` refuses what is not base64 or JSON, but a
cursor with an ID that cannot be parsed is accepted; `applyCursor` then ignores it and
starts over, and `paginateGrouped` takes its ID to be zero.

## Runs

| Run | Instance | Properties | What it shows |
|-----|----------|------------|---------------|
| `writer_safety` | 2 producers with 2 calls each, 2 callers of `Init`/`Close`, 2 writers, six configurations (a zero size, either policy, four invalid ones) | `TypeOK`, `NothingStranded`, `SinkOrder`, `OneLiveWriter`, `BufferedGauge`, `EveryLogCountedOnce`, `NilMeansWritten` | no interleaving of `Log`, `Init` and `Close` strands, repeats, reorders or miscounts an event; `Close` reports every lost batch |
| `writer_live` | 2 producers with 1 call, 1 caller, 2 writers under `Block` | `LogReturns`, `CloseReturns`, `AcceptedIsOffered`, `JournalSpec` | nothing hangs while the sink answers, a partial batch is flushed, and `Writer` implements `Journal` |
| `writer_stuck_sink` | 2 producers with 2 calls, 1 caller, 1 writer, either policy | `StopReleasesProducers`, `DropNeverBlocks` | what still terminates when the sink never answers |
| `ingestor_safety` | 2 engines, 3 messages (one refused), all faults | `TypeOK`, `AckedIsSafe`, `DeadOnlyWhenDue`, `GroupWithinLimits` | nothing is acknowledged before it is safe nor dead-lettered before it is due, and groups respect the limits |
| `ingestor_faults` | 1 engine, 3 messages, all faults | `Settles` | every message is settled, whatever fails how often |
| `ingestor_store_down` | 2 engines, 3 messages, the store fails at will | `NothingAbandoned` | `reject` gives up in time: every message is stored or dead-lettered |
| `http_capture` | 2 requests (one body over the limit, one within it), a queue of 1 job, 1 closer | `TypeOK`, `OneEvent`, `ReferenceStored`, `FlushedOnClose`, `OrderlyClose`, `WrittenIsStored`, `JournalSpec`, `Settles`, `CloseReturns` | one event per request, links that hold, nothing accepted logged after the writer was closed in the documented order, and everything settled although stores fail, queues fill and acknowledgements come late |
| `retention_safety` | 2 engines, 2 events that share a payload, restore, redelivery, crashes | `TypeOK`, `ContentSurvives`, `CandidateBacked`, `VaultSpec` | no event leaves without an archive that restores it, and the collector never destroys the last copy of a payload |
| `retention_collector` | 1 engine, the same events | `DeletedUnreferenced` (violated) | the reference check of a page may be out of date when its objects are deleted |
| `clickhouse_retention` | 2 expiring events of 2 flows and 2 executions, at most 2 copies of a row, 2 crashes, batches and reconciliations of 1 | `TypeOK`, `StaleIsStaged`, `VaultSpec`, `Converges` | rows go only after their archive; a summary that is out of date, torn events aside, is staged for a rebuild, and rebuilt: of a flow always, of an execution once deletions pause |
| `clickhouse_listing` | the same instance | `ListedOnce` (violated) | before a merge, a listing shows a redelivered event twice |
| `explorer_paging` | 4 events, two at the same time, all four listings, pages of 1 and 2, either order | `TypeOK`, `NothingSkipped`, `InOrder`, `CursorAdvances` | a walk never turns back nor stands still, and lists whatever stayed put |

All of them pass but the two that are expected to find a violation (see "What
the models say about the code"). `JournalSpec` of `Writer` maps `fate` from the
queues, batches and counters and `open` from the place of `run`; that of
`NatsSink` keeps `fate` and maps `open` from the state of the writer. `VaultSpec`
maps `live` to the events with a row and `safe` to those of a catalogued archive
(in `Retention`, one whose manifest and payload copies are all there).

**Bounds.** Writer: a queue of capacity 1 and batches of 2 make the queue fill, a
batch complete and a partial batch remain for the ticker and for the drain; two
producers contend for the slot; two writers let a producer hold a pointer across
`Close` and another `Init`. `Writers` bounds the number of successful `Init`s
and `MaxLogs` the calls of a producer; when all are used up and closed, `Finished`
stutters, so that deadlock is checked everywhere else. Ingestor: two
deliveries are one retry and one last delivery; `MaxMessages = 2` splits three
messages over two fetches; the sizes are such that the event limit and the byte
limit each split a group. `MaxAckPending` is twice `MaxMessages`, as the command
configures it, and `MaxDeliver = MaxDeliveries`, likewise.

HTTP capture: with two requests and a queue of one, a job is refused while another
one is at the worker; `MaxFinish = 2` lets an EOF and a `Close` race. A program that
has closed everything stops, so deadlock is not checked there. Retention: one event
has expired from the start and the other a tick later (`MaxTime = 1`), so a
candidate can be staged, become due, and be referenced again by the other event's
arrival. `Deliveries = {1}` means that all deliveries of an event leave the same
row; with two the instance has more than twelve million states. The theorems do
not depend on it. ClickHouse: both events expire, one in each batch, and a batch stages
two rebuilds while a reconciliation takes one, so that the rebuild of an execution can be
passed over for ever; two copies are one redelivery, and two crashes a crash of the run
that repairs the first one.
Explorer: two events at the same time need the ID as a tie-break, one entity ID
appears in two scopes. Symmetry is used in safety runs only.

**Fairness.** Writer: every goroutine that can run does (weak fairness); a
producer blocked on a full channel is served if slots keep coming free, because
the Go runtime queues blocked senders in order (strong fairness of
`EnqueueSend`); the sink's calls return, in `writer_live` only. `writer_stuck_sink`
assumes nothing of the sink. Nothing is assumed of `Init` and `Close` being called.
Ingestor: an engine keeps running, because each of its waits has a timeout; the
consumer notices `AckWait`, and serves a waiting message to one of the
repeated fetches in the end (strong fairness of `Deliver`, since a fetch may end
just before). HTTP capture: the goroutine in `log`, the spooler's worker, a waiting
`Close` and the publishing writer keep running, because every `Put` and every
`publish` has a timeout; nothing is assumed of the server, the transport, the
reader of a body or the program. ClickHouse: the command is scheduled again and
again, and the server finishes its inserts and mutations; merges are not assumed.
That events stop being deleted is a premise of `Converges`, for executions only, and not
a fairness assumption; for flows it is that a batch has no more events than a
reconciliation takes rebuilds (1000 and 1000 by default, but `EventBatchSize` may be set
to 100000). Nothing is assumed of the explorer's client.

## Theorems

Proved with TLAPS for every value of the constants, under the assumptions named
in the modules: finite sets of producers and of events, finitely many payload links of
an event, a `None` that is not one of the other values, positive limits and sizes,
times and cursor IDs that are integers (the proofs use only that they are ordered),
bounds of the models that are natural numbers, flow and execution identities that never
coincide, and a retention configuration as `New` and `validate` leave it: positive TTLs
of policies and classes, default TTLs that are not negative.

| Theorem | Statement |
|---------|-----------|
| `WriterProofs!TypeCorrect` | `Spec => []TypeOK` |
| `WriterProofs!CloseStrandsNothing` | `Spec => []NothingStranded` |
| `WriterProofs!NeverTwoWriters` | `Spec => []OneLiveWriter` |
| `WriterProofs!SinkSeesLogOrder` | `Spec => []SinkOrder` |
| `WriterStatsProofs!NilIsHonest` | `Spec => []NilMeansWritten` |
| `WriterStatsProofs!LogsCountedOnce` | `Spec => []EveryLogCountedOnce` |
| `WriterStatsProofs!GaugeIsExact` | `Spec => []BufferedGauge` |
| `WriterJournalProofs!WriterImplementsJournal` | `Spec => JournalSpec` |
| `IngestorProofs!IngestorTypes` | `Spec => []TypeOK` |
| `IngestorProofs!AckOnlyWhenSafe` | `Spec => []AckedIsSafe` |
| `IngestorProofs!RetriesBeforeBurying` | `Spec => []DeadOnlyWhenDue` |
| `IngestorProofs!GroupsWithinLimits` | `Spec => []GroupWithinLimits` |
| `HttpCaptureProofs!TypeCorrect` | `Spec => []TypeOK` |
| `HttpCaptureProofs!OneEventAlways` | `Spec => []OneEvent` |
| `HttpCaptureProofs!FlushedOnCloseAlways` | `Spec => []FlushedOnClose` |
| `HttpCaptureProofs!ReferenceStoredAlways` | `Spec => []ReferenceStored` |
| `HttpCaptureProofs!OrderlyCloseAlways` | `Spec => OrderlyClose` |
| `HttpCaptureProofs!WrittenIsStoredAlways` | `Spec => []WrittenIsStored` |
| `HttpCaptureProofs!CaptureImplementsJournal` | `Spec => JournalSpec` |
| `RetentionProofs!ContentSurvivesAlways` | `Spec => []ContentSurvives` |
| `RetentionProofs!CandidateBackedAlways` | `Spec => []CandidateBacked` |
| `RetentionProofs!RetentionImplementsVault` | `Spec => VaultSpec` |
| `RetentionProofs!UnknownClassStays` | `Spec => UnknownClassKept` |
| `RetentionProofs!EventsAreNeverLost` | `Spec => NothingLost` |
| `RetentionProofs!RetentionTypes` | `Spec => []TypeOK` |
| `ClickHouseProofs!StaleIsStagedAlways` | `Spec => []StaleIsStaged` |
| `ClickHouseProofs!ClickHouseImplementsVault` | `Spec => VaultSpec` |
| `ClickHouseProofs!EventsAreNeverLost` | `Spec => NothingLost` |
| `ClickHouseProofs!ClickHouseTypes` | `Spec => []TypeOK` |
| `ExplorerProofs!TypesOK` | `Spec => []TypeOK` |
| `ExplorerProofs!NothingIsSkipped` | `Spec => []NothingSkipped` |
| `ExplorerProofs!WalkInOrder` | `Spec => InOrder` |
| `ExplorerProofs!CursorMovesOn` | `Spec => CursorAdvances` |

**Writer.** None of the properties is inductive. `NothingStranded` rests on the
shutdown handshake, which `IInv` spells out:

1. `InflightCounts`: `inflight` is the number of producers between the first and
   the last line of `enqueue`, so reading 0 means that none is there;
2. `StopOrder`: `accepting` is withdrawn before `stop` is closed, and `run` waits
   only after it saw `stop`; so a producer that enters later finds
   `accepting` false and never reaches the send;
3. `DrainIsFinal`: hence from the drain on no producer is about to send, and the
   queue and the batch that `run` leaves behind are empty;
4. `Flow`: offered, then the batch, then the queue, is what the channel took.

`LiveIsKnown` (a live `run` belongs to the installed writer or to the one that
the holder of the mutex is closing) gives `OneLiveWriter`; `Numbered` (a queue
holds only calls already made) gives the order of each producer's events.
TLC checked `IInv` on the instance of `writer_safety` before it was proved.

What the writer reports needs more. `Reported`: the error of a refused batch is
kept until `Close` has read it, and a writer whose `Close` has returned publishes
no more; with `NothingStranded` this is `NilMeansWritten`. `Told` is the number
of a producer's calls that the counters account for, the one it is in included once
it has counted it. `Apart` (no event is at two places: not twice
in a queue, not in a queue and a batch, not in two writers) turns the gauge, which
is a sum of lengths, into the number of pending events. The refinement of `Journal`
adds `Started`: whoever is inside `Log` holds a writer that `Init` started, a writer
not started has nothing, and only what was offered can be refused. Each step then
maps to one step of `Journal` or to a stutter; the one that decides is `run` closing
the sink, which needs the drain to be final.

**Ingestor.** `AckedIsSafe` needs to know that an engine about to acknowledge has
stored or dead-lettered the message: `AtWork` says so for each place of an
engine. `DeadOnlyWhenDue` also needs `Counts`: a delivery in an engine carries a
number that the consumer has reached. The proof separates what a step does
outside the engines (`Outside`: counters grow, only an engine at an
acknowledging place acknowledges) from what it does inside one (`Within`: a
delivery that appears there was there before or has just been counted).
`MaxDeliver` and `MaxDeliveries` are unrelated in the theorems. `GroupWithinLimits`
needs `Sums`: from the fetch to the write, `events` and `bytes` are what the group adds
up to. That a sum over a group grows by what a message counts when it is appended
(`TotalAppend`) is an induction. The induction theorems of the library take an
operator and cannot be used; the least-number principle (`LeastNatural`, from the
well-foundedness of `<`) says the same of sets, and a least counterexample is
contradicted by its predecessor.

**HTTP capture.** `Spool` says where a request is: not finished, or logged by its own
goroutine, or accepted and in exactly one place of the spooler, or accepted and
logged; `OneEvent` and `FlushedOnClose` follow, the latter because the worker exits
only with an empty queue and after `Close`. `Sink` keeps an event that was not logged
out of every message, and the statistics equal to what was acknowledged. `Linked`
says that a body of an accepted request is linked or still on the list of the worker
that holds it. `Orderly` says that a writer closed without haste was closed after a
`Close` of the spooler had returned, hence with `FlushedOnClose` after the last accepted
capture was logged; `OrderlyClose` follows.

**Retention.** `Holds` states, for the place of every engine, what its record is worth
now that other engines have moved: what it is about to seal is copied or still on
its list, what it records is sealed, what it deletes is catalogued, what it collects
has a copy. With `BundlesFull` (a manifest is written after every payload of its
events) and `catalog \subseteq bundle`, both `CandidateBacked` and `ContentSurvives`
become inductive: nothing removes a copy, a bundle or a catalogue row. Hence
also `Vault`, and from `Vault` that no event is lost (`NothingLost`): the only step of
`Vault` that shrinks the live store takes events that are safe. `UnknownClassKept`, a
property of steps, follows from the part of `Holds` that keeps such events out of every
batch. The types (`Typed`, which adds that the objects being deleted are finitely many)
are preserved only beside `IInv`: a page of events fits what `MaxEvents` leaves
(`PageFits`); a release time is a number because an event has finitely many links
(`MaxOfFinite`, `ReleasesType`); and a page of candidates is finite because every
candidate is a payload of one of finitely many events (`FiniteDue`).

**ClickHouse.** `Catalogued` covers the batch of the command and what a mutation
that outlived it may still delete. `StaleIsStaged` needs `Rebuilding`: the tasks of
the rebuild at work stay staged until its end, the table just cleared holds only
live events, and the tables already filled agree with `trail_events`, so that
deleting the tasks last leaves nothing stale behind. A mutation that outlives its command
makes a table stale only where a rebuild is staged and not under way; any other row it
takes is `torn` (`ServerKeeps`). For the types, `Typed` adds that a
mutation that outlived its command deletes expired rows only, which is what keeps
`torn` among them; `Limited` carries `EventBatchSize` and `TaskLimit` through the
places of the command.

**Explorer.** `NothingSkipped` speaks of the last page; `Covered` says it of the pages
before: an item that stays where it is has been listed or lies beyond the cursor.
`Behind` is its counterpart, that everything listed is at the cursor or before it, and
gives `InOrder`. Three lemmas about a page carry them: it holds only items beyond the
cursor (`PageStep`), none of them is beyond the next cursor (`PageBehind`), and an item
that it leaves out is, if no other has its time and its ID (`PageCovers`). A group's key is the time
of its first event, whose existence is again the least-number principle
(`EarliestEvent`). `CursorAdvances` is not the end of a walk: in ascending order events
may arrive ahead of the cursor for ever. TLC finds `Behind` and `Covered` to hold on the
instance of `explorer_paging`.

**Only model-checked.** Everything under fairness, which is outside the prover's
reach: `LogReturns`, `CloseReturns`, `AcceptedIsOffered`, `StopReleasesProducers`,
`DropNeverBlocks`, `Settles`, `NothingAbandoned`, `Converges`.
Every invariant, action property and refinement that a passing run checks is also a
theorem. The two statements that the code violates (`DeletedUnreferenced`,
`ListedOnce`) are shown false by TLC.

## What the models say about the code

Two statements of the repository are violated by what the code does:

* `RETENTION.md:124-126`: "A candidate must ... have no remaining reference in live
  events before the object is deleted." `collectPayloads` asks for the references of a
  whole page once (`retention/retention.go:445`) and deletes its objects later
  (`:521`). An event ingested or restored in between refers to an object that is then
  deleted (`retention_collector`). The content is not lost: `ContentSurvives` shows that
  the archive store has a copy.
* `storage/clickhouse/query.go:236-237`: "FINAL makes event detail/list semantics
  idempotent ...". `listCHEvents` (`:287`) and `GetEvent` select without `FINAL`, and
  a listing shows a redelivered event twice until the parts are merged
  (`clickhouse_listing`).

A third is broken in two cases, which `StaleIsStaged` and `Converges` leave out by name.
`RETENTION.md:114-117` says "Each mutation also rebuilds only the affected flow, execution,
and terminal summary keys so Explorer results remain correct":

* a delete that goes on in the server after its command died, and ends when the next run
  is rebuilding or has rebuilt the summaries, or that comes between an insert and its
  views, leaves the deleted event in the summaries, with nothing staged (`torn`);
* a batch of 1000 events stages up to 2000 rebuilds, `ReconcileRetention` takes 1000 of
  them (`storage/clickhouse/retention.go:344`), those of flows first. While events go on
  expiring, the summary of an execution may stay wrong for ever: TLC finds a
  counterexample to the second part of `Converges` without its premise.

Outcomes that the models make visible and that no document rules out:

* a crash, or a dead-letter publish that fails, on the last delivery leaves the
  message without a further delivery, neither stored nor dead-lettered (`Settles`
  counts it as exhausted);
* a consumer that already exists keeps its own `MaxDeliver`: if that is below the
  engine's `MaxDeliveries`, `reject` never gives up and no failed write reaches the
  dead-letter stream;
* a batch of events with a payload that cannot be opened stops every run of the
  retention command at the same place, and `MaxEvents` kept events at the front are
  scanned again by every run;
* the second page of a listing by status fails in PostgreSQL.

## Not modelled

* Identifiers (`id.go`): one atomic increment and an encoding. The models take
  identifiers to be distinct.
* The event model, fields, levels and conventions: data without state.
* Memory and stdout sinks: a mutex around a slice, and a line writer. The abstract
  sink of `Writer` covers what they can do.
* The generator: a worker pool that writes test data and stops at the first error;
  nothing depends on it.
* SQL text, migrations, and the detail, overview and activity queries, each a single
  statement that reads. What retention, ingestion and the cursor listings do to the
  tables is modelled.
* JSON encoding, compression, checksums, files and multipart uploads: a payload is
  its key, and an operation on it succeeds or fails.
* HTTP request parsing, payload previews, headers, and what a redactor changes in a body
  apart from its size.
* The command front ends, apart from the order of their steps; the creation of streams
  and consumers; the ingestor's statistics and health endpoint; the counters of
  `retention.Result`.
* Sizes and connections of the NATS sink: any batch may meet an early return of
  `publish`. In core NATS "stream" is what the server received.

`PROJECT.json` lists the parts with the reason for each, and under `hazards` the six
that no property covers, each with a note.
