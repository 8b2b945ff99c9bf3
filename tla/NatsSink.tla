------------------------------ MODULE NatsSink ------------------------------
(***************************************************************************)
(* The writer's output side with the NATS sink in place of an abstract     *)
(* one: wire.MarshalBatch refuses a whole batch for one malformed event,   *)
(* publish sends one message per batch and waits for the acknowledgement   *)
(* with a timeout, and the server may store a message whose                *)
(* acknowledgement came too late.  The writer itself is its abstraction,   *)
(* module Journal, in which one WriteBatch settles a set of events.        *)
(* JetStream and core NATS have one shape here: send, then an answer or a  *)
(* timeout.                                                                *)
(***************************************************************************)
EXTENDS Naturals, FiniteSets

CONSTANTS
  Event,
  BatchSize   \* events a batch may hold

ASSUME EventAssumption == IsFiniteSet(Event)
ASSUME SizeAssumption == BatchSize \in Nat \ {0}

VARIABLES
  fate,       \* [event -> "new", "pending", "written" or "dropped"]
  journal,    \* the global writer: "none", "open", "closing" or "closed"
  malformed,  \* events that validateEvent refuses: half a scope, an empty kind or field key
  batch,      \* the batch publish waits for, {} outside publish
  inflight,   \* messages sent and not stored
  stream,     \* events the server has stored
  published   \* Stats.Events of the sink

sinkVars == <<journal, malformed, batch, inflight, stream, published>>

Fates == {"new", "pending", "written", "dropped"}
With(f) == {e \in Event : fate[e] = f}

SinkInit ==
  /\ fate = [e \in Event |-> "new"]
  /\ journal = "none"
  /\ malformed = {}
  /\ batch = {}
  /\ inflight = {}
  /\ stream = {}
  /\ published = 0

SinkTypeOK ==
  /\ fate \in [Event -> Fates]
  /\ journal \in {"none", "open", "closing", "closed"}
  /\ malformed \subseteq Event
  /\ batch \subseteq With("pending")
  /\ inflight \subseteq SUBSET Event
  /\ stream \subseteq Event
  /\ published \in Nat

(***************************************************************************)
(* Package trail.                                                          *)
(***************************************************************************)
Open == journal = "none" /\ journal' = "open"

\* Log returns nothing: the event waits for the writer, or is dropped because
\* there is no writer or its queue is full.
Log(e) ==
  \/ journal = "open" /\ fate' = [fate EXCEPT ![e] = "pending"]
  \/ fate' = [fate EXCEPT ![e] = "dropped"]

Settled(S, f) == fate' = [e \in Event |-> IF e \in S THEN f ELSE fate[e]]

\* Close unpublishes the writer, lets it drain and then closes the sink.
CloseJournal == journal = "open" /\ journal' = "closing"

(***************************************************************************)
(* The sink.                                                               *)
(***************************************************************************)
validateEvent(e) == e \notin malformed
Validate(S) == S # {} /\ \A e \in S : validateEvent(e)

\* The writer calls WriteBatch for one batch at a time.
Offered(S) ==
  /\ journal \in {"open", "closing"}
  /\ batch = {}
  /\ S # {} /\ S \subseteq With("pending") /\ Cardinality(S) <= BatchSize

MarshalBatch(S) ==
  /\ Offered(S) /\ ~Validate(S)
  /\ Settled(S, "dropped")
  /\ UNCHANGED <<batch, inflight, published>>

\* publish returns early: the sink or its connection is closed, or the message is
\* too large.  Sizes and connections are not modelled, so any batch may meet this.
PublishRefused(S) ==
  /\ Offered(S) /\ Validate(S)
  /\ Settled(S, "dropped")
  /\ UNCHANGED <<batch, inflight, published>>

PublishMsg(S) ==
  /\ Offered(S) /\ Validate(S)
  /\ batch' = S
  /\ inflight' = inflight \cup {S}
  /\ UNCHANGED <<fate, published>>

Acknowledged_Unread ==
  /\ batch # {}
  /\ published' = published + Cardinality(batch)
  /\ Settled(batch, "written")
  /\ batch' = {}
  /\ UNCHANGED inflight

Acknowledged ==
  /\ batch # {} /\ batch \subseteq stream
  /\ published' = published + Cardinality(batch)
  /\ Settled(batch, "written")
  /\ batch' = {}
  /\ UNCHANGED inflight

TimedOut_Waits ==
  /\ batch # {} /\ batch \subseteq stream
  /\ Settled(batch, "dropped")
  /\ batch' = {}
  /\ UNCHANGED <<inflight, published>>

\* The context of PublishMsg, or FlushTimeout, ends first.
TimedOut ==
  /\ batch # {}
  /\ Settled(batch, "dropped")
  /\ batch' = {}
  /\ UNCHANGED <<inflight, published>>

Publish ==
  /\ \/ \E S \in SUBSET Event : MarshalBatch(S) \/ PublishRefused(S) \/ PublishMsg(S)
     \/ Acknowledged
     \/ TimedOut
  /\ UNCHANGED <<journal, malformed, stream>>

CloseSink_Undrained ==
  /\ journal = "closing" /\ batch = {}
  /\ journal' = "closed"
  /\ UNCHANGED <<fate, malformed, batch, inflight, stream, published>>

\* Sink.Close takes the lock that publish holds.  Close of package trail calls it after the
\* writer has drained: that nothing is pending is the writer's doing (JournalSpec of Writer).
CloseSink ==
  /\ journal = "closing" /\ With("pending") = {} /\ batch = {}
  /\ journal' = "closed"
  /\ UNCHANGED <<fate, malformed, batch, inflight, stream, published>>

\* The server stores a message, or the network loses it: it stays in flight for ever.
Server ==
  /\ \E S \in inflight :
       /\ inflight' = inflight \ {S}
       /\ stream' = stream \cup S
  /\ UNCHANGED <<fate, journal, malformed, batch, published>>

Settling == Publish \/ CloseSink

(***************************************************************************)
(* Properties.                                                             *)
(***************************************************************************)
\* WriteBatch returns nil only for a batch the server has acknowledged, so an
\* event the writer counts as written is in the stream, and the sink's own
\* statistics count exactly these events.
WrittenIsStored ==
  /\ With("written") \subseteq stream
  /\ published = Cardinality(With("written"))

J == INSTANCE Journal WITH open <- journal \in {"open", "closing"}

\* With this sink, whatever the network does, package trail keeps the promise
\* of module Journal: an event is settled once, a batch as a whole, and the
\* sink is closed after the last accepted event is settled.
JournalSpec == J!Spec
=============================================================================
