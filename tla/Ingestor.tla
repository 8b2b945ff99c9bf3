------------------------------ MODULE Ingestor ------------------------------
(***************************************************************************)
(* ingestor.go: engines that move envelopes from a JetStream consumer into *)
(* the event store.  Several engines may share the durable consumer.       *)
(*                                                                         *)
(* External: the consumer (explicit acks, AckWait, MaxDeliver,             *)
(* MaxAckPending, as cmd/trail-ingestor configures it), the store behind   *)
(* WriteBatches and the stream behind PublishDLQ.  A call to one of them   *)
(* that fails may have had its effect or not.                              *)
(***************************************************************************)
EXTENDS Integers, Sequences, FiniteSets, Functions

CONSTANTS
  Engines, Messages,
  EventsIn, BytesIn,      \* [message -> number of events, length of its data]
  Undecodable,            \* messages that Metadata, Unmarshal or Normalize refuse
  MaxMessages, MaxEvents, MaxBytes, MaxDeliveries,    \* ingestor.Config
  MaxDeliver, MaxAckPending,                          \* jetstream.ConsumerConfig
  Faults,                 \* which faults may happen, a subset of FaultKinds
  None

\* "store": WriteBatches fails; "dlq": PublishDLQ fails; "ack": an ack or a nak is
\* lost; "slow": AckWait runs out while an engine still works on the message;
\* "crash": an engine dies, or Run returns, and it is started again.
FaultKinds == {"store", "dlq", "ack", "slow", "crash"}

ASSUME ConstantsAssumption ==
  /\ None \notin [msg: Messages, n: Nat]
  /\ Undecodable \subseteq Messages /\ Faults \subseteq FaultKinds
  /\ EventsIn \in [Messages -> Nat \ {0}] /\ BytesIn \in [Messages -> Nat \ {0}]
  /\ {MaxMessages, MaxEvents, MaxBytes, MaxDeliveries, MaxDeliver, MaxAckPending}
       \subseteq Nat \ {0}

VARIABLES
  jstate,       \* the consumer: [message -> ready, out, acked or exhausted]
  delivered,    \* the consumer: how often each message was handed out
  stored,       \* the messages whose events are in the event store
  dlq,          \* the messages published on the dead-letter subject
  epc,          \* where each engine is
  want, inbox,  \* its Fetch: messages still wanted, deliveries not yet ranged over
  item,         \* the delivery in hand: it did not fit, or is being dead-lettered
  group, events, bytes    \* locals of Run

consumerVars == <<jstate, delivered>>
fetchVars == <<want, inbox>>
groupVars == <<group, events, bytes>>
vars == <<consumerVars, stored, dlq, epc, fetchVars, item, groupVars>>

\* A delivery is the message with metadata.NumDelivered.
Delivery == [msg: Messages, n: 1 .. MaxDeliver]

Init ==
  /\ jstate = [m \in Messages |-> "ready"]
  /\ delivered = [m \in Messages |-> 0]
  /\ stored = {} /\ dlq = {}
  /\ epc = [e \in Engines |-> "idle"]
  /\ want = [e \in Engines |-> 0]
  /\ inbox = [e \in Engines |-> <<>>]
  /\ item = [e \in Engines |-> None]
  /\ group = [e \in Engines |-> <<>>]
  /\ events = [e \in Engines |-> 0]
  /\ bytes = [e \in Engines |-> 0]

-----------------------------------------------------------------------------
\* The consumer.

\* Mutant: the consumer has no MaxDeliver.
Released_Forever(m) == "ready"

\* An unacknowledged message is handed out again until MaxDeliver is reached.
Released(m) == IF delivered[m] < MaxDeliver THEN "ready" ELSE "exhausted"

\* The effect of an ack and of a nak that reach the consumer.
Acked(m) == [jstate EXCEPT ![m] = IF @ = "exhausted" THEN @ ELSE "acked"]
Naked(m) == [jstate EXCEPT ![m] = IF @ = "out" THEN Released(m) ELSE @]

\* The same, when the message may be lost on the way.
SendAck(m) ==
  \/ jstate' = Acked(m)
  \/ "ack" \in Faults /\ UNCHANGED jstate
SendNak(m) ==
  \/ jstate' = Naked(m)
  \/ "ack" \in Faults /\ UNCHANGED jstate

Pending == {m \in Messages : jstate[m] = "out"}

\* A message goes to a Fetch that still wants one.
Deliver(e, m) ==
  /\ want[e] > 0 /\ jstate[m] = "ready" /\ Cardinality(Pending) < MaxAckPending
  /\ jstate' = [jstate EXCEPT ![m] = "out"]
  /\ delivered' = [delivered EXCEPT ![m] = @ + 1]
  /\ inbox' = [inbox EXCEPT ![e] = Append(@, [msg |-> m, n |-> delivered[m] + 1])]
  /\ want' = [want EXCEPT ![e] = @ - 1]
  /\ UNCHANGED <<stored, dlq, epc, item, groupVars>>

\* The messages an engine is working on.
InHand(e) ==
  {d.msg : d \in Range(inbox[e]) \cup Range(group[e]) \cup ({item[e]} \ {None})}

AckWaitExpires(m) ==
  /\ jstate[m] = "out"
  /\ "slow" \in Faults \/ \A e \in Engines : m \notin InHand(e)
  /\ jstate' = Naked(m)
  /\ UNCHANGED <<delivered, stored, dlq, epc, fetchVars, item, groupVars>>

-----------------------------------------------------------------------------
\* Run.

Goto(e, place) == epc' = [epc EXCEPT ![e] = place]
Pop(e) == group' = [group EXCEPT ![e] = Tail(@)]

\* group = append(group, item) and the sums of its events and bytes.
Join(e, old, d) ==
  /\ group' = [group EXCEPT ![e] = Append(old.group, d)]
  /\ events' = [events EXCEPT ![e] = old.events + EventsIn[d.msg]]
  /\ bytes' = [bytes EXCEPT ![e] = old.bytes + BytesIn[d.msg]]

Empty == [group |-> <<>>, events |-> 0, bytes |-> 0]
Current(e) == [group |-> group[e], events |-> events[e], bytes |-> bytes[e]]

\* e.consumer.Fetch and the fresh group.
Fetch(e) ==
  /\ epc[e] = "idle"
  /\ want' = [want EXCEPT ![e] = MaxMessages]
  /\ group' = [group EXCEPT ![e] = <<>>]
  /\ events' = [events EXCEPT ![e] = 0]
  /\ bytes' = [bytes EXCEPT ![e] = 0]
  /\ Goto(e, "range")
  /\ UNCHANGED <<consumerVars, stored, dlq, inbox, item>>

Refused(m) == m \in Undecodable \/ BytesIn[m] > MaxBytes

\* Mutant: the byte limit of a group is not looked at.
Overflows_EventsOnly(e, m) == group[e] # <<>> /\ events[e] + EventsIn[m] > MaxEvents

Overflows(e, m) ==
  /\ group[e] # <<>>
  /\ events[e] + EventsIn[m] > MaxEvents \/ bytes[e] + BytesIn[m] > MaxBytes

\* One iteration of the range over result.Messages(): decode the message, and
\* dead-letter it, write the group first, or add it to the group.
NextMessage(e) ==
  /\ epc[e] = "range" /\ inbox[e] # <<>>
  /\ LET d == Head(inbox[e])
     IN  \/ /\ Refused(d.msg)
            /\ item' = [item EXCEPT ![e] = d]
            /\ Goto(e, "badPublish")
            /\ UNCHANGED groupVars
         \/ /\ ~Refused(d.msg) /\ Overflows(e, d.msg)
            /\ item' = [item EXCEPT ![e] = d]
            /\ Goto(e, "write")
            /\ UNCHANGED groupVars
         \/ /\ ~Refused(d.msg) /\ ~Overflows(e, d.msg)
            /\ Join(e, Current(e), d)
            /\ UNCHANGED <<epc, item>>
  /\ inbox' = [inbox EXCEPT ![e] = Tail(@)]
  /\ UNCHANGED <<consumerVars, stored, dlq, want>>

\* The range ends (all wanted messages came, or FetchWait is over): write the rest.
RangeEnds(e) ==
  /\ epc[e] = "range" /\ inbox[e] = <<>>
  /\ want' = [want EXCEPT ![e] = 0]
  /\ Goto(e, IF group[e] # <<>> THEN "write" ELSE "idle")
  /\ UNCHANGED <<consumerVars, stored, dlq, inbox, item, groupVars>>

-----------------------------------------------------------------------------
\* write.  WriteBatches stores a message's events once, however often it is given
\* them: postgres by ON CONFLICT, ClickHouse by the replacing key.

InGroup(e) == {d.msg : d \in Range(group[e])}

WriteOK(e) ==
  /\ epc[e] = "write"
  /\ stored' = stored \cup InGroup(e)
  /\ Goto(e, "ack")
  /\ UNCHANGED <<consumerVars, dlq, fetchVars, item, groupVars>>

\* Mutant: the group is acknowledged although the write failed.
WriteError_Acked(e) ==
  /\ epc[e] = "write" /\ "store" \in Faults
  /\ \E done \in SUBSET InGroup(e) : stored' = stored \cup done
  /\ Goto(e, "ack")
  /\ UNCHANGED <<consumerVars, dlq, fetchVars, item, groupVars>>

\* Mutant: Run returns the error of the write, and nobody starts it again.
WriteError_Returns(e) ==
  /\ epc[e] = "write" /\ "store" \in Faults
  /\ \E done \in SUBSET InGroup(e) : stored' = stored \cup done
  /\ Goto(e, "returned")
  /\ UNCHANGED <<consumerVars, dlq, fetchVars, item, groupVars>>

\* WriteBatches fails or times out, and part of the group may be stored.
WriteError(e) ==
  /\ epc[e] = "write" /\ "store" \in Faults
  /\ \E done \in SUBSET InGroup(e) : stored' = stored \cup done
  /\ Goto(e, "reject")
  /\ UNCHANGED <<consumerVars, dlq, fetchVars, item, groupVars>>

\* One iteration of the DoubleAck loop.
DoubleAck(e) ==
  /\ epc[e] = "ack" /\ group[e] # <<>>
  /\ SendAck(Head(group[e]).msg)
  /\ Pop(e)
  /\ UNCHANGED <<delivered, stored, dlq, epc, fetchVars, item, events, bytes>>

\* Back in Run: the delivery that did not fit starts the next group.
GroupDone(e) ==
  /\ epc[e] \in {"ack", "reject"} /\ group[e] = <<>>
  /\ \/ /\ item[e] # None
        /\ Join(e, Empty, item[e])
        /\ item' = [item EXCEPT ![e] = None]
        /\ Goto(e, "range")
     \/ /\ item[e] = None
        /\ Goto(e, "idle")
        /\ UNCHANGED <<item, groupVars>>
  /\ UNCHANGED <<consumerVars, stored, dlq, fetchVars>>

-----------------------------------------------------------------------------
\* reject and deadLetter.

\* Mutant: the last delivery is naked like the others.
LastDelivery_OffByOne(d) == d.n > MaxDeliveries

\* Mutant: the first failure is final.
LastDelivery_Early(d) == d.n >= MaxDeliveries - 1

LastDelivery(d) == d.n >= MaxDeliveries

\* One iteration of reject's loop: NakWithDelay, or deadLetter on the last delivery.
Reject(e) ==
  /\ epc[e] = "reject" /\ group[e] # <<>>
  /\ \/ /\ LastDelivery(Head(group[e]))
        /\ Goto(e, "lastPublish")
        /\ UNCHANGED <<jstate, group>>
     \/ /\ ~LastDelivery(Head(group[e]))
        /\ SendNak(Head(group[e]).msg)
        /\ Pop(e)
        /\ UNCHANGED epc
  /\ UNCHANGED <<delivered, stored, dlq, fetchVars, item, events, bytes>>

\* deadLetter is called from decode on the delivery in hand, and from reject on the
\* head of the group; to either it returns when it is done with the delivery.
DeadLetter(e) == IF epc[e] \in {"badPublish", "badAck"} THEN item[e] ELSE Head(group[e])

Back(e) ==
  \/ /\ epc[e] \in {"badPublish", "badAck"}
     /\ item' = [item EXCEPT ![e] = None]
     /\ Goto(e, "range")
     /\ UNCHANGED group
  \/ /\ epc[e] \in {"lastPublish", "lastAck"}
     /\ Pop(e)
     /\ Goto(e, "reject")
     /\ UNCHANGED item

\* PublishDLQ returns nil.
DeadPublishOK(e) ==
  /\ epc[e] \in {"badPublish", "lastPublish"}
  /\ dlq' = dlq \cup {DeadLetter(e).msg}
  /\ Goto(e, IF epc[e] = "badPublish" THEN "badAck" ELSE "lastAck")
  /\ UNCHANGED <<consumerVars, stored, fetchVars, item, groupVars>>

\* PublishDLQ returns an error (the message may have been stored): NakWithDelay.
DeadPublishError(e) ==
  /\ epc[e] \in {"badPublish", "lastPublish"} /\ "dlq" \in Faults
  /\ SendNak(DeadLetter(e).msg)
  /\ dlq' \in {dlq, dlq \cup {DeadLetter(e).msg}}
  /\ Back(e)
  /\ UNCHANGED <<delivered, stored, fetchVars, events, bytes>>

\* message.Ack()
DeadAck(e) ==
  /\ epc[e] \in {"badAck", "lastAck"}
  /\ SendAck(DeadLetter(e).msg)
  /\ Back(e)
  /\ UNCHANGED <<delivered, stored, dlq, fetchVars, events, bytes>>

\* The process ends, by a crash, an error of Fetch, or a signal, and starts again.
Crash(e) ==
  /\ "crash" \in Faults /\ epc[e] # "idle"
  /\ Goto(e, "idle")
  /\ want' = [want EXCEPT ![e] = 0]
  /\ inbox' = [inbox EXCEPT ![e] = <<>>]
  /\ item' = [item EXCEPT ![e] = None]
  /\ group' = [group EXCEPT ![e] = <<>>]
  /\ events' = [events EXCEPT ![e] = 0]
  /\ bytes' = [bytes EXCEPT ![e] = 0]
  /\ UNCHANGED <<consumerVars, stored, dlq>>

-----------------------------------------------------------------------------
EngineStep(e) ==
  \/ Fetch(e) \/ NextMessage(e) \/ RangeEnds(e)
  \/ WriteOK(e) \/ WriteError(e) \/ DoubleAck(e) \/ GroupDone(e)
  \/ Reject(e) \/ DeadPublishOK(e) \/ DeadPublishError(e) \/ DeadAck(e)

Next ==
  \/ \E e \in Engines, m \in Messages : Deliver(e, m)
  \/ \E m \in Messages : AckWaitExpires(m)
  \/ \E e \in Engines : EngineStep(e) \/ Crash(e)

Spec == Init /\ [][Next]_vars

\* Run never stops fetching, a call to a service returns (each has a timeout), and
\* AckWait runs out.  The consumer serves a message to some Fetch in the end, however
\* often a Fetch ends without it.
FairSpec ==
  /\ Spec
  /\ \A e \in Engines : WF_vars(EngineStep(e))
  /\ \A m \in Messages : /\ WF_vars(AckWaitExpires(m))
                         /\ SF_vars(\E e \in Engines : Deliver(e, m))

-----------------------------------------------------------------------------
\* Properties.

Places == {"idle", "range", "write", "ack", "reject", "badPublish", "badAck",
           "lastPublish", "lastAck"}

\* The values every variable ranges over; an engine handles at most what it fetched.
TypeOK ==
  /\ jstate \in [Messages -> {"ready", "out", "acked", "exhausted"}]
  /\ delivered \in [Messages -> 0 .. MaxDeliver]
  /\ stored \subseteq Messages /\ dlq \subseteq Messages
  /\ epc \in [Engines -> Places]
  /\ want \in [Engines -> 0 .. MaxMessages]
  /\ inbox \in [Engines -> Seq(Delivery)] /\ group \in [Engines -> Seq(Delivery)]
  /\ item \in [Engines -> Delivery \cup {None}]
  /\ events \in [Engines -> Nat] /\ bytes \in [Engines -> Nat]

\* A message is acknowledged only if its events are stored or it is in the dead-letter
\* stream (package comment: "acknowledges them only after a durable write"), whatever
\* fails, crashes, comes late or is handled by two engines at once.
AckedIsSafe == \A m \in Messages : jstate[m] = "acked" => m \in stored \cup dlq

\* A message that can be decoded reaches the dead-letter stream only after a
\* delivery with MaxDeliveries has failed: reject keeps retrying until then.
DeadOnlyWhenDue ==
  \A m \in dlq : Refused(m) \/ delivered[m] >= MaxDeliveries

\* What the messages of a group count together, by f.
Total(f, s) ==
  LET sum[i \in 0 .. Len(s)] == IF i = 0 THEN 0 ELSE sum[i - 1] + f[s[i].msg]
  IN  sum[Len(s)]

\* A group is written within MaxEvents and MaxBytes, or it is a single message: the
\* running sums of Run follow the group through early writes and failures.
GroupWithinLimits ==
  \A e \in Engines : epc[e] = "write" =>
    \/ Len(group[e]) = 1
    \/ Total(EventsIn, group[e]) <= MaxEvents /\ Total(BytesIn, group[e]) <= MaxBytes

\* Every message is acknowledged in the end or handed out MaxDeliver times: no crash,
\* lost ack, slow store or full dead-letter stream leaves one waiting for ever.
Settles == \A m \in Messages : <>[](jstate[m] \in {"acked", "exhausted"})

\* Whatever the store does, every message is acknowledged in the end, and so stored
\* or dead-lettered, if the engines stay up and the dead-letter stream works: the
\* delivery on which reject gives up comes before the consumer's last one.
NothingAbandoned == \A m \in Messages : <>(jstate[m] = "acked" /\ m \in stored \cup dlq)
=============================================================================
