--------------------------- MODULE IngestorProofs ---------------------------
(***************************************************************************)
(* Proofs about the ingestor, for any number of engines and messages, any  *)
(* limits and any combination of faults.                                   *)
(***************************************************************************)
EXTENDS Ingestor, SequenceTheorems, WellFoundedInduction, TLAPS

-----------------------------------------------------------------------------
\* The inductive invariant.

\* A message that can still be handed out has a delivery left, and a delivery in an
\* engine is not younger than the consumer's count.
Counts ==
  /\ \A m \in Messages : jstate[m] = "ready" => delivered[m] < MaxDeliver
  /\ \A e \in Engines :
       /\ \A i \in DOMAIN inbox[e] : inbox[e][i].n <= delivered[inbox[e][i].msg]
       /\ \A i \in DOMAIN group[e] : group[e][i].n <= delivered[group[e][i].msg]
       /\ item[e] # None => item[e].n <= delivered[item[e].msg]

\* What the place of an engine says about the delivery it works on.
AtWork(e) ==
  /\ epc[e] = "ack" => \A i \in DOMAIN group[e] : group[e][i].msg \in stored
  /\ epc[e] \in {"badPublish", "badAck"} => item[e] # None /\ Refused(item[e].msg)
  /\ epc[e] \in {"lastPublish", "lastAck"} =>
       group[e] # <<>> /\ LastDelivery(group[e][1])
  /\ epc[e] = "badAck" => item[e].msg \in dlq
  /\ epc[e] = "lastAck" => group[e][1].msg \in dlq

Working == \A e \in Engines : AtWork(e)

IInv == TypeOK /\ Counts /\ Working /\ AckedIsSafe /\ DeadOnlyWhenDue

-----------------------------------------------------------------------------
\* Sequences of deliveries.

LEMMA HeadTail ==
  ASSUME NEW s \in Seq(Delivery), s # <<>>
  PROVE  /\ Head(s) = s[1] /\ s[1] \in Delivery /\ 1 \in DOMAIN s
         /\ Tail(s) \in Seq(Delivery)
         /\ \A i \in DOMAIN Tail(s) : i + 1 \in DOMAIN s /\ Tail(s)[i] = s[i + 1]
BY HeadTailProperties, LenProperties, EmptySeq

LEMMA AppendDelivery ==
  ASSUME NEW s \in Seq(Delivery), NEW d \in Delivery
  PROVE  /\ Append(s, d) \in Seq(Delivery)
         /\ \A i \in DOMAIN Append(s, d) : \/ i \in DOMAIN s /\ Append(s, d)[i] = s[i]
                                           \/ Append(s, d)[i] = d
BY AppendProperties, LenProperties

LEMMA DeliveryType ==
  ASSUME NEW d \in Delivery
  PROVE  d.msg \in Messages /\ d.n \in 1 .. MaxDeliver /\ d # None
BY ConstantsAssumption DEF Delivery

-----------------------------------------------------------------------------
\* The consumer, the store and the dead-letter stream.

LEMMA SendAckEffect ==
  ASSUME TypeOK, NEW m \in Messages, SendAck(m)
  PROVE  /\ jstate' \in [Messages -> {"ready", "out", "acked", "exhausted"}]
         /\ \A x \in Messages : jstate'[x] = "ready" => jstate[x] = "ready"
         /\ \A x \in Messages : jstate'[x] = "acked" => jstate[x] = "acked" \/ x = m
BY DEF TypeOK, SendAck, Acked

LEMMA SendNakEffect ==
  ASSUME TypeOK, Counts, NEW m \in Messages, SendNak(m)
  PROVE  /\ jstate' \in [Messages -> {"ready", "out", "acked", "exhausted"}]
         /\ \A x \in Messages : jstate'[x] = "ready" => delivered[x] < MaxDeliver
         /\ \A x \in Messages : jstate'[x] = "acked" => jstate[x] = "acked"
BY DEF TypeOK, Counts, SendNak, Naked, Released

\* The message that engine e may acknowledge, and the one it may dead-letter.
Acknowledges(e, m) ==
  \/ epc[e] \in {"ack", "lastAck"} /\ group[e] # <<>> /\ m = group[e][1].msg
  \/ epc[e] = "badAck" /\ m = item[e].msg
Buries(e, m) ==
  \/ epc[e] = "lastPublish" /\ m = group[e][1].msg
  \/ epc[e] = "badPublish" /\ m = item[e].msg

\* What any step does to the state outside the engines.
Outside ==
  /\ jstate' \in [Messages -> {"ready", "out", "acked", "exhausted"}]
  /\ delivered' \in [Messages -> 0 .. MaxDeliver]
  /\ \A m \in Messages : delivered[m] <= delivered'[m]
  /\ \A m \in Messages : jstate'[m] = "ready" => delivered'[m] < MaxDeliver
  /\ \A m \in Messages : jstate'[m] = "acked" =>
       jstate[m] = "acked" \/ \E e \in Engines : Acknowledges(e, m)
  /\ stored \subseteq stored' /\ stored' \subseteq Messages
  /\ dlq \subseteq dlq' /\ dlq' \subseteq Messages
  /\ \A m \in dlq' : m \in dlq \/ \E e \in Engines : Buries(e, m)

LEMMA OutsideStep ==
  ASSUME IInv, [Next]_vars
  PROVE  Outside
<1>0. /\ jstate \in [Messages -> {"ready", "out", "acked", "exhausted"}]
      /\ delivered \in [Messages -> 0 .. MaxDeliver]
      /\ stored \subseteq Messages /\ dlq \subseteq Messages
      /\ group \in [Engines -> Seq(Delivery)]
      /\ item \in [Engines -> Delivery \cup {None}]
      /\ TypeOK /\ Counts /\ Working
      /\ MaxDeliver \in Nat
  BY ConstantsAssumption DEF IInv, TypeOK
<1>1. ASSUME UNCHANGED consumerVars, UNCHANGED dlq,
             stored \subseteq stored', stored' \subseteq Messages
      PROVE  Outside
  BY <1>0, <1>1 DEF Outside, consumerVars, Counts
<1>2. ASSUME NEW e \in Engines, NEW m \in Messages, Deliver(e, m)
      PROVE  Outside
  <2>1. delivered[m] + 1 \in 0 .. MaxDeliver
    BY <1>0, <1>2 DEF Deliver, Counts
  <2>2. /\ jstate' = [jstate EXCEPT ![m] = "out"]
        /\ delivered' = [delivered EXCEPT ![m] = delivered[m] + 1]
        /\ UNCHANGED <<stored, dlq>>
    BY <1>2 DEF Deliver
  <2> QED  BY <1>0, <2>1, <2>2 DEF Outside, Counts
<1>3. ASSUME NEW m \in Messages, AckWaitExpires(m)
      PROVE  Outside
  <2>1. SendNak(m) /\ UNCHANGED <<delivered, stored, dlq>>
    BY <1>3 DEF AckWaitExpires, SendNak
  <2> QED  BY <1>0, <2>1, SendNakEffect DEF Outside
<1>4. ASSUME NEW e \in Engines, EngineStep(e)
      PROVE  Outside
  <2>1. CASE Fetch(e) \/ NextMessage(e) \/ RangeEnds(e) \/ GroupDone(e)
    BY <1>0, <1>1, <2>1 DEF Fetch, NextMessage, RangeEnds, GroupDone
  <2>2. CASE WriteOK(e) \/ WriteError(e)
    <3>1. InGroup(e) \subseteq Messages
      BY <1>0, LenProperties, ElementOfSeq, DeliveryType DEF InGroup, Range
    <3> QED  BY <1>0, <1>1, <2>2, <3>1 DEF WriteOK, WriteError
  <2>3. CASE DoubleAck(e)
    <3>1. /\ Head(group[e]) = group[e][1] /\ group[e][1].msg \in Messages
          /\ group[e] # <<>>
      BY <1>0, <2>3, HeadTail, DeliveryType DEF DoubleAck
    <3>2. Acknowledges(e, group[e][1].msg)
      BY <2>3, <3>1 DEF DoubleAck, Acknowledges
    <3> QED  BY <1>0, <2>3, <3>1, <3>2, SendAckEffect DEF DoubleAck, Outside, Counts
  <2>4. CASE Reject(e)
    <3>1. Head(group[e]).msg \in Messages
      BY <1>0, <2>4, HeadTail, DeliveryType DEF Reject
    <3>2. CASE UNCHANGED jstate
      BY <1>0, <1>1, <2>4, <3>2 DEF Reject, consumerVars
    <3>3. CASE SendNak(Head(group[e]).msg)
      BY <1>0, <2>4, <3>1, <3>3, SendNakEffect DEF Reject, Outside
    <3> QED  BY <2>4, <3>2, <3>3 DEF Reject
  <2>5. CASE DeadPublishOK(e) \/ DeadPublishError(e)
    <3>1. DeadLetter(e).msg \in Messages /\ Buries(e, DeadLetter(e).msg)
      BY <1>0, <2>5, HeadTail, DeliveryType
         DEF DeadPublishOK, DeadPublishError, DeadLetter, Working, AtWork, Buries
    <3>2. dlq' \in {dlq, dlq \cup {DeadLetter(e).msg}} /\ UNCHANGED <<delivered, stored>>
      BY <2>5 DEF DeadPublishOK, DeadPublishError, consumerVars
    <3>3. CASE DeadPublishOK(e)
      BY <1>0, <3>1, <3>2, <3>3 DEF DeadPublishOK, Outside, consumerVars, Counts
    <3>4. CASE DeadPublishError(e)
      BY <1>0, <3>1, <3>2, <3>4, SendNakEffect DEF DeadPublishError, Outside
    <3> QED  BY <2>5, <3>3, <3>4
  <2>6. CASE DeadAck(e)
    <3>1. DeadLetter(e).msg \in Messages /\ Acknowledges(e, DeadLetter(e).msg)
      BY <1>0, <2>6, HeadTail, DeliveryType DEF DeadAck, DeadLetter, Working, AtWork, Acknowledges
    <3> QED  BY <1>0, <2>6, <3>1, SendAckEffect DEF DeadAck, Outside, Counts
  <2> QED  BY <1>4, <2>1, <2>2, <2>3, <2>4, <2>5, <2>6 DEF EngineStep
<1>5. ASSUME NEW e \in Engines, Crash(e)
      PROVE  Outside
  BY <1>0, <1>1, <1>5 DEF Crash
<1>6. CASE UNCHANGED vars
  BY <1>0, <1>1, <1>6 DEF vars
<1> QED  BY <1>2, <1>3, <1>4, <1>5, <1>6 DEF Next

-----------------------------------------------------------------------------
\* The engines.

LEMMA JoinEffect ==
  ASSUME TypeOK, NEW e \in Engines, NEW old \in {Empty, Current(e)}, NEW d \in Delivery,
         Join(e, old, d)
  PROVE  /\ group' \in [Engines -> Seq(Delivery)]
         /\ events' \in [Engines -> Nat] /\ bytes' \in [Engines -> Nat]
         /\ \A f \in Engines \ {e} : group'[f] = group[f]
         /\ \A i \in DOMAIN group'[e] : \/ i \in DOMAIN group[e] /\ group'[e][i] = group[e][i]
                                        \/ group'[e][i] = d
<1>1. /\ group \in [Engines -> Seq(Delivery)]
      /\ events \in [Engines -> Nat] /\ bytes \in [Engines -> Nat]
      /\ EventsIn[d.msg] \in Nat /\ BytesIn[d.msg] \in Nat
  BY ConstantsAssumption, DeliveryType DEF TypeOK
<1>2. /\ old.group \in {<<>>, group[e]} /\ old.group \in Seq(Delivery)
      /\ old.events \in Nat /\ old.bytes \in Nat
  <2>1. CASE old = Empty
    BY <2>1, EmptySeq DEF Empty
  <2>2. CASE old = Current(e)
    BY <1>1, <2>2 DEF Current
  <2> QED  BY <2>1, <2>2
<1>3. /\ Append(old.group, d) \in Seq(Delivery)
      /\ \A i \in DOMAIN Append(old.group, d) :
           \/ i \in DOMAIN old.group /\ Append(old.group, d)[i] = old.group[i]
           \/ Append(old.group, d)[i] = d
  BY <1>2, AppendDelivery
<1>4. /\ group' = [group EXCEPT ![e] = Append(old.group, d)]
      /\ events' = [events EXCEPT ![e] = old.events + EventsIn[d.msg]]
      /\ bytes' = [bytes EXCEPT ![e] = old.bytes + BytesIn[d.msg]]
  BY DEF Join
<1>5. DOMAIN <<>> = {}
  OBVIOUS
<1>6. group'[e] = Append(old.group, d)
  BY <1>1, <1>4
<1>7. \A i \in DOMAIN group'[e] : \/ i \in DOMAIN group[e] /\ group'[e][i] = group[e][i]
                                  \/ group'[e][i] = d
  BY <1>2, <1>3, <1>5, <1>6
<1>8. events' \in [Engines -> Nat] /\ bytes' \in [Engines -> Nat]
  BY SMTT(40), <1>1, <1>2, <1>4
<1>9. group' \in [Engines -> Seq(Delivery)] /\ \A f \in Engines \ {e} : group'[f] = group[f]
  BY <1>1, <1>3, <1>4
<1> QED  BY <1>7, <1>8, <1>9

\* What any step does to the deliveries inside the engines: one that was not in the
\* engine before has just been counted by the consumer.
Known(e, d) ==
  \/ \E i \in DOMAIN inbox[e] : d = inbox[e][i]
  \/ \E i \in DOMAIN group[e] : d = group[e][i]
  \/ d = item[e] /\ item[e] # None

\* A step of engine e that only moves deliveries about inside it.
Keeps(e) ==
  /\ \A f \in Engines \ {e} :
       inbox'[f] = inbox[f] /\ group'[f] = group[f] /\ item'[f] = item[f]
  /\ \A i \in DOMAIN inbox'[e] : Known(e, inbox'[e][i])
  /\ \A i \in DOMAIN group'[e] : Known(e, group'[e][i])
  /\ item'[e] # None => Known(e, item'[e])

LEMMA KeepsKnown ==
  ASSUME NEW e \in Engines, Keeps(e)
  PROVE  \A f \in Engines : \A x \in Delivery : Known(f, x)' => Known(f, x)
<1> SUFFICES ASSUME NEW f \in Engines, NEW x \in Delivery, Known(f, x)'
             PROVE  Known(f, x)
  OBVIOUS
<1>1. CASE f # e
  <2>1. inbox'[f] = inbox[f] /\ group'[f] = group[f] /\ item'[f] = item[f]
    BY <1>1 DEF Keeps
  <2> QED  BY <2>1 DEF Known
<1>2. CASE f = e
  <2>1. \/ \E i \in DOMAIN inbox'[e] : x = inbox'[e][i]
        \/ \E i \in DOMAIN group'[e] : x = group'[e][i]
        \/ x = item'[e] /\ item'[e] # None
    BY <1>2 DEF Known
  <2>2. Known(e, x)
    BY <2>1 DEF Keeps
  <2> QED  BY <1>2, <2>2
<1> QED  BY <1>1, <1>2

Within ==
  /\ epc' \in [Engines -> Places] /\ want' \in [Engines -> 0 .. MaxMessages]
  /\ inbox' \in [Engines -> Seq(Delivery)] /\ group' \in [Engines -> Seq(Delivery)]
  /\ item' \in [Engines -> Delivery \cup {None}]
  /\ events' \in [Engines -> Nat] /\ bytes' \in [Engines -> Nat]
  /\ \A e \in Engines : \A d \in Delivery :
       Known(e, d)' => Known(e, d) \/ d.n <= delivered'[d.msg]

LEMMA WithinStep ==
  ASSUME IInv, [Next]_vars
  PROVE  Within
<1>0. /\ epc \in [Engines -> Places] /\ want \in [Engines -> 0 .. MaxMessages]
      /\ inbox \in [Engines -> Seq(Delivery)] /\ group \in [Engines -> Seq(Delivery)]
      /\ item \in [Engines -> Delivery \cup {None}]
      /\ events \in [Engines -> Nat] /\ bytes \in [Engines -> Nat]
      /\ delivered \in [Messages -> 0 .. MaxDeliver]
      /\ TypeOK /\ Counts /\ Working
      /\ MaxMessages \in Nat /\ MaxDeliver \in Nat
  BY ConstantsAssumption DEF IInv, TypeOK
<1>1. CASE UNCHANGED <<epc, fetchVars, item, groupVars>>
  BY <1>0, <1>1 DEF Within, Known, fetchVars, groupVars
<1>2. ASSUME NEW e \in Engines, NEW m \in Messages, Deliver(e, m)
      PROVE  Within
  <2> DEFINE d == [msg |-> m, n |-> delivered[m] + 1]
  <2>1. d \in Delivery /\ d.n <= delivered'[d.msg]
    BY <1>0, <1>2 DEF Deliver, Counts, Delivery
  <2>2. /\ inbox' = [inbox EXCEPT ![e] = Append(inbox[e], d)]
        /\ want' = [want EXCEPT ![e] = want[e] - 1] /\ want[e] > 0
        /\ UNCHANGED <<epc, item, group, events, bytes>>
    BY <1>2 DEF Deliver, groupVars
  <2> HIDE DEF d
  <2>3. /\ Append(inbox[e], d) \in Seq(Delivery)
        /\ \A i \in DOMAIN Append(inbox[e], d) :
             \/ i \in DOMAIN inbox[e] /\ Append(inbox[e], d)[i] = inbox[e][i]
             \/ Append(inbox[e], d)[i] = d
    BY <1>0, <2>1, AppendDelivery
  <2>4. inbox' \in [Engines -> Seq(Delivery)] /\ want' \in [Engines -> 0 .. MaxMessages]
    BY <1>0, <2>2, <2>3
  <2>5. \A f \in Engines : \A x \in Delivery : Known(f, x)' => Known(f, x) \/ x = d
    <3>1. inbox'[e] = Append(inbox[e], d) /\ \A f \in Engines \ {e} : inbox'[f] = inbox[f]
      BY <1>0, <2>2
    <3> SUFFICES ASSUME NEW f \in Engines, NEW x \in Delivery, Known(f, x)'
                 PROVE  Known(f, x) \/ x = d
      OBVIOUS
    <3>2. CASE \E i \in DOMAIN inbox'[f] : x = inbox'[f][i]
      <4>1. PICK i \in DOMAIN inbox'[f] : x = inbox'[f][i]
        BY <3>2
      <4> QED  BY <2>3, <3>1, <4>1 DEF Known
    <3>3. CASE \/ \E i \in DOMAIN group'[f] : x = group'[f][i]
               \/ x = item'[f] /\ item'[f] # None
      BY <2>2, <3>3 DEF Known
    <3> QED  BY <3>2, <3>3 DEF Known
  <2>6. \A f \in Engines : \A x \in Delivery :
          Known(f, x)' => Known(f, x) \/ x.n <= delivered'[x.msg]
    BY <2>1, <2>5
  <2> QED  BY <1>0, <2>2, <2>4, <2>6 DEF Within
<1>3. ASSUME NEW m \in Messages, AckWaitExpires(m)
      PROVE  Within
  BY <1>1, <1>3 DEF AckWaitExpires
<1>4. ASSUME NEW e \in Engines, EngineStep(e)
      PROVE  Within
  <2>1. CASE Fetch(e)
    <3>1. /\ want' = [want EXCEPT ![e] = MaxMessages]
          /\ group' = [group EXCEPT ![e] = <<>>]
          /\ events' = [events EXCEPT ![e] = 0] /\ bytes' = [bytes EXCEPT ![e] = 0]
          /\ epc' = [epc EXCEPT ![e] = "range"]
          /\ UNCHANGED <<inbox, item>>
      BY <2>1 DEF Fetch, Goto
    <3> QED  BY <1>0, <3>1 DEF Within, Known, Places
  <2>2. CASE NextMessage(e)
    <3> DEFINE d == Head(inbox[e])
    <3>1. /\ d = inbox[e][1] /\ d \in Delivery /\ 1 \in DOMAIN inbox[e]
          /\ Tail(inbox[e]) \in Seq(Delivery)
          /\ \A i \in DOMAIN Tail(inbox[e]) :
               i + 1 \in DOMAIN inbox[e] /\ Tail(inbox[e])[i] = inbox[e][i + 1]
      BY <1>0, <2>2, HeadTail DEF NextMessage
    <3>2. inbox' = [inbox EXCEPT ![e] = Tail(inbox[e])] /\ UNCHANGED want
      BY <2>2 DEF NextMessage
    <3>3. /\ inbox' \in [Engines -> Seq(Delivery)]
          /\ inbox'[e] = Tail(inbox[e]) /\ \A f \in Engines \ {e} : inbox'[f] = inbox[f]
      BY <1>0, <3>1, <3>2
    <3>4. CASE UNCHANGED <<epc, item>> /\ Join(e, Current(e), d)
      <4> HIDE DEF d
      <4>1. /\ group' \in [Engines -> Seq(Delivery)]
            /\ events' \in [Engines -> Nat] /\ bytes' \in [Engines -> Nat]
            /\ \A f \in Engines \ {e} : group'[f] = group[f]
            /\ \A i \in DOMAIN group'[e] :
                 \/ i \in DOMAIN group[e] /\ group'[e][i] = group[e][i]
                 \/ group'[e][i] = d
        BY <1>0, <3>1, <3>4, JoinEffect
      <4>2. \A f \in Engines : \A x \in Delivery : Known(f, x)' => Known(f, x)
        <5>1. Known(e, d) /\ \A i \in DOMAIN inbox'[e] : Known(e, inbox'[e][i])
          BY <3>1, <3>3 DEF Known
        <5>2. \A i \in DOMAIN group'[e] : Known(e, group'[e][i])
          BY <4>1, <5>1 DEF Known
        <5>3. item'[e] # None => Known(e, item'[e])
          BY <3>4 DEF Known
        <5>4. Keeps(e)
          BY <3>3, <3>4, <4>1, <5>1, <5>2, <5>3 DEF Keeps
        <5> QED  BY <5>4, KeepsKnown
      <4> QED  BY <1>0, <3>2, <3>3, <3>4, <4>1, <4>2 DEF Within
    <3>5. CASE /\ item' = [item EXCEPT ![e] = d] /\ UNCHANGED groupVars
               /\ epc' = [epc EXCEPT ![e] = "badPublish"] \/ epc' = [epc EXCEPT ![e] = "write"]
      <4> HIDE DEF d
      <4>1. /\ item' \in [Engines -> Delivery \cup {None}] /\ epc' \in [Engines -> Places]
            /\ item'[e] = d /\ \A f \in Engines \ {e} : item'[f] = item[f]
        BY <1>0, <3>1, <3>5 DEF Places
      <4>2. \A f \in Engines : \A x \in Delivery : Known(f, x)' => Known(f, x)
        <5>1. Known(e, d) /\ \A i \in DOMAIN inbox'[e] : Known(e, inbox'[e][i])
          BY <3>1, <3>3 DEF Known
        <5>2. \A i \in DOMAIN group'[e] : Known(e, group'[e][i])
          BY <3>5 DEF Known, groupVars
        <5>3. Keeps(e)
          BY <3>3, <3>5, <4>1, <5>1, <5>2 DEF Keeps, groupVars
        <5> QED  BY <5>3, KeepsKnown
      <4> QED  BY <1>0, <3>2, <3>3, <3>5, <4>1, <4>2 DEF Within, groupVars
    <3> QED  BY <2>2, <3>4, <3>5 DEF NextMessage, Goto
  <2>3. CASE RangeEnds(e) \/ WriteOK(e) \/ WriteError(e) \/ DeadPublishOK(e)
    <3>1. /\ want' = [want EXCEPT ![e] = 0] \/ UNCHANGED want
          /\ \E place \in Places : epc' = [epc EXCEPT ![e] = place]
          /\ UNCHANGED <<inbox, item, groupVars>>
      BY <2>3 DEF RangeEnds, WriteOK, WriteError, DeadPublishOK, Goto, Places, fetchVars
    <3>2. epc' \in [Engines -> Places]
      BY <1>0, <3>1
    <3>3. want' \in [Engines -> 0 .. MaxMessages]
      <4>1. CASE UNCHANGED want
        BY <1>0, <4>1
      <4>2. CASE want' = [want EXCEPT ![e] = 0]
        BY <1>0, <4>2
      <4> QED  BY <3>1, <4>1, <4>2
    <3> QED  BY <1>0, <3>1, <3>2, <3>3 DEF Within, Known, groupVars
  <2>4. CASE GroupDone(e)
    <3>1. CASE item[e] = None
      <4>1. epc' = [epc EXCEPT ![e] = "idle"] /\ UNCHANGED <<fetchVars, item, groupVars>>
        BY <2>4, <3>1 DEF GroupDone, Goto
      <4> QED  BY <1>0, <4>1 DEF Within, Known, Places, fetchVars, groupVars
    <3>2. CASE item[e] # None
      <4>1. /\ Join(e, Empty, item[e]) /\ item' = [item EXCEPT ![e] = None]
            /\ epc' = [epc EXCEPT ![e] = "range"] /\ UNCHANGED <<want, inbox>>
        BY <2>4, <3>2 DEF GroupDone, Goto, fetchVars
      <4>2. item[e] \in Delivery
        BY <1>0, <3>2
      <4>3. /\ group' \in [Engines -> Seq(Delivery)]
            /\ events' \in [Engines -> Nat] /\ bytes' \in [Engines -> Nat]
            /\ \A f \in Engines \ {e} : group'[f] = group[f]
            /\ \A i \in DOMAIN group'[e] :
                 \/ i \in DOMAIN group[e] /\ group'[e][i] = group[e][i]
                 \/ group'[e][i] = item[e]
        BY <1>0, <4>1, <4>2, JoinEffect
      <4>4. /\ item' \in [Engines -> Delivery \cup {None}] /\ epc' \in [Engines -> Places]
            /\ item'[e] = None /\ \A f \in Engines \ {e} : item'[f] = item[f]
        BY <1>0, <4>1 DEF Places
      <4>5. \A f \in Engines : \A x \in Delivery : Known(f, x)' => Known(f, x)
        BY <3>2, <4>1, <4>3, <4>4 DEF Known
      <4> QED  BY <1>0, <4>1, <4>3, <4>4, <4>5 DEF Within
    <3> QED  BY <3>1, <3>2
  <2>5. CASE DoubleAck(e) \/ Reject(e) \/ DeadPublishError(e) \/ DeadAck(e)
    <3>1. /\ UNCHANGED <<want, inbox, events, bytes>>
          /\ \/ UNCHANGED group
             \/ group' = [group EXCEPT ![e] = Tail(group[e])] /\ group[e] # <<>>
          /\ UNCHANGED item \/ item' = [item EXCEPT ![e] = None]
          /\ UNCHANGED epc \/ \E place \in Places : epc' = [epc EXCEPT ![e] = place]
      BY <1>0, <2>5 DEF DoubleAck, Reject, DeadPublishError, DeadAck, Back, Pop, Goto, Places,
                        fetchVars, Working, AtWork
    <3>2. group[e] # <<>> =>
            /\ Tail(group[e]) \in Seq(Delivery)
            /\ \A i \in DOMAIN Tail(group[e]) :
                 i + 1 \in DOMAIN group[e] /\ Tail(group[e])[i] = group[e][i + 1]
      BY <1>0, HeadTail
    <3>3. /\ group' \in [Engines -> Seq(Delivery)]
          /\ \A f \in Engines \ {e} : group'[f] = group[f]
          /\ group'[e] = group[e] \/ (group[e] # <<>> /\ group'[e] = Tail(group[e]))
      BY <1>0, <3>1, <3>2
    <3>4. /\ item' \in [Engines -> Delivery \cup {None}] /\ epc' \in [Engines -> Places]
          /\ \A f \in Engines : item'[f] = item[f] \/ item'[f] = None
      BY <1>0, <3>1
    <3>5. \A f \in Engines : \A x \in Delivery : Known(f, x)' => Known(f, x)
      <4>1. /\ \A i \in DOMAIN inbox'[e] : Known(e, inbox'[e][i])
            /\ item'[e] # None => Known(e, item'[e])
        BY <3>1, <3>4 DEF Known
      <4>2. \A i \in DOMAIN group'[e] : Known(e, group'[e][i])
        BY <3>2, <3>3 DEF Known
      <4>3. \A f \in Engines \ {e} : item'[f] = item[f]
        BY <1>0, <3>1
      <4>4. Keeps(e)
        BY <3>1, <3>3, <4>1, <4>2, <4>3 DEF Keeps
      <4> QED  BY <4>4, KeepsKnown
    <3> QED  BY <1>0, <3>1, <3>3, <3>4, <3>5 DEF Within
  <2> QED  BY <1>4, <2>1, <2>2, <2>3, <2>4, <2>5 DEF EngineStep
<1>5. ASSUME NEW e \in Engines, Crash(e)
      PROVE  Within
  <2>1. /\ want' = [want EXCEPT ![e] = 0] /\ inbox' = [inbox EXCEPT ![e] = <<>>]
        /\ group' = [group EXCEPT ![e] = <<>>] /\ item' = [item EXCEPT ![e] = None]
        /\ events' = [events EXCEPT ![e] = 0] /\ bytes' = [bytes EXCEPT ![e] = 0]
        /\ epc' = [epc EXCEPT ![e] = "idle"]
    BY <1>5 DEF Crash, Goto
  <2> QED  BY <1>0, <2>1 DEF Within, Known, Places
<1>6. CASE UNCHANGED vars
  BY <1>1, <1>6 DEF vars
<1> QED  BY <1>2, <1>3, <1>4, <1>5, <1>6 DEF Next

-----------------------------------------------------------------------------
\* The invariant is preserved.

LEMMA CountsStep ==
  ASSUME IInv, Outside, Within
  PROVE  Counts'
<1>0. /\ inbox' \in [Engines -> Seq(Delivery)] /\ group' \in [Engines -> Seq(Delivery)]
      /\ item' \in [Engines -> Delivery \cup {None}]
      /\ delivered \in [Messages -> 0 .. MaxDeliver]
      /\ delivered' \in [Messages -> 0 .. MaxDeliver]
      /\ \A m \in Messages : delivered[m] <= delivered'[m]
      /\ Counts /\ MaxDeliver \in Nat
  BY ConstantsAssumption DEF IInv, TypeOK, Outside, Within
<1>1. \A e \in Engines : \A d \in Delivery : Known(e, d)' => d.n <= delivered'[d.msg]
  <2> SUFFICES ASSUME NEW e \in Engines, NEW d \in Delivery, Known(e, d)'
               PROVE  d.n <= delivered'[d.msg]
    OBVIOUS
  <2>1. d.msg \in Messages /\ d.n \in Nat
    BY <1>0, DeliveryType
  <2>2. CASE Known(e, d)
    <3>1. d.n <= delivered[d.msg]
      BY <1>0, <2>2 DEF Known, Counts
    <3>2. delivered[d.msg] \in Nat /\ delivered'[d.msg] \in Nat
          /\ delivered[d.msg] <= delivered'[d.msg]
      BY <1>0, <2>1
    <3> QED  BY <2>1, <3>1, <3>2
  <2> QED  BY <2>2 DEF Within
<1>2. ASSUME NEW e \in Engines
      PROVE  /\ \A i \in DOMAIN inbox'[e] : inbox'[e][i].n <= delivered'[inbox'[e][i].msg]
             /\ \A i \in DOMAIN group'[e] : group'[e][i].n <= delivered'[group'[e][i].msg]
             /\ item'[e] # None => item'[e].n <= delivered'[item'[e].msg]
  <2>1. ASSUME NEW i \in DOMAIN inbox'[e]
        PROVE  inbox'[e][i].n <= delivered'[inbox'[e][i].msg]
    <3>1. PICK d \in Delivery : d = inbox'[e][i]
      BY <1>0, ElementOfSeq, LenProperties
    <3>2. Known(e, d)'
      BY <3>1 DEF Known
    <3> QED  BY <1>1, <3>1, <3>2
  <2>2. ASSUME NEW i \in DOMAIN group'[e]
        PROVE  group'[e][i].n <= delivered'[group'[e][i].msg]
    <3>1. PICK d \in Delivery : d = group'[e][i]
      BY <1>0, ElementOfSeq, LenProperties
    <3>2. Known(e, d)'
      BY <3>1 DEF Known
    <3> QED  BY <1>1, <3>1, <3>2
  <2>3. ASSUME item'[e] # None
        PROVE  item'[e].n <= delivered'[item'[e].msg]
    <3>1. PICK d \in Delivery : d = item'[e]
      BY <1>0, <2>3
    <3>2. Known(e, d)'
      BY <2>3, <3>1 DEF Known
    <3> QED  BY <1>1, <3>1, <3>2
  <2> QED  BY <2>1, <2>2, <2>3
<1>3. \A m \in Messages : jstate'[m] = "ready" => delivered'[m] < MaxDeliver
  BY DEF Outside
<1> QED  BY <1>2, <1>3 DEF Counts

\* An engine that did not move still has what its place says.
LEMMA AtWorkKept ==
  ASSUME Outside, NEW e \in Engines, AtWork(e),
         epc'[e] = epc[e], group'[e] = group[e], item'[e] = item[e]
  PROVE  AtWork(e)'
<1>1. stored \subseteq stored' /\ dlq \subseteq dlq'
  BY DEF Outside
<1> QED  BY <1>1 DEF AtWork, Refused, LastDelivery

LEMMA WorkingStep ==
  ASSUME IInv, Outside, [Next]_vars
  PROVE  Working'
<1>0. /\ epc \in [Engines -> Places]
      /\ inbox \in [Engines -> Seq(Delivery)] /\ group \in [Engines -> Seq(Delivery)]
      /\ item \in [Engines -> Delivery \cup {None}]
      /\ stored \subseteq stored' /\ dlq \subseteq dlq'
      /\ \A e \in Engines : AtWork(e)
  BY DEF IInv, TypeOK, Working, Outside
<1>1. ASSUME UNCHANGED <<epc, group, item>>
      PROVE  Working'
  BY <1>0, <1>1, AtWorkKept DEF Working
\* It is enough to look at the engine that moved.
<1>2. ASSUME NEW e \in Engines, AtWork(e)',
             \A f \in Engines \ {e} :
               epc'[f] = epc[f] /\ group'[f] = group[f] /\ item'[f] = item[f]
      PROVE  Working'
  <2>1. ASSUME NEW f \in Engines
        PROVE  AtWork(f)'
    <3>1. CASE f = e
      BY <1>2, <3>1
    <3>2. CASE f # e
      BY <1>0, <1>2, <3>2, AtWorkKept
    <3> QED  BY <3>1, <3>2
  <2> QED  BY <2>1 DEF Working
<1>3. ASSUME NEW e \in Engines, EngineStep(e)
      PROVE  Working'
  <2>0. AtWork(e)
    BY <1>0
  <2>1. CASE Fetch(e) \/ RangeEnds(e) \/ WriteError(e) \/ GroupDone(e)
    <3>1. /\ epc'[e] \in {"idle", "range", "write", "reject"}
          /\ \A f \in Engines \ {e} : epc'[f] = epc[f]
      BY <1>0, <2>1 DEF Fetch, RangeEnds, WriteError, GroupDone, Goto
    <3>2. \A f \in Engines \ {e} : group'[f] = group[f] /\ item'[f] = item[f]
      BY <1>0, <2>1 DEF Fetch, RangeEnds, WriteError, GroupDone, Join, groupVars
    <3>3. AtWork(e)'
      BY <3>1 DEF AtWork
    <3> QED  BY <1>2, <3>1, <3>2, <3>3
  <2>2. CASE NextMessage(e)
    <3> DEFINE d == Head(inbox[e])
    <3>1. d \in Delivery /\ d # None
      BY <1>0, <2>2, HeadTail, DeliveryType DEF NextMessage
    <3>2. \A f \in Engines \ {e} :
            epc'[f] = epc[f] /\ group'[f] = group[f] /\ item'[f] = item[f]
      BY <1>0, <2>2 DEF NextMessage, Goto, Join, groupVars
    <3>3. \/ epc'[e] = "badPublish" /\ Refused(d.msg) /\ item'[e] = d
          \/ epc'[e] \in {"write", "range"}
      BY <1>0, <2>2 DEF NextMessage, Goto
    <3>4. AtWork(e)'
      BY <3>1, <3>3 DEF AtWork, Refused
    <3> QED  BY <1>2, <3>2, <3>4
  <2>3. CASE WriteOK(e)
    <3>1. /\ epc' = [epc EXCEPT ![e] = "ack"] /\ UNCHANGED <<group, item>>
          /\ stored' = stored \cup InGroup(e)
      BY <2>3 DEF WriteOK, Goto, groupVars
    <3>2. \A i \in DOMAIN group[e] : group[e][i].msg \in InGroup(e)
      BY DEF InGroup, Range
    <3>3. AtWork(e)'
      BY <1>0, <3>1, <3>2 DEF AtWork
    <3> QED  BY <1>0, <1>2, <3>1, <3>3
  <2>4. CASE DoubleAck(e)
    <3>1. /\ epc[e] = "ack" /\ group[e] # <<>> /\ UNCHANGED <<epc, item>>
          /\ group' = [group EXCEPT ![e] = Tail(group[e])]
      BY <2>4 DEF DoubleAck, Pop
    <3>2. \A i \in DOMAIN Tail(group[e]) :
            i + 1 \in DOMAIN group[e] /\ Tail(group[e])[i] = group[e][i + 1]
      BY <1>0, <3>1, HeadTail
    <3>3. AtWork(e)'
      BY <1>0, <2>0, <3>1, <3>2 DEF AtWork
    <3> QED  BY <1>0, <1>2, <3>1, <3>3
  <2>5. CASE Reject(e)
    <3>1. \/ /\ LastDelivery(group[e][1]) /\ group[e] # <<>>
             /\ epc' = [epc EXCEPT ![e] = "lastPublish"] /\ UNCHANGED group
          \/ /\ epc[e] = "reject" /\ UNCHANGED epc
             /\ group' = [group EXCEPT ![e] = Tail(group[e])]
      BY <1>0, <2>5, HeadTail DEF Reject, Goto, Pop
    <3>2. UNCHANGED item
      BY <2>5 DEF Reject
    <3>3. AtWork(e)'
      BY <1>0, <3>1 DEF AtWork, LastDelivery
    <3> QED  BY <1>0, <1>2, <3>1, <3>2, <3>3
  <2>6. CASE DeadPublishOK(e)
    <3>1. /\ UNCHANGED <<group, item>>
          /\ dlq' = dlq \cup {DeadLetter(e).msg}
          /\ \/ /\ epc[e] = "badPublish" /\ epc' = [epc EXCEPT ![e] = "badAck"]
                /\ DeadLetter(e) = item[e]
             \/ /\ epc[e] = "lastPublish" /\ epc' = [epc EXCEPT ![e] = "lastAck"]
                /\ DeadLetter(e) = Head(group[e])
      BY <2>6 DEF DeadPublishOK, Goto, groupVars, DeadLetter
    <3>2. group[e] # <<>> => Head(group[e]) = group[e][1]
      BY <1>0, HeadTail
    <3>3. AtWork(e)'
      BY <1>0, <2>0, <3>1, <3>2 DEF AtWork, Refused, LastDelivery
    <3> QED  BY <1>0, <1>2, <3>1, <3>3
  <2>7. CASE DeadPublishError(e) \/ DeadAck(e)
    <3>1. /\ epc'[e] \in {"range", "reject"}
          /\ \A f \in Engines \ {e} :
               epc'[f] = epc[f] /\ group'[f] = group[f] /\ item'[f] = item[f]
      BY <1>0, <2>7 DEF DeadPublishError, DeadAck, Back, Goto, Pop
    <3>2. AtWork(e)'
      BY <3>1 DEF AtWork
    <3> QED  BY <1>2, <3>1, <3>2
  <2> QED  BY <1>3, <2>1, <2>2, <2>3, <2>4, <2>5, <2>6, <2>7 DEF EngineStep
<1>4. ASSUME NEW e \in Engines, Crash(e)
      PROVE  Working'
  <2>1. /\ epc'[e] = "idle"
        /\ \A f \in Engines \ {e} :
             epc'[f] = epc[f] /\ group'[f] = group[f] /\ item'[f] = item[f]
    BY <1>0, <1>4 DEF Crash, Goto
  <2>2. AtWork(e)'
    BY <2>1 DEF AtWork
  <2> QED  BY <1>2, <2>1, <2>2
<1>5. CASE (\E e \in Engines, m \in Messages : Deliver(e, m))
           \/ (\E m \in Messages : AckWaitExpires(m)) \/ UNCHANGED vars
  BY <1>1, <1>5 DEF Deliver, AckWaitExpires, vars, groupVars
<1> QED  BY <1>3, <1>4, <1>5 DEF Next

\* Only an engine that is done with a message acknowledges it.
LEMMA AckedStep ==
  ASSUME IInv, Outside
  PROVE  AckedIsSafe'
<1> SUFFICES ASSUME NEW m \in Messages, jstate'[m] = "acked"
             PROVE  m \in stored' \cup dlq'
  BY DEF AckedIsSafe
<1>1. stored \subseteq stored' /\ dlq \subseteq dlq'
  BY DEF Outside
<1>2. CASE jstate[m] = "acked"
  BY <1>1, <1>2 DEF IInv, AckedIsSafe
<1>3. ASSUME NEW e \in Engines, Acknowledges(e, m)
      PROVE  m \in stored \cup dlq
  <2>1. AtWork(e) /\ group[e] \in Seq(Delivery)
    BY DEF IInv, Working, TypeOK
  <2>2. group[e] # <<>> => 1 \in DOMAIN group[e]
    BY <2>1, HeadTail
  <2> QED  BY <1>3, <2>1, <2>2 DEF Acknowledges, AtWork
<1> QED  BY <1>1, <1>2, <1>3 DEF Outside

\* Only a refused message, or one on its last delivery, is dead-lettered.
LEMMA DeadStep ==
  ASSUME IInv, Outside
  PROVE  DeadOnlyWhenDue'
<1>0. /\ delivered \in [Messages -> 0 .. MaxDeliver]
      /\ delivered' \in [Messages -> 0 .. MaxDeliver]
      /\ \A m \in Messages : delivered[m] <= delivered'[m]
      /\ MaxDeliver \in Nat /\ MaxDeliveries \in Nat
      /\ dlq' \subseteq Messages
  BY ConstantsAssumption DEF IInv, TypeOK, Outside
<1> SUFFICES ASSUME NEW m \in dlq'
             PROVE  Refused(m) \/ delivered'[m] >= MaxDeliveries
  BY DEF DeadOnlyWhenDue, Refused
<1>1. Refused(m) \/ delivered[m] >= MaxDeliveries
  <2>1. CASE m \in dlq
    BY <2>1 DEF IInv, DeadOnlyWhenDue
  <2>2. ASSUME NEW e \in Engines, Buries(e, m)
        PROVE  Refused(m) \/ delivered[m] >= MaxDeliveries
    <3>1. AtWork(e) /\ group[e] \in Seq(Delivery)
      BY DEF IInv, Working, TypeOK
    <3>2. CASE epc[e] = "lastPublish" /\ m = group[e][1].msg
      <4>1. group[e] # <<>> /\ group[e][1].n >= MaxDeliveries
        BY <3>1, <3>2 DEF AtWork, LastDelivery
      <4>2. 1 \in DOMAIN group[e] /\ group[e][1] \in Delivery
        BY <3>1, <4>1, HeadTail
      <4>3. group[e][1].n <= delivered[m] /\ group[e][1].n \in Nat
        BY <1>0, <3>2, <4>2, DeliveryType DEF IInv, Counts
      <4>4. delivered[m] \in Nat
        BY <1>0
      <4> QED  BY <1>0, <4>1, <4>3, <4>4
    <3>3. CASE epc[e] = "badPublish" /\ m = item[e].msg
      BY <3>1, <3>3 DEF AtWork
    <3> QED  BY <2>2, <3>2, <3>3 DEF Buries
  <2> QED  BY <2>1, <2>2 DEF Outside
<1>2. delivered[m] \in Nat /\ delivered'[m] \in Nat /\ delivered[m] <= delivered'[m]
  BY <1>0
<1> QED  BY <1>0, <1>1, <1>2

LEMMA InitIInv == Init => IInv
<1> SUFFICES ASSUME Init
             PROVE  IInv
  OBVIOUS
<1>1. <<>> \in Seq(Delivery) /\ DOMAIN <<>> = {}
  OBVIOUS
<1>2. 0 \in 0 .. MaxDeliver /\ 0 < MaxDeliver /\ 0 \in 0 .. MaxMessages
  BY ConstantsAssumption
<1>3. TypeOK
  BY <1>1, <1>2 DEF Init, TypeOK, Places
<1>4. Counts /\ Working
  BY <1>1, <1>2 DEF Init, Counts, Working, AtWork
<1>5. AckedIsSafe /\ DeadOnlyWhenDue
  BY DEF Init, AckedIsSafe, DeadOnlyWhenDue
<1> QED  BY <1>3, <1>4, <1>5 DEF IInv

LEMMA NextIInv == IInv /\ [Next]_vars => IInv'
<1> SUFFICES ASSUME IInv, [Next]_vars
             PROVE  IInv'
  OBVIOUS
<1>1. Outside /\ Within
  BY OutsideStep, WithinStep
<1>2. TypeOK'
  BY <1>1 DEF TypeOK, Outside, Within, Places
<1>3. Counts' /\ Working' /\ AckedIsSafe' /\ DeadOnlyWhenDue'
  BY <1>1, CountsStep, WorkingStep, AckedStep, DeadStep
<1> QED  BY <1>2, <1>3 DEF IInv

-----------------------------------------------------------------------------
\* The theorems.

\* The inductive invariant holds throughout.
THEOREM Invariant == Spec => []IInv
BY InitIInv, NextIInv, PTL DEF Spec

\* The variables of the consumer, the store and the engines keep their types: Run
\* never takes the head of an empty group, and no message is delivered more often
\* than MaxDeliver.
THEOREM IngestorTypes == Spec => []TypeOK
<1>1. IInv => TypeOK
  BY DEF IInv
<1> QED  BY <1>1, Invariant, PTL

\* Run, write, reject and deadLetter acknowledge a message only when its events are
\* stored or it is in the dead-letter stream, with any number of engines on the
\* consumer and under every combination of the faults.
THEOREM AckOnlyWhenSafe == Spec => []AckedIsSafe
<1>1. IInv => AckedIsSafe
  BY DEF IInv
<1> QED  BY <1>1, Invariant, PTL

\* A message that decode accepts is dead-lettered by reject only after it has been
\* delivered MaxDeliveries times.
THEOREM RetriesBeforeBurying == Spec => []DeadOnlyWhenDue
<1>1. IInv => DeadOnlyWhenDue
  BY DEF IInv
<1> QED  BY <1>1, Invariant, PTL
-----------------------------------------------------------------------------
\* What a group adds up to.

\* The least-number principle, from the well-foundedness of < on the naturals.
LEMMA LeastNatural ==
  ASSUME NEW T \in SUBSET Nat, T # {}
  PROVE  \E n \in T : \A m \in T : n <= m
<1> DEFINE R == OpToRel(<, Nat)
<1>1. IsWellFoundedOn(R, Nat)
  BY NatLessThanWellFounded
<1> HIDE DEF R
<1>2. PICK x \in T : \A y \in T : ~ (<<y, x>> \in R)
  BY <1>1, WFMin
<1>3. \A y \in T : y < x => <<y, x>> \in R
  BY DEF R, OpToRel
<1>4. \A y \in T : ~(y < x)
  BY Zenon, <1>2, <1>3
<1>5. \A y \in T : y \in Nat
  OBVIOUS
<1>6. \A y \in T : x <= y
  BY <1>4, <1>5
<1> QED  BY <1>6

\* g holds the sums of the first 0, 1, ..., n members of s.
IsSum(g, f, s, n) ==
  /\ g \in [0 .. n -> Nat]
  /\ g[0] = 0
  /\ \A i \in 1 .. n : g[i] = g[i - 1] + f[s[i].msg]

\* One more member: the sums before it stay, its own is added to the last.
LEMMA SumExtends ==
  ASSUME NEW f, NEW s, NEW n \in Nat, f[s[n + 1].msg] \in Nat, NEW g, IsSum(g, f, s, n)
  PROVE  IsSum([i \in 0 .. (n + 1) |-> IF i = n + 1 THEN g[n] + f[s[n + 1].msg] ELSE g[i]],
               f, s, n + 1)
<1> DEFINE c == f[s[n + 1].msg]
           h == [i \in 0 .. (n + 1) |-> IF i = n + 1 THEN g[n] + c ELSE g[i]]
<1>1. g \in [0 .. n -> Nat] /\ g[0] = 0
  BY DEF IsSum
<1>2. \A i \in 0 .. (n + 1) : i = n + 1 \/ i \in 0 .. n
  OBVIOUS
<1>3. n \in 0 .. n /\ g[n] \in Nat /\ g[n] + c \in Nat
  BY <1>1
<1>4. h \in [0 .. (n + 1) -> Nat]
  BY <1>1, <1>2, <1>3
<1>5. h[0] = 0 /\ h[n + 1] = g[n] + c /\ \A i \in 0 .. n : h[i] = g[i]
  BY <1>1
<1> HIDE DEF h
<1>6. ASSUME NEW i \in 1 .. (n + 1)
      PROVE  h[i] = h[i - 1] + f[s[i].msg]
  <2>1. CASE i = n + 1
    <3>1. i - 1 = n
      BY <2>1
    <3> QED  BY <1>3, <1>5, <2>1, <3>1
  <2>2. CASE i # n + 1
    <3>1. i \in 1 .. n /\ i \in 0 .. n /\ i - 1 \in 0 .. n
      BY <2>2
    <3>2. g[i] = g[i - 1] + f[s[i].msg]
      BY <3>1 DEF IsSum
    <3> QED  BY <1>5, <3>1, <3>2
  <2> QED  BY <2>1, <2>2
<1>7. IsSum(h, f, s, n + 1)
  BY <1>4, <1>5, <1>6 DEF IsSum
<1> QED  BY <1>7 DEF h

LEMMA CountOf ==
  ASSUME NEW f \in [Messages -> Nat], NEW s \in Seq(Delivery)
  PROVE  Len(s) \in Nat /\ \A i \in 1 .. Len(s) : f[s[i].msg] \in Nat
<1>1. Len(s) \in Nat /\ \A i \in 1 .. Len(s) : s[i] \in Delivery
  BY LenProperties, ElementOfSeq
<1> QED  BY <1>1, DeliveryType

\* The sums exist, by induction on the number of members.
LEMMA SumExists ==
  ASSUME NEW f \in [Messages -> Nat], NEW s \in Seq(Delivery)
  PROVE  \E g : IsSum(g, f, s, Len(s))
<1> DEFINE Bad == {n \in Nat : n <= Len(s) /\ ~\E g : IsSum(g, f, s, n)}
<1>1. Len(s) \in Nat /\ Len(s) <= Len(s) /\ \A i \in 1 .. Len(s) : f[s[i].msg] \in Nat
  BY CountOf
<1>2. SUFFICES ASSUME Bad # {} PROVE FALSE
  BY <1>1
<1>3. PICK n \in Bad : \A m \in Bad : n <= m
  <2>1. Bad \in SUBSET Nat
    OBVIOUS
  <2> HIDE DEF Bad
  <2> QED  BY <1>2, <2>1, LeastNatural
<1>4. n \in Nat /\ n <= Len(s) /\ ~\E g : IsSum(g, f, s, n)
  OBVIOUS
<1>5. CASE n = 0
  <2>1. IsSum([i \in 0 .. 0 |-> 0], f, s, 0)
    BY DEF IsSum
  <2> QED  BY Zenon, <1>4, <1>5, <2>1
<1>6. CASE n # 0
  <2> DEFINE k == n - 1
  <2>1. k \in Nat /\ k <= Len(s) /\ k + 1 = n /\ n \in 1 .. Len(s) /\ ~(n <= k)
    BY <1>1, <1>4, <1>6
  <2> HIDE DEF k
  <2>2. k \notin Bad
    BY <1>3, <2>1
  <2>3. PICK g : IsSum(g, f, s, k)
    BY Zenon, <2>1, <2>2
  <2>4. f[s[k + 1].msg] \in Nat
    BY Zenon, <1>1, <2>1
  <2>5. \E h : IsSum(h, f, s, k + 1)
    BY <2>1, <2>3, <2>4, SumExtends
  <2> QED  BY Zenon, <1>4, <2>1, <2>5
<1> QED  BY <1>5, <1>6

\* Total is the last of the sums.
LEMMA TotalIsSum ==
  ASSUME NEW f \in [Messages -> Nat], NEW s \in Seq(Delivery), NEW g, IsSum(g, f, s, Len(s))
  PROVE  Total(f, s) = g[Len(s)] /\ Total(f, s) \in Nat
<1> DEFINE n == Len(s)
           Eqn(h) == h = [i \in 0 .. n |-> IF i = 0 THEN 0 ELSE h[i - 1] + f[s[i].msg]]
           sum == CHOOSE h : Eqn(h)
<1>1. n \in Nat /\ \A i \in 1 .. n : f[s[i].msg] \in Nat
  BY CountOf
<1> HIDE DEF n
<1>2. Eqn(g)
  <2>1. /\ g \in [0 .. n -> Nat] /\ g[0] = 0
        /\ \A i \in 1 .. n : g[i] = g[i - 1] + f[s[i].msg]
    BY Zenon DEF IsSum, n
  <2>2. \A i \in 0 .. n : i = 0 \/ i \in 1 .. n
    BY <1>1
  <2>3. \A i \in 0 .. n : g[i] = IF i = 0 THEN 0 ELSE g[i - 1] + f[s[i].msg]
    BY Zenon, <2>1, <2>2
  <2> QED  BY <2>1, <2>3
<1>3. Eqn(sum)
  BY Zenon, <1>2
<1>4. Total(f, s) = sum[n]
  BY Zenon DEF Total, n
<1> HIDE DEF sum
<1>5. \A i \in 0 .. n : sum[i] = g[i]
  <2> DEFINE Bad == {m \in Nat : m <= n /\ sum[m] # g[m]}
  <2>1. \A i \in 0 .. n : i \in Nat /\ i <= n
    BY <1>1
  <2>2. SUFFICES ASSUME Bad # {} PROVE FALSE
    BY Zenon, <2>1
  <2>3. PICK m \in Bad : \A k \in Bad : m <= k
    <3>1. Bad \in SUBSET Nat
      OBVIOUS
    <3> HIDE DEF Bad
    <3> QED  BY <2>2, <3>1, LeastNatural
  <2>4. m \in 0 .. n /\ sum[m] # g[m]
    BY <1>1
  <2> DEFINE k == m - 1
  <2>5. m # 0 => k \in Nat /\ k <= n /\ ~(m <= k)
    BY <1>1, <2>4
  <2>6. /\ sum[m] = IF m = 0 THEN 0 ELSE sum[k] + f[s[m].msg]
        /\ g[m] = IF m = 0 THEN 0 ELSE g[k] + f[s[m].msg]
    BY Zenon, <1>2, <1>3, <2>4
  <2> HIDE DEF k
  <2>7. m # 0 => sum[k] = g[k]
    <3>1. m # 0 => k \notin Bad
      BY <2>3, <2>5
    <3> QED  BY Zenon, <2>5, <3>1
  <2> QED  BY Zenon, <2>4, <2>6, <2>7
<1>6. n \in 0 .. n /\ g[n] \in Nat
  <2>1. n \in 0 .. n /\ g \in [0 .. n -> Nat]
    BY <1>1 DEF IsSum, n
  <2> QED  BY <2>1
<1> QED  BY Zenon, <1>4, <1>5, <1>6 DEF n

LEMMA TotalEmpty ==
  ASSUME NEW f \in [Messages -> Nat]
  PROVE  Total(f, <<>>) = 0
<1>1. <<>> \in Seq(Delivery) /\ Len(<<>>) = 0
  OBVIOUS
<1>2. PICK g : IsSum(g, f, <<>>, Len(<<>>))
  BY <1>1, SumExists
<1>3. Total(f, <<>>) = g[Len(<<>>)]
  BY <1>1, <1>2, TotalIsSum
<1>4. g[0] = 0
  BY Zenon, <1>2 DEF IsSum
<1> QED  BY Zenon, <1>1, <1>3, <1>4

\* group = append(group, item) raises a total by what the item counts.
LEMMA TotalAppend ==
  ASSUME NEW f \in [Messages -> Nat], NEW s \in Seq(Delivery), NEW d \in Delivery
  PROVE  Total(f, Append(s, d)) = Total(f, s) + f[d.msg] /\ Total(f, s) \in Nat
<1> DEFINE n == Len(s)
           t == Append(s, d)
<1>1. /\ t \in Seq(Delivery) /\ Len(t) = n + 1 /\ n \in Nat
      /\ \A i \in 1 .. n : t[i] = s[i]
      /\ t[n + 1] = d
  BY AppendProperties, LenProperties
<1>2. f[d.msg] \in Nat
  BY DeliveryType
<1>3. PICK g : IsSum(g, f, s, n)
  BY SumExists
<1>4. Total(f, s) = g[n] /\ Total(f, s) \in Nat
  BY <1>3, TotalIsSum
<1> HIDE DEF n, t
<1>5. IsSum(g, f, t, n)
  <2>1. \A i \in 1 .. n : g[i] = g[i - 1] + f[t[i].msg]
    BY Zenon, <1>1, <1>3 DEF IsSum
  <2> QED  BY Zenon, <1>3, <2>1 DEF IsSum
<1> DEFINE h == [i \in 0 .. (n + 1) |-> IF i = n + 1 THEN g[n] + f[t[n + 1].msg] ELSE g[i]]
<1>6. f[t[n + 1].msg] \in Nat
  BY Zenon, <1>1, <1>2
<1>7. IsSum(h, f, t, n + 1)
  BY <1>1, <1>5, <1>6, SumExtends
<1>8. n + 1 \in 0 .. (n + 1)
  BY <1>1
<1>9. h[n + 1] = g[n] + f[t[n + 1].msg]
  BY Zenon, <1>8
<1> HIDE DEF h
<1>10. Total(f, t) = h[n + 1]
  <2>1. IsSum(h, f, t, Len(t))
    BY Zenon, <1>1, <1>7
  <2>2. Total(f, t) = h[Len(t)]
    BY <1>1, <2>1, TotalIsSum
  <2> QED  BY Zenon, <1>1, <2>2
<1>11. Total(f, t) = g[n] + f[d.msg]
  BY Zenon, <1>1, <1>9, <1>10
<1> QED  BY Zenon, <1>4, <1>11 DEF t

-----------------------------------------------------------------------------
\* Groups within their limits.

Filling == {"range", "badPublish", "badAck", "write"}

\* From the fetch to the write, events and bytes are what the group adds up to, and they
\* are within the limits unless the group is a single message.
SumAt(e) ==
  epc[e] \in Filling =>
    /\ events[e] = Total(EventsIn, group[e]) /\ bytes[e] = Total(BytesIn, group[e])
    /\ Len(group[e]) = 1 \/ (events[e] <= MaxEvents /\ bytes[e] <= MaxBytes)

Sums == \A e \in Engines : SumAt(e)

LEMMA Counting ==
  /\ EventsIn \in [Messages -> Nat] /\ BytesIn \in [Messages -> Nat]
  /\ MaxEvents \in Nat /\ MaxBytes \in Nat
BY ConstantsAssumption

LEMMA SumAtKept ==
  ASSUME NEW e \in Engines, SumAt(e), epc'[e] \in Filling => epc[e] \in Filling,
         group'[e] = group[e], events'[e] = events[e], bytes'[e] = bytes[e]
  PROVE  SumAt(e)'
BY Zenon DEF SumAt

\* A fresh group, and one that an item joins.
LEMMA EmptySum ==
  ASSUME NEW e \in Engines, group'[e] = <<>>, events'[e] = 0, bytes'[e] = 0
  PROVE  SumAt(e)'
<1>1. Total(EventsIn, <<>>) = 0 /\ Total(BytesIn, <<>>) = 0
  BY Counting, TotalEmpty
<1>2. 0 <= MaxEvents /\ 0 <= MaxBytes
  BY Counting
<1> QED  BY Zenon, <1>1, <1>2 DEF SumAt

LEMMA JoinSum ==
  ASSUME TypeOK, NEW e \in Engines, NEW d \in Delivery, NEW old, Join(e, old, d),
         old.group \in Seq(Delivery),
         old.events = Total(EventsIn, old.group), old.bytes = Total(BytesIn, old.group),
         \/ old.group = <<>>
         \/ /\ old.events + EventsIn[d.msg] <= MaxEvents
            /\ old.bytes + BytesIn[d.msg] <= MaxBytes
  PROVE  SumAt(e)'
<1>1. /\ group'[e] = Append(old.group, d)
      /\ events'[e] = old.events + EventsIn[d.msg]
      /\ bytes'[e] = old.bytes + BytesIn[d.msg]
  BY DEF Join, TypeOK
<1>2. /\ Total(EventsIn, Append(old.group, d)) = old.events + EventsIn[d.msg]
      /\ Total(BytesIn, Append(old.group, d)) = old.bytes + BytesIn[d.msg]
  BY Counting, TotalAppend
<1>3. old.group = <<>> => Len(Append(old.group, d)) = 1
  <2>1. Len(Append(<<>>, d)) = 1
    OBVIOUS
  <2> QED  BY Zenon, <2>1
<1> QED  BY Zenon, <1>1, <1>2, <1>3 DEF SumAt

LEMMA SumsStep ==
  ASSUME TypeOK, Sums, [Next]_vars
  PROVE  Sums'
<1>0. /\ epc \in [Engines -> Places] /\ group \in [Engines -> Seq(Delivery)]
      /\ inbox \in [Engines -> Seq(Delivery)] /\ item \in [Engines -> Delivery \cup {None}]
      /\ events \in [Engines -> Nat] /\ bytes \in [Engines -> Nat]
  BY DEF TypeOK
<1>1. CASE UNCHANGED <<epc, group, events, bytes>>
  BY Zenon, <1>1, SumAtKept DEF Sums
<1>2. ASSUME NEW e \in Engines, EngineStep(e) \/ Crash(e)
      PROVE  Sums'
  <2>1. ASSUME NEW f \in Engines, f # e
        PROVE  SumAt(f)'
    <3>1. epc'[f] = epc[f]
      <4>1. UNCHANGED epc \/ \E place : Goto(e, place)
        BY Zenon, <1>2 DEF EngineStep, Fetch, NextMessage, RangeEnds, WriteOK, WriteError,
             DoubleAck, GroupDone, Reject, DeadPublishOK, DeadPublishError, DeadAck, Back, Crash
      <4> QED  BY <1>0, <2>1, <4>1 DEF Goto
    <3>2. group'[f] = group[f]
      <4>1. UNCHANGED group \/ \E x : group' = [group EXCEPT ![e] = x]
        BY Zenon, <1>2 DEF EngineStep, Fetch, NextMessage, RangeEnds, WriteOK, WriteError,
             DoubleAck, GroupDone, Reject, DeadPublishOK, DeadPublishError, DeadAck, Back, Crash,
             Join, Pop, groupVars
      <4> QED  BY <1>0, <2>1, <4>1
    <3>3. events'[f] = events[f] /\ bytes'[f] = bytes[f]
      <4>1. \/ UNCHANGED <<events, bytes>>
            \/ \E x, y : events' = [events EXCEPT ![e] = x] /\ bytes' = [bytes EXCEPT ![e] = y]
        BY Zenon, <1>2 DEF EngineStep, Fetch, NextMessage, RangeEnds, WriteOK, WriteError,
             DoubleAck, GroupDone, Reject, DeadPublishOK, DeadPublishError, DeadAck, Crash,
             Join, groupVars
      <4> QED  BY <1>0, <2>1, <4>1
    <3> QED  BY <3>1, <3>2, <3>3, SumAtKept DEF Sums
  <2>2. SumAt(e)'
    <3>0. SumAt(e)
      BY DEF Sums
    <3>1. CASE Fetch(e) \/ Crash(e)
      <4>1. group'[e] = <<>> /\ events'[e] = 0 /\ bytes'[e] = 0
        BY <1>0, <3>1 DEF Fetch, Crash
      <4> QED  BY <4>1, EmptySum
    <3>2. CASE NextMessage(e)
      <4> DEFINE d == Head(inbox[e])
      <4>1. epc[e] = "range" /\ d \in Delivery
        BY <1>0, <3>2, HeadTail DEF NextMessage
      <4>2. CASE UNCHANGED groupVars
        <5>1. epc[e] \in Filling
          BY <4>1 DEF Filling
        <5> QED  BY Zenon, <3>0, <4>2, <5>1, SumAtKept DEF groupVars
      <4>3. CASE Join(e, Current(e), d) /\ ~Overflows(e, d.msg)
        <5>1. /\ Current(e).group = group[e] /\ Current(e).events = events[e]
              /\ Current(e).bytes = bytes[e] /\ group[e] \in Seq(Delivery)
          BY <1>0 DEF Current
        <5>2. events[e] = Total(EventsIn, group[e]) /\ bytes[e] = Total(BytesIn, group[e])
          BY <3>0, <4>1 DEF SumAt, Filling
        <5>3. /\ events[e] \in Nat /\ bytes[e] \in Nat /\ MaxEvents \in Nat /\ MaxBytes \in Nat
              /\ EventsIn[d.msg] \in Nat /\ BytesIn[d.msg] \in Nat
          BY <1>0, <4>1, Counting, DeliveryType
        <5>4. \/ group[e] = <<>>
              \/ /\ events[e] + EventsIn[d.msg] <= MaxEvents
                 /\ bytes[e] + BytesIn[d.msg] <= MaxBytes
          BY <4>3, <5>3 DEF Overflows
        <5> HIDE DEF d
        <5> QED  BY <4>1, <4>3, <5>1, <5>2, <5>4, JoinSum
      <4> QED  BY Zenon, <3>2, <4>2, <4>3 DEF NextMessage
    <3>3. CASE RangeEnds(e)
      BY Zenon, <3>0, <3>3, SumAtKept DEF RangeEnds, groupVars, Filling
    <3>4. CASE WriteOK(e) \/ WriteError(e) \/ DoubleAck(e) \/ Reject(e)
      <4>1. epc'[e] \in {"ack", "reject", "lastPublish"}
        BY <1>0, <3>4 DEF WriteOK, WriteError, DoubleAck, Reject, Goto
      <4> QED  BY <4>1 DEF SumAt, Filling
    <3>5. CASE GroupDone(e)
      <4>1. CASE item[e] # None /\ Join(e, Empty, item[e])
        <5>1. item[e] \in Delivery
          BY <1>0, <4>1
        <5>2. /\ Empty.group = <<>> /\ Empty.events = 0 /\ Empty.bytes = 0
              /\ <<>> \in Seq(Delivery)
          BY DEF Empty
        <5>3. Total(EventsIn, <<>>) = 0 /\ Total(BytesIn, <<>>) = 0
          BY Counting, TotalEmpty
        <5> QED  BY <4>1, <5>1, <5>2, <5>3, JoinSum
      <4>2. CASE epc' = [epc EXCEPT ![e] = "idle"]
        BY <1>0, <4>2 DEF SumAt, Filling
      <4> QED  BY Zenon, <3>5, <4>1, <4>2 DEF GroupDone, Goto
    <3>6. CASE DeadPublishOK(e) \/ DeadPublishError(e) \/ DeadAck(e)
      <4>1. CASE epc[e] \in {"lastPublish", "lastAck"}
        <5>1. epc'[e] \in {"lastAck", "reject"}
          BY <1>0, <3>6, <4>1 DEF DeadPublishOK, DeadPublishError, DeadAck, Back, Goto
        <5> QED  BY <5>1 DEF SumAt, Filling
      <4>2. CASE epc[e] \in {"badPublish", "badAck"}
        <5>1. UNCHANGED <<group, events, bytes>> /\ epc[e] \in Filling
          BY <3>6, <4>2 DEF DeadPublishOK, DeadPublishError, DeadAck, Back, groupVars, Filling
        <5> QED  BY Zenon, <3>0, <5>1, SumAtKept
      <4> QED  BY <3>6, <4>1, <4>2 DEF DeadPublishOK, DeadPublishError, DeadAck
    <3> QED  BY Zenon, <1>2, <3>1, <3>2, <3>3, <3>4, <3>5, <3>6 DEF EngineStep
  <2> QED  BY <2>1, <2>2 DEF Sums
<1>3. \/ \E e \in Engines : EngineStep(e) \/ Crash(e)
      \/ UNCHANGED <<epc, group, events, bytes>>
  BY Zenon DEF Next, Deliver, AckWaitExpires, groupVars, vars
<1> QED  BY Zenon, <1>1, <1>2, <1>3

\* A batch is written within MaxEvents and MaxBytes, or is a single message, for all limits
\* and all sizes: the sums of Run stay those of its group when the group is written early,
\* refused, acknowledged message by message, or thrown away by a crash.
THEOREM GroupsWithinLimits == Spec => []GroupWithinLimits
<1>1. Init => Sums
  BY DEF Init, Sums, SumAt, Filling
<1>2. TypeOK /\ Sums /\ [Next]_vars => Sums'
  BY SumsStep
<1>3. TypeOK /\ Sums => GroupWithinLimits
  BY Zenon DEF Sums, SumAt, Filling, GroupWithinLimits
<1> QED  BY <1>1, <1>2, <1>3, IngestorTypes, PTL DEF Spec

=============================================================================
