---------------------------- MODULE WriterProofs ----------------------------
(***************************************************************************)
(* Proofs about the writer, for any sets of goroutines, any configurations *)
(* and any number of events and writers.                                   *)
(***************************************************************************)
EXTENDS Writer, FiniteSetTheorems, SequenceTheorems, TLAPS

-----------------------------------------------------------------------------
\* Type correctness.  TypeOK is inductive only together with what the place of a
\* goroutine says about its local variables.

Places ==
  /\ \A p \in Producers : pc[p] # "idle" => held[p] \in Writers /\ calls[p] < MaxLogs
  /\ \A c \in Callers : cpc[c] # "idle" => closing[c] \in Writers /\ mu = c

TypeInv == TypeOK /\ Places

LEMMA LoggingType ==
  ASSUME TypeInv, NEW p \in Producers, pc[p] # "idle"
  PROVE  Logging(p) \in Event
BY BoundsAssumption DEF TypeInv, TypeOK, Places, Logging, Event

LEMMA NormalizeType ==
  ASSUME NEW cfg \in Configs, ~Invalid(cfg)
  PROVE  NormalizeConfig(cfg) \in NormalConfig
BY BoundsAssumption, ConfigsAssumption
   DEF Invalid, NormalizeConfig, NormalConfig, Policies

LEMMA InitTypeInv == Init => TypeInv
BY SetsAssumption, BoundsAssumption
   DEF Init, TypeInv, TypeOK, Places, NormalConfig, Policies, RunPlaces, ProducerPlaces

LEMMA ReturnType ==
  ASSUME TypeOK, NEW p \in Producers, calls[p] < MaxLogs, Return(p)
  PROVE  /\ pc' \in [Producers -> ProducerPlaces]
         /\ held' \in [Producers -> Writers \cup {None}]
         /\ calls' \in [Producers -> 0 .. MaxLogs]
<1>1. /\ pc \in [Producers -> ProducerPlaces]
      /\ held \in [Producers -> Writers \cup {None}]
      /\ calls \in [Producers -> 0 .. MaxLogs]
  BY DEF TypeOK
<1>2. calls[p] + 1 \in 0 .. MaxLogs
  BY <1>1, BoundsAssumption
<1>3. pc' \in [Producers -> ProducerPlaces]
  BY <1>1 DEF Return, Goto, ProducerPlaces
<1>4. held' \in [Producers -> Writers \cup {None}]
  BY <1>1 DEF Return
<1>5. calls' \in [Producers -> 0 .. MaxLogs]
  BY <1>1, <1>2 DEF Return
<1> QED  BY <1>3, <1>4, <1>5

\* A producer that goes on or returns keeps its place; the callers are not concerned.
LEMMA MovePlaces ==
  ASSUME TypeOK, Places, NEW p \in Producers, UNCHANGED <<mu, cpc, closing>>,
         \/ pc[p] # "idle" /\ (\E place \in ProducerPlaces : Goto(p, place)) /\ UNCHANGED <<held, calls>>
         \/ Return(p)
  PROVE  Places'
<1>1. /\ pc \in [Producers -> ProducerPlaces]
      /\ held \in [Producers -> Writers \cup {None}]
      /\ calls \in [Producers -> 0 .. MaxLogs]
  BY DEF TypeOK
<1>2. \A c \in Callers : cpc'[c] # "idle" => closing'[c] \in Writers /\ mu' = c
  BY Zenon DEF Places
<1>3. ASSUME NEW q \in Producers, pc'[q] # "idle"
      PROVE  held'[q] \in Writers /\ calls'[q] < MaxLogs
  <2>1. CASE q # p
    <3>1. pc'[q] = pc[q] /\ held'[q] = held[q] /\ calls'[q] = calls[q]
      BY <1>1, <2>1 DEF Goto, Return
    <3> QED  BY Zenon, <1>3, <3>1 DEF Places
  <2>2. CASE q = p
    <3>1. pc[p] # "idle" /\ UNCHANGED <<held, calls>>
      BY <1>1, <1>3, <2>2 DEF Return, Goto
    <3> QED  BY Zenon, <2>2, <3>1 DEF Places
  <2> QED  BY <2>1, <2>2
<1> QED  BY Zenon, <1>2, <1>3 DEF Places

LEMMA LogTypeInv ==
  ASSUME TypeInv, NEW p \in Producers, LogLoad(p) \/ LogStep(p)
  PROVE  TypeInv'
<1> USE SetsAssumption, BoundsAssumption
    DEF ProducerPlaces, globalVars, writerVars, runVars, callerVars, counters, historyVars
<1>0. TypeOK /\ Places
  BY DEF TypeInv
<1>1. CASE LogLoad(p)
  <2>1. TypeOK'
    <3>1. CASE current = None
      <4>1. /\ calls[p] < MaxLogs /\ CountDropped /\ Return(p)
            /\ UNCHANGED <<globalVars, writerVars, runVars, callerVars, historyVars>>
        BY <1>1, <3>1 DEF LogLoad
      <4> QED  BY <1>0, <4>1, ReturnType DEF TypeOK, CountDropped
    <3>2. CASE current # None
      BY ZenonT(60), <1>0, <1>1, <3>2 DEF TypeOK, LogLoad, Goto
    <3> QED  BY <3>1, <3>2
  <2>2. Places'
    <3>1. CASE current = None
      BY <1>0, <1>1, <3>1 DEF TypeOK, Places, LogLoad, CountDropped, Return, Goto
    <3>2. CASE current # None
      BY <1>0, <1>1, <3>2 DEF TypeOK, Places, LogLoad, Goto
    <3> QED  BY <3>1, <3>2
  <2> QED  BY <2>1, <2>2 DEF TypeInv
<1>2. CASE LogCheck(p)
  <2>1. TypeOK'
    <3>1. CASE ~accepting[held[p]]
      <4>1. /\ pc[p] = "check" /\ CountDropped /\ Return(p)
            /\ UNCHANGED <<globalVars, writerVars, runVars, callerVars, historyVars>>
        BY <1>2, <3>1 DEF LogCheck
      <4>2. calls[p] < MaxLogs
        BY <1>0, <4>1 DEF Places
      <4> QED  BY <1>0, <4>1, <4>2, ReturnType DEF TypeOK, CountDropped
    <3>2. CASE accepting[held[p]]
      BY <1>0, <1>2, <3>2 DEF TypeOK, LogCheck, Goto
    <3> QED  BY <3>1, <3>2
  <2>2. Places'
    BY <1>0, <1>2, MovePlaces DEF LogCheck
  <2> QED  BY <2>1, <2>2 DEF TypeInv
<1>3. CASE EnqueueEnter(p)
  <2>1. TypeOK'
    BY SMTT(40), <1>0, <1>3 DEF TypeOK, Places, EnqueueEnter, Goto
  <2>2. Places'
    BY <1>0, <1>3, MovePlaces DEF EnqueueEnter
  <2> QED  BY <2>1, <2>2 DEF TypeInv
<1>4. CASE EnqueueRecheck(p)
  <2>1. TypeOK'
    <3>1. CASE ~accepting[held[p]]
      <4>1. /\ CountDropped /\ pc' = [pc EXCEPT ![p] = "leave"] /\ UNCHANGED <<held, calls>>
            /\ UNCHANGED <<globalVars, writerVars, runVars, callerVars, historyVars>>
        BY <1>4, <3>1 DEF EnqueueRecheck, Goto
      <4> QED  BY <1>0, <4>1 DEF TypeOK, CountDropped
    <3>2. CASE accepting[held[p]]
      BY <1>0, <1>4, <3>2 DEF TypeOK, EnqueueRecheck, Goto
    <3> QED  BY <3>1, <3>2
  <2>2. Places'
    BY <1>0, <1>4, MovePlaces DEF EnqueueRecheck
  <2> QED  BY <2>1, <2>2 DEF TypeInv
<1>5. CASE EnqueueCount(p)
  <2>1. TypeOK'
    BY <1>0, <1>5 DEF TypeOK, Places, EnqueueCount, Goto
  <2>2. Places'
    BY <1>0, <1>5, MovePlaces DEF EnqueueCount
  <2> QED  BY <2>1, <2>2 DEF TypeInv
<1>6. CASE EnqueueSend(p)
  <2>1. Logging(p) \in Event
    BY <1>6, LoggingType DEF EnqueueSend
  <2>2. TypeOK'
    <3>1. CASE Send(p)
      <4>1. /\ queue' \in [Writers -> Seq(Event)]
            /\ accepted' \in [Writers -> Seq(Event)]
        <5>1. held[p] \in Writers
          BY <1>0, <1>6 DEF Places, EnqueueSend
        <5>2. /\ queue \in [Writers -> Seq(Event)]
              /\ accepted \in [Writers -> Seq(Event)]
          BY <1>0 DEF TypeOK
        <5>3. /\ Append(queue[held[p]], Logging(p)) \in Seq(Event)
              /\ Append(accepted[held[p]], Logging(p)) \in Seq(Event)
          BY <2>1, <5>1, <5>2
        <5> QED  BY <3>1, <5>2, <5>3 DEF Send
      <4> QED  BY <1>0, <1>6, <3>1, <4>1 DEF TypeOK, EnqueueSend, Send, Goto
    <3>2. CASE TakeBack
      BY <1>0, <1>6, <3>2 DEF TypeOK, EnqueueSend, TakeBack, Goto
    <3> QED  BY <1>6, <3>1, <3>2 DEF EnqueueSend
  <2>3. Places'
    BY <1>0, <1>6, MovePlaces DEF EnqueueSend
  <2> QED  BY <2>2, <2>3 DEF TypeInv
<1>7. CASE EnqueueLeave(p)
  <2>1. TypeOK'
    BY SMTT(40), <1>0, <1>7 DEF TypeOK, Places, EnqueueLeave, Goto
  <2>2. Places'
    BY <1>0, <1>7, MovePlaces DEF EnqueueLeave
  <2> QED  BY <2>1, <2>2 DEF TypeInv
<1>8. CASE EnqueueWake(p)
  <2>1. TypeOK'
    <3>1. /\ pc[p] = "wake" /\ Return(p) /\ wake' = [wake EXCEPT ![held[p]] = TRUE]
          /\ UNCHANGED <<globalVars, accepting, inflight, queue, stop, runVars, callerVars>>
          /\ UNCHANGED <<counters, historyVars>>
      BY <1>8 DEF EnqueueWake
    <3>2. calls[p] < MaxLogs
      BY <1>0, <3>1 DEF Places
    <3> QED  BY <1>0, <3>1, <3>2, ReturnType DEF TypeOK
  <2>2. Places'
    BY <1>0, <1>8, MovePlaces DEF EnqueueWake
  <2> QED  BY <2>1, <2>2 DEF TypeInv
<1> QED  BY <1>1, <1>2, <1>3, <1>4, <1>5, <1>6, <1>7, <1>8 DEF LogStep

LEMMA RunTypeInv ==
  ASSUME TypeInv, NEW w \in Writers, RunStep(w) \/ SinkStep(w)
  PROVE  TypeInv'
<1> USE DEF RunPlaces, Publishing, globalVars, writerVars, runVars, producerVars,
            callerVars, counters, historyVars
<1>0. TypeOK /\ Places
  BY DEF TypeInv
<1>1. CASE RunReceive(w)
  <2>1. TypeOK'
    BY SMTT(40), <1>0, <1>1 DEF TypeOK, RunReceive, Receive, Run
  <2>2. Places'
    BY <1>0, <1>1 DEF TypeOK, Places, RunReceive, Receive, Run
  <2> QED  BY <2>1, <2>2 DEF TypeInv
<1>2. CASE RunTick(w)
  <2>1. TypeOK'
    BY <1>0, <1>2 DEF TypeOK, RunTick, Run
  <2>2. Places'
    BY <1>0, <1>2 DEF TypeOK, Places, RunTick, Run
  <2> QED  BY <2>1, <2>2 DEF TypeInv
<1>3. CASE RunStop(w)
  <2>1. TypeOK'
    BY <1>0, <1>3 DEF TypeOK, RunStop, Run
  <2>2. Places'
    BY <1>0, <1>3 DEF TypeOK, Places, RunStop, Run
  <2> QED  BY <2>1, <2>2 DEF TypeInv
<1>4. CASE RunWait(w)
  <2>1. TypeOK'
    BY <1>0, <1>4 DEF TypeOK, RunWait, Run
  <2>2. Places'
    BY <1>0, <1>4 DEF TypeOK, Places, RunWait, Run
  <2> QED  BY <2>1, <2>2 DEF TypeInv
<1>5. CASE RunWake(w)
  <2>1. TypeOK'
    BY <1>0, <1>5 DEF TypeOK, RunWake, Run
  <2>2. Places'
    BY <1>0, <1>5 DEF TypeOK, Places, RunWake, Run
  <2> QED  BY <2>1, <2>2 DEF TypeInv
<1>6. CASE RunDrain(w)
  <2>1. TypeOK'
    BY SMTT(40), <1>0, <1>6 DEF TypeOK, RunDrain, Receive, Run
  <2>2. Places'
    BY <1>0, <1>6 DEF TypeOK, Places, RunDrain, Receive, Run
  <2> QED  BY <2>1, <2>2 DEF TypeInv
<1>7. CASE RunDrained(w)
  <2>1. TypeOK'
    BY <1>0, <1>7 DEF TypeOK, RunDrained, Run
  <2>2. Places'
    BY <1>0, <1>7 DEF TypeOK, Places, RunDrained, Run
  <2> QED  BY <2>1, <2>2 DEF TypeInv
<1>8. CASE PublishOK(w)
  <2>1. TypeOK'
    BY SMTT(40), <1>0, <1>8 DEF TypeOK, PublishOK, BatchDone, AfterPublish
  <2>2. Places'
    BY <1>0, <1>8 DEF TypeOK, Places, PublishOK, BatchDone, AfterPublish
  <2> QED  BY <2>1, <2>2 DEF TypeInv
<1>9. CASE PublishError(w)
  <2>1. TypeOK'
    BY SMTT(40), <1>0, <1>9 DEF TypeOK, PublishError, BatchDone, AfterPublish, Range
  <2>2. Places'
    BY <1>0, <1>9 DEF TypeOK, Places, PublishError, BatchDone, AfterPublish, Range
  <2> QED  BY <2>1, <2>2 DEF TypeInv
<1>10. CASE RunClose(w)
  <2>1. TypeOK'
    BY <1>0, <1>10 DEF TypeOK, RunClose, Run
  <2>2. Places'
    BY <1>0, <1>10 DEF TypeOK, Places, RunClose, Run
  <2> QED  BY <2>1, <2>2 DEF TypeInv
<1> QED
  BY <1>1, <1>2, <1>3, <1>4, <1>5, <1>6, <1>7, <1>8, <1>9, <1>10 DEF RunStep, SinkStep

LEMMA CallerTypeInv ==
  ASSUME TypeInv, NEW c \in Callers,
         \/ \E cfg \in Configs, w \in Writers : InitWriter(c, cfg, w)
         \/ CloseSwap(c) \/ CloseStep(c)
  PROVE  TypeInv'
<1> USE SetsAssumption
    DEF RunPlaces, globalVars, writerVars, runVars, producerVars, callerVars, counters,
        historyVars
<1>0. TypeOK /\ Places
  BY DEF TypeInv
<1>1. ASSUME NEW cfg \in Configs, NEW w \in Writers, InitWriter(c, cfg, w)
      PROVE  TypeInv'
  <2>1. CASE current # None \/ Invalid(cfg)
    <3>1. TypeOK'
      BY <1>0, <1>1, <2>1 DEF TypeOK, InitWriter
    <3>2. Places'
      BY <1>0, <1>1, <2>1 DEF TypeOK, Places, InitWriter
    <3> QED  BY <3>1, <3>2 DEF TypeInv
  <2>2. CASE ~(current # None \/ Invalid(cfg))
    <3>1. NormalizeConfig(cfg) \in NormalConfig
      BY <2>2, NormalizeType
    <3>2. TypeOK'
      <4>1. /\ config' \in [Writers -> NormalConfig]
            /\ accepting' \in [Writers -> BOOLEAN]
            /\ current' \in Writers
            /\ rpc' \in [Writers -> RunPlaces]
        <5>1. /\ config \in [Writers -> NormalConfig]
              /\ accepting \in [Writers -> BOOLEAN]
              /\ rpc \in [Writers -> RunPlaces]
          BY <1>0 DEF TypeOK
        <5>2. /\ config' = [config EXCEPT ![w] = NormalizeConfig(cfg)]
              /\ accepting' = [accepting EXCEPT ![w] = TRUE]
              /\ current' = w
              /\ rpc' = [rpc EXCEPT ![w] = "select"]
          BY <1>1, <2>2 DEF InitWriter
        <5> QED  BY <3>1, <5>1, <5>2 DEF RunPlaces
      <4> QED  BY <1>0, <1>1, <4>1 DEF TypeOK, InitWriter
    <3>3. Places'
      BY <1>0, <1>1, <2>2 DEF TypeOK, Places, InitWriter
    <3> QED  BY <3>2, <3>3 DEF TypeInv
  <2> QED  BY <2>1, <2>2
<1>2. CASE CloseSwap(c)
  <2>1. TypeOK'
    BY <1>0, <1>2 DEF TypeOK, Places, CloseSwap
  <2>2. Places'
    BY <1>0, <1>2 DEF TypeOK, Places, CloseSwap
  <2> QED  BY <2>1, <2>2 DEF TypeInv
<1>3. CASE CloseRefuse(c)
  <2>1. TypeOK'
    BY <1>0, <1>3 DEF TypeOK, Places, CloseRefuse
  <2>2. Places'
    BY <1>0, <1>3 DEF TypeOK, Places, CloseRefuse
  <2> QED  BY <2>1, <2>2 DEF TypeInv
<1>4. CASE CloseStop(c)
  <2>1. TypeOK'
    BY <1>0, <1>4 DEF TypeOK, Places, CloseStop
  <2>2. Places'
    BY <1>0, <1>4 DEF TypeOK, Places, CloseStop
  <2> QED  BY <2>1, <2>2 DEF TypeInv
<1>5. CASE CloseReturn(c)
  <2>1. TypeOK'
    BY <1>0, <1>5 DEF TypeOK, Places, CloseReturn
  <2>2. Places'
    BY <1>0, <1>5 DEF TypeOK, Places, CloseReturn
  <2> QED  BY <2>1, <2>2 DEF TypeInv
<1> QED  BY <1>1, <1>2, <1>3, <1>4, <1>5 DEF CloseStep

LEMMA NextTypeInv == TypeInv /\ [Next]_vars => TypeInv'
<1> SUFFICES ASSUME TypeInv, [Next]_vars PROVE TypeInv'
  OBVIOUS
<1>1. CASE UNCHANGED vars
  BY <1>1 DEF TypeInv, TypeOK, Places, vars, globalVars, writerVars, runVars,
              producerVars, callerVars, counters, historyVars
<1>2. CASE Next
  BY <1>1, <1>2, LogTypeInv, RunTypeInv, CallerTypeInv DEF Next, Finished
<1> QED  BY <1>1, <1>2

\* Every variable of trail.go keeps its type.
THEOREM TypeCorrect == Spec => []TypeOK
<1>1. TypeInv => TypeOK
  BY DEF TypeInv
<1> QED  BY <1>1, InitTypeInv, NextTypeInv, PTL DEF Spec

-----------------------------------------------------------------------------
\* The shutdown handshake.  NothingStranded, OneLiveWriter and SinkOrder are not
\* inductive; the predicates below are, together with TypeInv.

\* The producers that w.inflight counts.
Inside(w) ==
  {p \in Producers : held[p] = w /\ pc[p] \in {"recheck", "count", "send", "leave"}}

Draining == {"drain", "drainPublish", "finalPublish", "close", "exit"}

InflightCounts == \A w \in Writers : inflight[w] = Cardinality(Inside(w))

\* Close withdraws accepting before it closes stop, and run looks at stop.
StopOrder ==
  /\ \A w \in Writers :
       /\ stop[w] => ~accepting[w]
       /\ rpc[w] = "none" => ~stop[w]
       /\ rpc[w] \in Draining \cup {"wait", "sleep"} => stop[w]
  /\ \A c \in Callers :
       /\ cpc[c] # "idle" => rpc[closing[c]] # "none"
       /\ cpc[c] \in {"stop", "wait"} => ~accepting[closing[c]]
  /\ current # None => rpc[current] # "none"

\* From the drain on, nobody can send any more, and what run leaves behind is empty.
DrainIsFinal ==
  \A w \in Writers :
    /\ rpc[w] \in Draining =>
         \A p \in Producers : held[p] = w => pc[p] \notin {"count", "send"}
    /\ rpc[w] \in {"finalPublish", "close", "exit"} => queue[w] = <<>>
    /\ rpc[w] \in {"close", "exit"} => batch[w] = <<>>

\* The live writer is installed, or being closed by the holder of global.mu.
LiveIsKnown ==
  /\ mu # None => current = None
  /\ \A w \in Writers :
       rpc[w] \notin {"none", "exit"} => w = current \/ (mu # None /\ w = closing[mu])
  /\ current # None => accepting[current]

\* No event is lost, repeated or overtaken between the channel and the sink.
Flow == \A w \in Writers : offered[w] \o batch[w] \o queue[w] = accepted[w]

\* A queue holds only calls that their producer has already made, in that order.
SoFar(p) == IF pc[p] \in {"leave", "wake"} THEN calls[p] + 1 ELSE calls[p]

Numbered ==
  \A w \in Writers :
    /\ \A i \in DOMAIN accepted[w] : accepted[w][i][2] <= SoFar(accepted[w][i][1])
    /\ \A i, j \in DOMAIN accepted[w] :
         i < j /\ accepted[w][i][1] = accepted[w][j][1]
           => accepted[w][i][2] < accepted[w][j][2]

IInv == /\ TypeInv /\ InflightCounts /\ StopOrder /\ DrainIsFinal /\ LiveIsKnown
        /\ Flow /\ Numbered

\* What each group of goroutines leaves alone.
LEMMA ProducerFrame ==
  ASSUME NEW p \in Producers, LogLoad(p) \/ LogStep(p)
  PROVE  UNCHANGED <<mu, current, accepting, stop, rpc, batch, cpc, closing, offered>>
<1> USE DEF globalVars, writerVars, runVars, callerVars, historyVars
<1>1. CASE LogLoad(p) \/ LogCheck(p) \/ EnqueueEnter(p) \/ EnqueueRecheck(p)
  BY <1>1 DEF LogLoad, LogCheck, EnqueueEnter, EnqueueRecheck
<1>2. CASE EnqueueCount(p) \/ EnqueueSend(p) \/ EnqueueLeave(p) \/ EnqueueWake(p)
  BY <1>2 DEF EnqueueCount, EnqueueSend, EnqueueLeave, EnqueueWake
<1> QED  BY <1>1, <1>2 DEF LogStep

LEMMA RunFrame ==
  ASSUME NEW w \in Writers, RunStep(w) \/ SinkStep(w)
  PROVE  UNCHANGED <<mu, current, accepting, inflight, stop, pc, held, calls, cpc,
                     closing, accepted>>
<1> USE DEF globalVars, writerVars, producerVars, callerVars, historyVars
<1>1. CASE RunStep(w)
  BY <1>1 DEF RunStep, RunReceive, RunTick, RunStop, RunWait, RunWake, RunDrain, RunDrained
<1>2. CASE SinkStep(w)
  BY <1>2 DEF SinkStep, PublishOK, PublishError, RunClose
<1> QED  BY <1>1, <1>2

LEMMA CallerFrame ==
  ASSUME NEW c \in Callers,
         \/ \E cfg \in Configs, w \in Writers : InitWriter(c, cfg, w)
         \/ CloseSwap(c) \/ CloseStep(c)
  PROVE  UNCHANGED <<inflight, queue, batch, pc, held, calls, accepted, offered>>
BY DEF InitWriter, CloseSwap, CloseStep, CloseRefuse, CloseStop, CloseReturn, writerVars,
       runVars, producerVars, historyVars

LEMMA NextActors ==
  ASSUME [Next]_vars
  PROVE  \/ \E p \in Producers : LogLoad(p) \/ LogStep(p)
         \/ \E w \in Writers : RunStep(w) \/ SinkStep(w)
         \/ \E c \in Callers : \/ \E cfg \in Configs, w \in Writers : InitWriter(c, cfg, w)
                               \/ CloseSwap(c) \/ CloseStep(c)
         \/ UNCHANGED vars
BY DEF Next, Finished

LEMMA InsideFinite ==
  ASSUME NEW w \in Writers
  PROVE  IsFiniteSet(Inside(w))
<1>1. Inside(w) \in SUBSET Producers
  BY DEF Inside
<1> QED  BY <1>1, SetsAssumption, FS_Subset

LEMMA InflightStep ==
  ASSUME TypeInv, InflightCounts, [Next]_vars
  PROVE  InflightCounts'
<1>0. /\ pc \in [Producers -> ProducerPlaces]
      /\ held \in [Producers -> Writers \cup {None}]
      /\ inflight \in [Writers -> Int]
      /\ \A p \in Producers : pc[p] # "idle" => held[p] \in Writers
  BY DEF TypeInv, TypeOK, Places
<1>1. ASSUME NEW p \in Producers, LogLoad(p) \/ LogStep(p)
      PROVE  InflightCounts'
  <2>1. CASE \/ LogLoad(p) \/ LogCheck(p) \/ EnqueueRecheck(p) \/ EnqueueCount(p)
             \/ EnqueueSend(p) \/ EnqueueWake(p)
    <3>1. UNCHANGED inflight
      BY <2>1 DEF LogLoad, LogCheck, EnqueueRecheck, EnqueueCount, EnqueueSend,
                  EnqueueWake, writerVars
    <3>2. /\ \A q \in Producers \ {p} : pc'[q] = pc[q] /\ held'[q] = held[q]
          /\ \/ /\ pc[p] \notin {"recheck", "count", "send", "leave"}
                /\ pc'[p] \notin {"recheck", "count", "send", "leave"}
             \/ /\ pc[p] \in {"recheck", "count", "send", "leave"}
                /\ pc'[p] \in {"recheck", "count", "send", "leave"}
                /\ held'[p] = held[p]
      BY <1>0, <2>1 DEF LogLoad, LogCheck, EnqueueRecheck, EnqueueCount, EnqueueSend,
                        EnqueueWake, Goto, Return
    <3>3. \A w \in Writers : Inside(w)' = Inside(w)
      BY <3>2 DEF Inside
    <3> QED  BY <3>1, <3>3 DEF InflightCounts
  <2>2. CASE EnqueueEnter(p)
    <3>1. /\ held[p] \in Writers
          /\ p \notin Inside(held[p])
      BY <1>0, <2>2 DEF EnqueueEnter, Inside
    <3>2. /\ Inside(held[p])' = Inside(held[p]) \cup {p}
          /\ \A w \in Writers \ {held[p]} : Inside(w)' = Inside(w)
      BY <1>0, <2>2 DEF EnqueueEnter, Goto, Inside
    <3>3. Cardinality(Inside(held[p]) \cup {p}) = Cardinality(Inside(held[p])) + 1
      BY <3>1, InsideFinite, FS_AddElement
    <3> QED  BY <1>0, <2>2, <3>1, <3>2, <3>3 DEF EnqueueEnter, InflightCounts
  <2>3. CASE EnqueueLeave(p)
    <3>1. /\ held[p] \in Writers
          /\ p \in Inside(held[p])
      BY <1>0, <2>3 DEF EnqueueLeave, Inside
    <3>2. /\ Inside(held[p])' = Inside(held[p]) \ {p}
          /\ \A w \in Writers \ {held[p]} : Inside(w)' = Inside(w)
      BY <1>0, <2>3 DEF EnqueueLeave, Goto, Inside
    <3>3. Cardinality(Inside(held[p]) \ {p}) = Cardinality(Inside(held[p])) - 1
      BY <3>1, InsideFinite, FS_RemoveElement
    <3> QED  BY <1>0, <2>3, <3>1, <3>2, <3>3 DEF EnqueueLeave, InflightCounts
  <2> QED  BY <1>1, <2>1, <2>2, <2>3 DEF LogStep
<1>2. CASE UNCHANGED <<inflight, pc, held>>
  BY <1>2 DEF InflightCounts, Inside
<1>3. CASE UNCHANGED vars
  BY <1>2, <1>3 DEF vars, writerVars, producerVars
<1> QED  BY <1>1, <1>2, <1>3, NextActors, RunFrame, CallerFrame

LEMMA StopOrderStep ==
  ASSUME TypeInv, StopOrder, [Next]_vars
  PROVE  StopOrder'
<1>0. /\ accepting \in [Writers -> BOOLEAN]
      /\ stop \in [Writers -> BOOLEAN]
      /\ rpc \in [Writers -> RunPlaces]
      /\ cpc \in [Callers -> {"idle", "refuse", "stop", "wait"}]
      /\ closing \in [Callers -> Writers \cup {None}]
      /\ current \in Writers \cup {None}
      /\ \A c \in Callers : cpc[c] # "idle" => closing[c] \in Writers /\ mu = c
      /\ None \notin Writers
  BY SetsAssumption DEF TypeInv, TypeOK, Places
<1>1. CASE UNCHANGED <<current, accepting, stop, rpc, cpc, closing>>
  BY <1>1 DEF StopOrder
<1>2. ASSUME NEW w \in Writers, RunStep(w) \/ SinkStep(w)
      PROVE  StopOrder'
  <2>1. UNCHANGED <<current, accepting, stop, cpc, closing>>
    BY <1>2, RunFrame
  <2>2. /\ rpc' = [rpc EXCEPT ![w] = rpc'[w]]
        /\ rpc[w] # "none" /\ rpc'[w] # "none"
        /\ rpc'[w] \in Draining \cup {"wait", "sleep"} =>
             stop[w] \/ rpc[w] \in Draining \cup {"wait", "sleep"}
    BY <1>0, <1>2 DEF RunStep, SinkStep, RunReceive, RunTick, RunStop, RunWait, RunWake,
                      RunDrain, RunDrained, PublishOK, PublishError, BatchDone, AfterPublish,
                      Publishing, RunClose, Run, Draining
  <2> QED  BY <1>0, <2>1, <2>2 DEF StopOrder
<1>3. ASSUME NEW c \in Callers, NEW cfg \in Configs, NEW w \in Writers,
             InitWriter(c, cfg, w)
      PROVE  StopOrder'
  <2>1. CASE UNCHANGED <<config, accepting, current, rpc>>
    BY <1>1, <1>3, <2>1 DEF InitWriter, callerVars
  <2>2. CASE /\ accepting' = [accepting EXCEPT ![w] = TRUE]
             /\ current' = w
             /\ rpc' = [rpc EXCEPT ![w] = "select"]
    <3>1. rpc[w] = "none" /\ UNCHANGED <<stop, cpc, closing>>
      BY <1>3 DEF InitWriter, callerVars
    <3>2. ~stop[w] /\ \A d \in Callers : cpc[d] # "idle" => closing[d] # w
      BY <1>0, <3>1 DEF StopOrder
    <3> QED  BY <1>0, <2>2, <3>1, <3>2 DEF StopOrder, Draining
  <2> QED  BY <1>3, <2>1, <2>2 DEF InitWriter
<1>4. ASSUME NEW c \in Callers, CloseSwap(c) PROVE StopOrder'
  BY <1>0, <1>4 DEF CloseSwap, StopOrder, writerVars, runVars
<1>5. ASSUME NEW c \in Callers, CloseRefuse(c) PROVE StopOrder'
  BY <1>0, <1>5 DEF CloseRefuse, StopOrder, globalVars, runVars
<1>6. ASSUME NEW c \in Callers, CloseStop(c) PROVE StopOrder'
  BY <1>0, <1>6 DEF CloseStop, StopOrder, globalVars, runVars
<1>7. ASSUME NEW c \in Callers, CloseReturn(c) PROVE StopOrder'
  BY <1>0, <1>7 DEF CloseReturn, StopOrder, writerVars, runVars
<1>8. CASE UNCHANGED vars
  BY <1>1, <1>8 DEF vars, globalVars, writerVars, runVars, callerVars
<1> QED  BY <1>1, <1>2, <1>3, <1>4, <1>5, <1>6, <1>7, <1>8, NextActors, ProducerFrame
         DEF CloseStep

LEMMA LiveIsKnownStep ==
  ASSUME TypeInv, StopOrder, LiveIsKnown, [Next]_vars
  PROVE  LiveIsKnown'
<1>0. /\ accepting \in [Writers -> BOOLEAN]
      /\ rpc \in [Writers -> RunPlaces]
      /\ closing \in [Callers -> Writers \cup {None}]
      /\ mu \in Callers \cup {None}
      /\ current \in Writers \cup {None}
      /\ \A c \in Callers : cpc[c] # "idle" => closing[c] \in Writers /\ mu = c
      /\ None \notin Writers /\ None \notin Callers
  BY SetsAssumption DEF TypeInv, TypeOK, Places
<1>1. CASE UNCHANGED <<mu, current, accepting, rpc, closing>>
  BY <1>1 DEF LiveIsKnown
<1>2. ASSUME NEW w \in Writers, RunStep(w) \/ SinkStep(w)
      PROVE  LiveIsKnown'
  <2>1. UNCHANGED <<mu, current, accepting, closing>>
    BY <1>2, RunFrame
  <2>2. /\ rpc' = [rpc EXCEPT ![w] = rpc'[w]]
        /\ rpc[w] \notin {"none", "exit"}
    BY <1>0, <1>2 DEF RunStep, SinkStep, RunReceive, RunTick, RunStop, RunWait, RunWake,
                      RunDrain, RunDrained, PublishOK, PublishError, BatchDone, Publishing,
                      RunClose, Run
  <2> QED  BY <1>0, <2>1, <2>2 DEF LiveIsKnown
<1>3. ASSUME NEW c \in Callers, NEW cfg \in Configs, NEW w \in Writers,
             InitWriter(c, cfg, w)
      PROVE  LiveIsKnown'
  <2>1. CASE UNCHANGED <<config, accepting, current, rpc>>
    BY <1>1, <1>3, <2>1 DEF InitWriter, callerVars
  <2>2. CASE /\ current = None
             /\ accepting' = [accepting EXCEPT ![w] = TRUE]
             /\ current' = w
             /\ rpc' = [rpc EXCEPT ![w] = "select"]
    <3>1. mu = None /\ UNCHANGED <<mu, closing>>
      BY <1>3 DEF InitWriter, callerVars
    <3> QED  BY <1>0, <2>2, <3>1 DEF LiveIsKnown
  <2> QED  BY <1>3, <2>1, <2>2 DEF InitWriter
<1>4. ASSUME NEW c \in Callers, CloseSwap(c) PROVE LiveIsKnown'
  BY <1>0, <1>4 DEF CloseSwap, LiveIsKnown, writerVars, runVars
<1>5. ASSUME NEW c \in Callers, CloseRefuse(c) PROVE LiveIsKnown'
  BY <1>0, <1>5 DEF CloseRefuse, LiveIsKnown, globalVars, runVars
<1>6. ASSUME NEW c \in Callers, CloseStop(c) PROVE LiveIsKnown'
  BY <1>1, <1>6 DEF CloseStop, globalVars, runVars
<1>7. ASSUME NEW c \in Callers, CloseReturn(c) PROVE LiveIsKnown'
  BY <1>0, <1>7 DEF CloseReturn, LiveIsKnown, writerVars, runVars
<1>8. CASE UNCHANGED vars
  BY <1>1, <1>8 DEF vars, globalVars, writerVars, runVars, callerVars
<1> QED  BY <1>1, <1>2, <1>3, <1>4, <1>5, <1>6, <1>7, <1>8, NextActors, ProducerFrame
         DEF CloseStep

LEMMA DrainIsFinalStep ==
  ASSUME TypeInv, InflightCounts, StopOrder, DrainIsFinal, [Next]_vars
  PROVE  DrainIsFinal'
<1>0. /\ pc \in [Producers -> ProducerPlaces]
      /\ held \in [Producers -> Writers \cup {None}]
      /\ accepting \in [Writers -> BOOLEAN]
      /\ stop \in [Writers -> BOOLEAN]
      /\ queue \in [Writers -> Seq(Event)]
      /\ batch \in [Writers -> Seq(Event)]
      /\ rpc \in [Writers -> RunPlaces]
      /\ \A p \in Producers : pc[p] # "idle" => held[p] \in Writers
  BY DEF TypeInv, TypeOK, Places
<1>1. CASE UNCHANGED <<pc, held, queue, batch, rpc>>
  BY <1>1 DEF DrainIsFinal
<1>2. ASSUME NEW p \in Producers, LogLoad(p) \/ LogStep(p)
      PROVE  DrainIsFinal'
  <2>1. UNCHANGED <<rpc, batch>>
    BY <1>2, ProducerFrame
  <2>2. /\ \A q \in Producers \ {p} : pc'[q] = pc[q] /\ held'[q] = held[q]
        /\ pc'[p] \in {"count", "send"} =>
             /\ held'[p] = held[p] /\ held[p] \in Writers
             /\ accepting[held[p]] \/ pc[p] \in {"count", "send"}
    <3>1. CASE LogLoad(p) \/ LogCheck(p) \/ EnqueueEnter(p) \/ EnqueueRecheck(p)
      BY <1>0, <3>1 DEF LogLoad, LogCheck, EnqueueEnter, EnqueueRecheck, Goto, Return
    <3>2. CASE EnqueueCount(p) \/ EnqueueSend(p) \/ EnqueueLeave(p) \/ EnqueueWake(p)
      BY <1>0, <3>2 DEF EnqueueCount, EnqueueSend, EnqueueLeave, EnqueueWake, Goto, Return
    <3> QED  BY <1>2, <3>1, <3>2 DEF LogStep
  <2>3. \/ UNCHANGED queue
        \/ /\ pc[p] = "send"
           /\ \A w \in Writers \ {held[p]} : queue'[w] = queue[w]
    <3>1. CASE EnqueueSend(p)
      BY <1>0, <3>1 DEF EnqueueSend, Send, TakeBack
    <3>2. CASE ~EnqueueSend(p)
      BY <1>2, <3>2 DEF LogLoad, LogStep, LogCheck, EnqueueEnter, EnqueueRecheck,
                        EnqueueCount, EnqueueLeave, EnqueueWake, writerVars
    <3> QED  BY <3>1, <3>2
  <2>4. \A w \in Writers : rpc[w] \in Draining =>
          /\ ~accepting[w]
          /\ \A q \in Producers : held[q] = w => pc[q] \notin {"count", "send"}
    BY DEF StopOrder, DrainIsFinal
  <2>5. \A w \in Writers : rpc[w] \in Draining =>
          \A q \in Producers : held'[q] = w => pc'[q] \notin {"count", "send"}
    BY <1>0, <2>2, <2>4
  <2>6. \A w \in Writers : rpc[w] \in Draining => queue'[w] = queue[w]
    BY <1>0, <2>3, <2>4
  <2> QED  BY <2>1, <2>5, <2>6 DEF DrainIsFinal, Draining
<1>3. ASSUME NEW w \in Writers, RunStep(w) \/ SinkStep(w)
      PROVE  DrainIsFinal'
  <2>1. UNCHANGED <<pc, held, inflight>>
    BY <1>3, RunFrame
  <2>2. CASE RunReceive(w) \/ RunDrain(w)
    BY <1>0, <2>1, <2>2
       DEF RunReceive, RunDrain, Receive, Run, DrainIsFinal, Draining
  <2>3. CASE RunTick(w) \/ RunStop(w) \/ RunWake(w)
    BY <1>0, <2>1, <2>3
       DEF RunTick, RunStop, RunWake, Run, DrainIsFinal, Draining, writerVars
  <2>4. CASE RunWait(w)
    <3>1. CASE inflight[w] # 0
      BY <1>0, <2>1, <2>4, <3>1 DEF RunWait, Run, DrainIsFinal, Draining, writerVars
    <3>2. CASE inflight[w] = 0
      <4>1. Inside(w) = {}
        BY <3>2, InsideFinite, FS_EmptySet DEF InflightCounts
      <4> QED  BY <1>0, <2>1, <2>4, <3>2, <4>1
                  DEF RunWait, Run, DrainIsFinal, Draining, Inside, writerVars
    <3> QED  BY <3>1, <3>2
  <2>5. CASE RunDrained(w)
    BY <1>0, <2>1, <2>5 DEF RunDrained, Run, DrainIsFinal, Draining, writerVars
  <2>6. CASE PublishOK(w) \/ PublishError(w)
    <3>1. /\ UNCHANGED queue
          /\ batch' = [batch EXCEPT ![w] = <<>>]
          /\ \/ rpc[w] = "publish" /\ rpc' = [rpc EXCEPT ![w] = "select"]
             \/ rpc[w] = "drainPublish" /\ rpc' = [rpc EXCEPT ![w] = "drain"]
             \/ rpc[w] = "finalPublish" /\ rpc' = [rpc EXCEPT ![w] = "close"]
      BY <2>6 DEF PublishOK, PublishError, BatchDone, Publishing, AfterPublish, writerVars
    <3> QED  BY <1>0, <2>1, <3>1 DEF DrainIsFinal, Draining
  <2>7. CASE RunClose(w)
    BY <1>0, <2>1, <2>7 DEF RunClose, Run, DrainIsFinal, Draining, writerVars
  <2> QED  BY <1>3, <2>2, <2>3, <2>4, <2>5, <2>6, <2>7 DEF RunStep, SinkStep
<1>4. ASSUME NEW c \in Callers,
             \/ \E cfg \in Configs, w \in Writers : InitWriter(c, cfg, w)
             \/ CloseSwap(c) \/ CloseStep(c)
      PROVE  DrainIsFinal'
  <2>1. UNCHANGED <<pc, held, queue, batch>>
    BY <1>4, CallerFrame
  <2>2. \A w \in Writers : rpc'[w] = rpc[w] \/ rpc'[w] = "select"
    BY <1>0, <1>4 DEF InitWriter, CloseSwap, CloseStep, CloseRefuse, CloseStop,
                      CloseReturn, runVars
  <2> QED  BY <2>1, <2>2 DEF DrainIsFinal, Draining
<1>5. CASE UNCHANGED vars
  BY <1>1, <1>5 DEF vars, writerVars, runVars, producerVars
<1> QED  BY <1>2, <1>3, <1>4, <1>5, NextActors

LEMMA EventConcat ==
  ASSUME NEW a \in Seq(Event), NEW b \in Seq(Event), NEW c \in Seq(Event)
  PROVE  (a \o b) \o c = a \o (b \o c)
BY ConcatAssociative

\* Sending, receiving and publishing only move the boundaries between the parts.
LEMMA FlowSend ==
  ASSUME NEW o \in Seq(Event), NEW b \in Seq(Event), NEW q \in Seq(Event), NEW e \in Event
  PROVE  o \o b \o Append(q, e) = Append(o \o b \o q, e)
<1>1. o \o b \in Seq(Event) /\ o \o b \o q \in Seq(Event) /\ <<e>> \in Seq(Event)
  BY ConcatProperties
<1>2. Append(q, e) = q \o <<e>> /\ Append(o \o b \o q, e) = (o \o b \o q) \o <<e>>
  BY <1>1, AppendIsConcat
<1> QED  BY SMTT(40), <1>1, <1>2, ConcatAssociative

LEMMA HeadThenTail ==
  ASSUME NEW q \in Seq(Event), q # <<>>
  PROVE  <<Head(q)>> \o Tail(q) = q
<1>1. Head(q) \in Event /\ Tail(q) \in Seq(Event) /\ <<Head(q)>> \in Seq(Event)
  BY HeadTailProperties
<1>2. /\ <<Head(q)>> \o Tail(q) \in Seq(Event)
      /\ Len(<<Head(q)>> \o Tail(q)) = Len(q)
  <2>1. /\ <<Head(q)>> \o Tail(q) \in Seq(Event)
        /\ Len(<<Head(q)>> \o Tail(q)) = Len(<<Head(q)>>) + Len(Tail(q))
    BY <1>1, ConcatProperties
  <2>2. Len(<<Head(q)>>) = 1
    OBVIOUS
  <2>3. Len(Tail(q)) = Len(q) - 1 /\ Len(q) \in Nat
    BY HeadTailProperties, LenProperties
  <2> QED  BY <2>1, <2>2, <2>3
<1>3. \A i \in 1 .. Len(q) : (<<Head(q)>> \o Tail(q))[i] = q[i]
  BY <1>1, HeadTailProperties, LenProperties
<1> QED  BY <1>2, <1>3, SeqEqual

LEMMA FlowReceive ==
  ASSUME NEW o \in Seq(Event), NEW b \in Seq(Event), NEW q \in Seq(Event), q # <<>>
  PROVE  o \o Append(b, Head(q)) \o Tail(q) = o \o b \o q
<1>1. Head(q) \in Event /\ Tail(q) \in Seq(Event) /\ <<Head(q)>> \in Seq(Event)
  BY HeadTailProperties
<1>2. <<Head(q)>> \o Tail(q) = q
  BY HeadThenTail
<1>3. Append(b, Head(q)) = b \o <<Head(q)>>
  BY <1>1, AppendIsConcat
<1>4. b \o <<Head(q)>> \in Seq(Event)
  BY <1>1, ConcatProperties
<1>5. (b \o <<Head(q)>>) \o Tail(q) = b \o q
  <2>1. (b \o <<Head(q)>>) \o Tail(q) = b \o (<<Head(q)>> \o Tail(q))
    BY <1>1, EventConcat
  <2> QED  BY <1>2, <2>1
<1>6. o \o (b \o <<Head(q)>>) \o Tail(q) = o \o ((b \o <<Head(q)>>) \o Tail(q))
  BY ZenonT(40), <1>1, <1>4, EventConcat
<1>7. o \o b \o q = o \o (b \o q)
  BY EventConcat
<1> QED  BY <1>3, <1>5, <1>6, <1>7

LEMMA FlowPublish ==
  ASSUME NEW o \in Seq(Event), NEW b \in Seq(Event), NEW q \in Seq(Event)
  PROVE  (o \o b) \o <<>> \o q = o \o b \o q
BY ConcatProperties, ConcatEmptySeq

LEMMA FlowStep ==
  ASSUME TypeInv, Flow, [Next]_vars
  PROVE  Flow'
<1>0. /\ offered \in [Writers -> Seq(Event)]
      /\ batch \in [Writers -> Seq(Event)]
      /\ queue \in [Writers -> Seq(Event)]
      /\ accepted \in [Writers -> Seq(Event)]
  BY DEF TypeInv, TypeOK
<1>1. CASE UNCHANGED <<offered, batch, queue, accepted>>
  BY <1>1 DEF Flow
<1>2. ASSUME NEW p \in Producers, LogLoad(p) \/ LogStep(p)
      PROVE  Flow'
  <2>1. UNCHANGED <<batch, offered>>
    BY <1>2, ProducerFrame
  <2>2. CASE EnqueueSend(p) /\ Send(p)
    <3> DEFINE w == held[p]
    <3>1. w \in Writers /\ Logging(p) \in Event
      BY <2>2, LoggingType DEF EnqueueSend, TypeInv, Places
    <3>2. /\ queue' = [queue EXCEPT ![w] = Append(queue[w], Logging(p))]
          /\ accepted' = [accepted EXCEPT ![w] = Append(accepted[w], Logging(p))]
      BY <2>2 DEF Send
    <3>3. offered[w] \o batch[w] \o Append(queue[w], Logging(p))
            = Append(offered[w] \o batch[w] \o queue[w], Logging(p))
      <4>1. offered[w] \in Seq(Event) /\ batch[w] \in Seq(Event) /\ queue[w] \in Seq(Event)
        BY <1>0, <3>1
      <4> HIDE DEF w
      <4> QED  BY <3>1, <4>1, FlowSend
    <3> HIDE DEF w
    <3> QED  BY <1>0, <2>1, <3>1, <3>2, <3>3 DEF Flow
  <2>3. CASE ~(EnqueueSend(p) /\ Send(p))
    BY <1>1, <1>2, <2>1, <2>3
       DEF LogLoad, LogStep, LogCheck, EnqueueEnter, EnqueueRecheck, EnqueueCount,
           EnqueueSend, TakeBack, EnqueueLeave, EnqueueWake, writerVars, historyVars
  <2> QED  BY <2>2, <2>3
<1>3. ASSUME NEW w \in Writers, RunStep(w) \/ SinkStep(w)
      PROVE  Flow'
  <2>1. UNCHANGED accepted
    BY <1>3, RunFrame
  <2>2. CASE RunReceive(w) \/ RunDrain(w)
    <3>1. Receive(w) /\ UNCHANGED offered
      BY <2>2 DEF RunReceive, RunDrain, historyVars
    <3>2. offered[w] \o Append(batch[w], Head(queue[w])) \o Tail(queue[w])
            = offered[w] \o batch[w] \o queue[w]
      <4>1. offered[w] \in Seq(Event) /\ batch[w] \in Seq(Event) /\ queue[w] \in Seq(Event)
        BY <1>0
      <4>2. queue[w] # <<>>
        BY <3>1 DEF Receive
      <4> QED  BY <4>1, <4>2, FlowReceive
    <3> QED  BY <1>0, <2>1, <3>1, <3>2 DEF Flow, Receive
  <2>3. CASE PublishOK(w) \/ PublishError(w)
    <3>1. BatchDone(w) /\ UNCHANGED queue
      BY <2>3 DEF PublishOK, PublishError, writerVars
    <3>2. (offered[w] \o batch[w]) \o <<>> \o queue[w] = offered[w] \o batch[w] \o queue[w]
      BY <1>0, FlowPublish
    <3> QED  BY <1>0, <2>1, <3>1, <3>2 DEF Flow, BatchDone
  <2>4. CASE RunTick(w) \/ RunStop(w) \/ RunWait(w) \/ RunWake(w) \/ RunDrained(w) \/ RunClose(w)
    BY <1>1, <2>1, <2>4 DEF RunTick, RunStop, RunWait, RunWake, RunDrained, RunClose,
                            writerVars, historyVars
  <2> QED  BY <1>3, <2>2, <2>3, <2>4 DEF RunStep, SinkStep
<1>4. CASE UNCHANGED vars
  BY <1>1, <1>4 DEF vars, writerVars, runVars, historyVars
<1> QED  BY <1>1, <1>2, <1>3, <1>4, NextActors, CallerFrame

(* What Append, the channel send seen by the history, does to a sequence of  *)
(* events: one more position, holding the event, the earlier ones unchanged. *)
LEMMA AppendElements ==
  ASSUME NEW s \in Seq(Event), NEW e \in Event
  PROVE  /\ Len(s) \in Nat
         /\ DOMAIN s = 1 .. Len(s)
         /\ DOMAIN Append(s, e) = 1 .. (Len(s) + 1)
         /\ \A i \in 1 .. Len(s) : Append(s, e)[i] = s[i]
         /\ Append(s, e)[Len(s) + 1] = e
<1>1. Len(s) \in Nat /\ DOMAIN s = 1 .. Len(s)
  BY LenProperties
<1>2. /\ Append(s, e) \in Seq(Event)
      /\ Len(Append(s, e)) = Len(s) + 1
      /\ \A i \in 1 .. Len(s) : Append(s, e)[i] = s[i]
      /\ Append(s, e)[Len(s) + 1] = e
  BY AppendProperties
<1>3. DOMAIN Append(s, e) = 1 .. Len(Append(s, e))
  BY <1>2, LenProperties
<1> QED  BY Zenon, <1>1, <1>2, <1>3

LEMMA NextNatural == \A n \in Nat : n + 1 \in Nat
OBVIOUS

LEMMA NumberedStep ==
  ASSUME TypeInv, Numbered, [Next]_vars
  PROVE  Numbered'
<1>0. /\ pc \in [Producers -> ProducerPlaces]
      /\ held \in [Producers -> Writers \cup {None}]
      /\ calls \in [Producers -> 0 .. MaxLogs]
      /\ accepted \in [Writers -> Seq(Event)]
      /\ MaxLogs \in Nat
  BY BoundsAssumption DEF TypeInv, TypeOK
<1>1. CASE UNCHANGED <<pc, calls, accepted>>
  BY <1>1 DEF Numbered, SoFar
<1>2. ASSUME NEW w \in Writers, NEW i \in DOMAIN accepted[w]
      PROVE  accepted[w][i][1] \in Producers /\ accepted[w][i][2] \in Nat
  <2>1. accepted[w] \in Seq(Event)
    BY <1>0
  <2>2. accepted[w][i] \in Event
    BY <1>2, <2>1, LenProperties, ElementOfSeq
  <2> QED  BY <2>2 DEF Event
<1>3. ASSUME NEW p \in Producers, LogLoad(p) \/ LogStep(p)
      PROVE  Numbered'
  <2> DEFINE later == [q \in Producers |-> SoFar(q)']
  <2>1. \A q \in Producers : SoFar(q) \in Nat /\ later[q] \in Nat /\ SoFar(q) <= later[q]
    <3>1. /\ \A q \in Producers \ {p} : pc'[q] = pc[q] /\ calls'[q] = calls[q]
          /\ \/ pc'[p] = "idle" /\ calls'[p] = calls[p] + 1
             \/ calls'[p] = calls[p] /\ (pc[p] = "leave" => pc'[p] = "wake") /\ pc[p] # "wake"
      <4>1. CASE LogLoad(p) \/ LogCheck(p) \/ EnqueueEnter(p) \/ EnqueueRecheck(p)
        BY ZenonT(40), <1>0, <4>1 DEF LogLoad, LogCheck, EnqueueEnter, EnqueueRecheck, Goto, Return
      <4>2. CASE EnqueueCount(p) \/ EnqueueSend(p) \/ EnqueueLeave(p) \/ EnqueueWake(p)
        BY <1>0, <4>2 DEF EnqueueCount, EnqueueSend, EnqueueLeave, EnqueueWake, Goto, Return
      <4> QED  BY ZenonT(40), <1>3, <4>1, <4>2 DEF LogStep
    <3>2. \A q \in Producers : calls[q] \in Nat
      BY <1>0
    <3>3. \A q \in Producers :
            later[q] = IF pc'[q] \in {"leave", "wake"} THEN calls'[q] + 1 ELSE calls'[q]
      BY DEF SoFar
    <3> HIDE DEF later
    <3>4. ASSUME NEW q \in Producers, q # p
          PROVE  SoFar(q) \in Nat /\ later[q] = SoFar(q)
      <4>1. pc'[q] = pc[q] /\ calls'[q] = calls[q] /\ calls[q] \in Nat
        BY <3>1, <3>2, <3>4
      <4>2. later[q] = IF pc[q] \in {"leave", "wake"} THEN calls[q] + 1 ELSE calls[q]
        BY <3>3, <4>1
      <4>3. SoFar(q) = IF pc[q] \in {"leave", "wake"} THEN calls[q] + 1 ELSE calls[q]
        BY Zenon DEF SoFar
      <4>4. later[q] = SoFar(q)
        BY Zenon, <4>2, <4>3
      <4>5. calls[q] + 1 \in Nat
        BY Zenon, <4>1, NextNatural
      <4>6. SoFar(q) \in Nat
        BY Zenon, <4>1, <4>3, <4>5
      <4> QED  BY Zenon, <4>4, <4>6
    <3>5. SoFar(p) \in Nat /\ later[p] \in Nat /\ SoFar(p) <= later[p]
      <4>1. /\ SoFar(p) = IF pc[p] \in {"leave", "wake"} THEN calls[p] + 1 ELSE calls[p]
            /\ later[p] = IF pc'[p] \in {"leave", "wake"} THEN calls'[p] + 1 ELSE calls'[p]
        BY <3>3 DEF SoFar
      <4>2. calls[p] \in Nat
        BY <3>2
      <4>3. CASE pc'[p] = "idle" /\ calls'[p] = calls[p] + 1
        BY <4>1, <4>2, <4>3
      <4>4. CASE calls'[p] = calls[p] /\ (pc[p] = "leave" => pc'[p] = "wake") /\ pc[p] # "wake"
        BY <4>1, <4>2, <4>4
      <4> QED  BY Zenon, <3>1, <4>3, <4>4
    <3> QED  BY <3>4, <3>5
  <2>grow. \A q \in Producers : \A n \in Nat : n <= SoFar(q) => n <= later[q]
    <3> HIDE DEF later
    <3> QED  BY <2>1
  <2>2. CASE UNCHANGED accepted
    <3>1. ASSUME NEW w \in Writers, NEW i \in DOMAIN accepted[w]
          PROVE  accepted[w][i][2] <= later[accepted[w][i][1]]
      <4>1. accepted[w][i][2] <= SoFar(accepted[w][i][1])
        BY <3>1 DEF Numbered
      <4>2. accepted[w][i][1] \in Producers /\ accepted[w][i][2] \in Nat
        BY <1>2
      <4> HIDE DEF later
      <4> QED  BY Zenon, <2>grow, <4>1, <4>2
    <3> QED  BY <1>2, <2>2, <3>1 DEF Numbered
  <2>3. CASE EnqueueSend(p) /\ Send(p)
    <3> DEFINE w == held[p]
               n == Len(accepted[w])
    <3>1. w \in Writers /\ Logging(p) \in Event
      BY <2>3, LoggingType DEF EnqueueSend, TypeInv, Places
    <3>2. accepted' = [accepted EXCEPT ![w] = Append(accepted[w], Logging(p))]
      BY <2>3 DEF Send
    <3>3. /\ n \in Nat
          /\ DOMAIN accepted[w] = 1 .. n
          /\ DOMAIN accepted'[w] = 1 .. (n + 1)
          /\ \A i \in 1 .. n : accepted'[w][i] = accepted[w][i]
          /\ accepted'[w][n + 1] = Logging(p)
      <4>1. accepted[w] \in Seq(Event)
        BY <1>0, <3>1
      <4>2. accepted'[w] = Append(accepted[w], Logging(p))
        BY <1>0, <3>1, <3>2
      <4>3. Logging(p) \in Event
        BY <3>1
      <4> HIDE DEF w, n
      <4>4. n = Len(accepted[w])
        BY DEF n
      <4>5. /\ Len(accepted[w]) \in Nat
            /\ DOMAIN accepted[w] = 1 .. Len(accepted[w])
            /\ DOMAIN Append(accepted[w], Logging(p)) = 1 .. (Len(accepted[w]) + 1)
            /\ \A i \in 1 .. Len(accepted[w]) : Append(accepted[w], Logging(p))[i] = accepted[w][i]
            /\ Append(accepted[w], Logging(p))[Len(accepted[w]) + 1] = Logging(p)
        BY <4>1, <4>3, AppendElements
      <4> QED  BY Zenon, <4>2, <4>4, <4>5
    <3>4. /\ Logging(p)[1] = p /\ Logging(p)[2] = calls[p] + 1
          /\ SoFar(p) = calls[p] /\ later[p] = calls[p] + 1 /\ calls[p] \in Nat
      <4>1. pc[p] = "send" /\ pc'[p] = "leave" /\ calls' = calls /\ calls[p] \in Nat
        <5>1. pc[p] = "send" /\ pc' = [pc EXCEPT ![p] = "leave"] /\ calls' = calls
          BY Zenon, <2>3 DEF EnqueueSend, Goto
        <5>2. pc \in [Producers -> ProducerPlaces] /\ calls \in [Producers -> 0 .. MaxLogs]
          BY <1>0
        <5>3. \A k \in 0 .. MaxLogs : k \in Nat
          BY <1>0
        <5> QED  BY <5>1, <5>2, <5>3
      <4>2. later[p] = IF pc'[p] \in {"leave", "wake"} THEN calls'[p] + 1 ELSE calls'[p]
        BY DEF SoFar
      <4> HIDE DEF later
      <4> QED  BY <4>1, <4>2 DEF Logging, SoFar
    <3>5. \A v \in Writers \ {w} : accepted'[v] = accepted[v]
      BY <1>0, <3>2
    <3> HIDE DEF w, n, later
    <3>6. ASSUME NEW v \in Writers, NEW i \in DOMAIN accepted'[v]
          PROVE  /\ accepted'[v][i][1] \in Producers
                 /\ accepted'[v][i][2] <= later[accepted'[v][i][1]]
      <4>1. CASE v = w /\ i = n + 1
        <5>1. accepted'[v][i] = Logging(p)
          BY Zenon, <3>3, <4>1
        <5>2. calls[p] + 1 <= calls[p] + 1
          BY <3>4
        <5> QED  BY Zenon, <3>4, <5>1, <5>2
      <4>2. CASE ~(v = w /\ i = n + 1)
        <5>1. i \in DOMAIN accepted[v] /\ accepted'[v][i] = accepted[v][i]
          BY <3>3, <3>5, <3>6, <4>2
        <5>2. accepted[v][i][2] <= SoFar(accepted[v][i][1])
          BY <5>1 DEF Numbered
        <5>3. accepted[v][i][1] \in Producers /\ accepted[v][i][2] \in Nat
          BY <1>2, <5>1
        <5> QED  BY Zenon, <2>grow, <5>1, <5>2, <5>3
      <4> QED  BY <4>1, <4>2
    <3>7. \A v \in Writers : \A i, j \in DOMAIN accepted'[v] :
            i < j /\ accepted'[v][i][1] = accepted'[v][j][1]
              => accepted'[v][i][2] < accepted'[v][j][2]
      <4>1. ASSUME NEW i \in DOMAIN accepted'[w], NEW j \in DOMAIN accepted'[w], i < j,
                   accepted'[w][i][1] = accepted'[w][j][1]
            PROVE  accepted'[w][i][2] < accepted'[w][j][2]
        <5>1. i \in 1 .. n
          BY <3>3, <4>1
        <5>2. CASE j = n + 1
          <6>1. accepted[w][i][1] = p /\ accepted[w][i][2] <= calls[p]
            <7>1. accepted[w][i][1] = p
              BY Zenon, <3>3, <3>4, <4>1, <5>1, <5>2
            <7>2. accepted[w][i][2] <= SoFar(accepted[w][i][1])
              BY Zenon, <3>1, <3>3, <5>1 DEF Numbered
            <7> QED  BY Zenon, <3>4, <7>1, <7>2
          <6>2. accepted[w][i][2] \in Nat
            BY <1>2, <3>1, <3>3, <5>1
          <6>3. accepted'[w][i] = accepted[w][i] /\ accepted'[w][j] = Logging(p)
            BY Zenon, <3>3, <5>1, <5>2
          <6>4. \A x, c \in Nat : x <= c => x < c + 1
            OBVIOUS
          <6> QED  BY Zenon, <3>4, <6>1, <6>2, <6>3, <6>4
        <5>3. CASE j \in 1 .. n
          BY <3>1, <3>3, <4>1, <5>1, <5>3 DEF Numbered
        <5> QED  BY <3>3, <5>2, <5>3
      <4>2. ASSUME NEW v \in Writers \ {w}
            PROVE  \A i, j \in DOMAIN accepted'[v] :
                     i < j /\ accepted'[v][i][1] = accepted'[v][j][1]
                       => accepted'[v][i][2] < accepted'[v][j][2]
        BY <3>5 DEF Numbered
      <4> QED  BY <4>1, <4>2
    <3> USE DEF later
    <3> QED  BY <3>6, <3>7 DEF Numbered
  <2> QED
    BY <1>3, <2>2, <2>3 DEF LogLoad, LogStep, LogCheck, EnqueueEnter, EnqueueRecheck,
       EnqueueCount, EnqueueSend, TakeBack, EnqueueLeave, EnqueueWake, historyVars
<1>4. CASE UNCHANGED vars
  BY <1>1, <1>4 DEF vars, producerVars, historyVars
<1> QED  BY <1>1, <1>3, <1>4, NextActors, RunFrame, CallerFrame

LEMMA InitIInv == Init => IInv
<1> SUFFICES ASSUME Init PROVE IInv
  OBVIOUS
<1>1. InflightCounts
  <2>1. \A w \in Writers : Inside(w) = {}
    BY DEF Init, Inside
  <2> QED  BY <2>1, FS_EmptySet DEF Init, InflightCounts
<1>2. StopOrder /\ DrainIsFinal /\ LiveIsKnown
  BY DEF Init, StopOrder, DrainIsFinal, LiveIsKnown, Draining
<1>3. Flow
  BY ConcatEmptySeq DEF Init, Flow
<1>4. Numbered
  <2>1. \A w \in Writers : accepted[w] = <<>>
    BY DEF Init
  <2>2. DOMAIN <<>> = {}
    OBVIOUS
  <2> QED  BY <2>1, <2>2 DEF Numbered
<1> QED  BY <1>1, <1>2, <1>3, <1>4, InitTypeInv DEF IInv

LEMMA NextIInv == IInv /\ [Next]_vars => IInv'
BY NextTypeInv, InflightStep, StopOrderStep, DrainIsFinalStep, LiveIsKnownStep, FlowStep,
   NumberedStep DEF IInv

\* When the sink of a writer is closed, it has been given every event the writer's
\* channel took, and no Log call can still put one in: enqueue's second look at
\* accepting and run's waitForProducers make Close drain completely.
THEOREM CloseStrandsNothing == Spec => []NothingStranded
<1>1. IInv => NothingStranded
  <2> SUFFICES ASSUME IInv, NEW w \in Writers, rpc[w] \in {"close", "exit"}
               PROVE  /\ offered[w] = accepted[w]
                      /\ queue[w] = <<>> /\ batch[w] = <<>>
                      /\ \A p \in Producers : held[p] = w => pc[p] \notin {"count", "send"}
    BY DEF NothingStranded
  <2>1. /\ queue[w] = <<>> /\ batch[w] = <<>>
        /\ \A p \in Producers : held[p] = w => pc[p] \notin {"count", "send"}
    BY DEF IInv, DrainIsFinal, Draining
  <2>2. offered[w] \in Seq(Event) /\ offered[w] \o batch[w] \o queue[w] = accepted[w]
    BY DEF IInv, TypeInv, TypeOK, Flow
  <2>3. offered[w] \o <<>> \o <<>> = offered[w]
    BY <2>2, ConcatEmptySeq
  <2> QED  BY <2>1, <2>2, <2>3
<1> QED  BY <1>1, InitIInv, NextIInv, PTL DEF Spec

\* At most one run goroutine is alive, and an installed writer is alive and accepting,
\* because Close holds global.mu until run has ended.
THEOREM NeverTwoWriters == Spec => []OneLiveWriter
<1>1. IInv => OneLiveWriter
  <2> SUFFICES ASSUME IInv PROVE OneLiveWriter
    OBVIOUS
  <2>1. current # None => current \in Writers
    BY DEF IInv, TypeInv, TypeOK
  <2>2. ASSUME NEW v \in Writers, NEW w \in Writers,
               rpc[v] \notin {"none", "exit"}, rpc[w] \notin {"none", "exit"}
        PROVE  v = w
    BY <2>2, SetsAssumption DEF IInv, LiveIsKnown
  <2>3. current # None => accepting[current] /\ rpc[current] # "none"
    BY DEF IInv, LiveIsKnown, StopOrder
  <2>4. current # None => rpc[current] # "exit"
    BY <2>1, <2>3 DEF IInv, StopOrder, Draining
  <2> QED  BY <2>2, <2>3, <2>4 DEF OneLiveWriter
<1> QED  BY <1>1, InitIInv, NextIInv, PTL DEF Spec

\* The sink is offered the events in the order the channel took them, none lost or
\* repeated, and each producer's events in the order in which it logged them.
THEOREM SinkSeesLogOrder == Spec => []SinkOrder
<1>1. IInv => SinkOrder
  BY DEF IInv, Flow, Numbered, SinkOrder
<1> QED  BY <1>1, InitIInv, NextIInv, PTL DEF Spec
=============================================================================
