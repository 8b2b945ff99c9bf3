------------------------ MODULE WriterJournalProofs ------------------------
(***************************************************************************)
(* The writer implements module Journal: every step of a producer, of run  *)
(* or of a caller changes the fates of events as Journal allows.           *)
(***************************************************************************)
EXTENDS WriterStatsProofs

-----------------------------------------------------------------------------
(* What the fates need beyond IInv                                         *)

\* Whoever is inside Log holds a writer that Init started; a writer not yet started has
\* nothing; the sink refused only what it was offered.
Started ==
  /\ \A p \in Producers : pc[p] # "idle" => rpc[held[p]] # "none"
  /\ \A w \in Writers : rpc[w] = "none" => queue[w] = <<>> /\ batch[w] = <<>>
  /\ \A w \in Writers : refused[w] \subseteq Range(offered[w])

JInv == IInv /\ Apart /\ Started

LEMMA StartedStep ==
  ASSUME IInv, Started, [Next]_vars
  PROVE  Started'
<1>0. /\ pc \in [Producers -> ProducerPlaces]
      /\ held \in [Producers -> Writers \cup {None}]
      /\ rpc \in [Writers -> RunPlaces]
      /\ queue \in [Writers -> Seq(Event)] /\ batch \in [Writers -> Seq(Event)]
      /\ offered \in [Writers -> Seq(Event)] /\ refused \in [Writers -> SUBSET Event]
      /\ \A p \in Producers : pc[p] # "idle" => held[p] \in Writers
      /\ current # None => rpc[current] # "none"
  BY DEF IInv, TypeInv, TypeOK, Places, StopOrder
<1>1. ASSUME NEW p \in Producers, LogLoad(p) \/ LogStep(p)
      PROVE  Started'
  <2>1. UNCHANGED <<rpc, batch, offered, refused>>
    BY <1>1 DEF LogStep, LogLoad, LogCheck, EnqueueEnter, EnqueueRecheck, EnqueueCount,
                EnqueueSend, EnqueueLeave, EnqueueWake, runVars, historyVars
  <2>2. /\ \A q \in Producers \ {p} : pc'[q] = pc[q] /\ held'[q] = held[q]
        /\ pc'[p] # "idle" => held'[p] = IF pc[p] = "idle" THEN current ELSE held[p]
        /\ pc'[p] # "idle" /\ pc[p] = "idle" => current # None
    <3>1. CASE LogLoad(p) \/ LogCheck(p) \/ EnqueueEnter(p) \/ EnqueueRecheck(p)
      BY <1>0, <3>1 DEF LogLoad, LogCheck, EnqueueEnter, EnqueueRecheck, Goto, Return
    <3>2. CASE EnqueueCount(p) \/ EnqueueSend(p) \/ EnqueueLeave(p) \/ EnqueueWake(p)
      BY <1>0, <3>2 DEF EnqueueCount, EnqueueSend, EnqueueLeave, EnqueueWake, Goto, Return
    <3> QED  BY <1>1, <3>1, <3>2 DEF LogStep
  <2>3. \A w \in Writers : rpc[w] = "none" => queue'[w] = queue[w]
    <3>1. CASE EnqueueSend(p)
      <4>1. held[p] \in Writers /\ rpc[held[p]] # "none"
        BY <1>0, <3>1 DEF EnqueueSend, Started
      <4> QED  BY <1>0, <3>1, <4>1 DEF EnqueueSend, Send, TakeBack
    <3>2. CASE ~EnqueueSend(p)
      BY <1>1, <3>2 DEF LogLoad, LogStep, LogCheck, EnqueueEnter, EnqueueRecheck,
                        EnqueueCount, EnqueueLeave, EnqueueWake, writerVars
    <3> QED  BY <3>1, <3>2
  <2> QED  BY <1>0, <2>1, <2>2, <2>3 DEF Started
<1>2. ASSUME NEW w \in Writers, RunStep(w) \/ SinkStep(w)
      PROVE  Started'
  <2>1. UNCHANGED <<pc, held>>
    BY <1>2, RunFrame
  <2>2. /\ rpc' = [rpc EXCEPT ![w] = rpc'[w]]
        /\ rpc[w] # "none" /\ rpc'[w] # "none"
    BY <1>0, <1>2 DEF RunStep, SinkStep, RunReceive, RunTick, RunStop, RunWait, RunWake,
                      RunDrain, RunDrained, PublishOK, PublishError, BatchDone, AfterPublish,
                      Publishing, RunClose, Run
  <2>3. \A v \in Writers \ {w} : /\ queue'[v] = queue[v] /\ batch'[v] = batch[v]
                                 /\ refused'[v] = refused[v] /\ offered'[v] = offered[v]
    BY <1>0, <1>2 DEF RunStep, SinkStep, RunReceive, RunTick, RunStop, RunWait, RunWake,
                      RunDrain, RunDrained, PublishOK, PublishError, BatchDone, RunClose, Receive,
                      writerVars, historyVars
  <2>4. refused'[w] \subseteq Range(offered'[w])
    <3>1. CASE PublishOK(w) \/ PublishError(w)
      <4>1. offered'[w] = offered[w] \o batch[w]
        BY <1>0, <3>1 DEF PublishOK, PublishError, BatchDone
      <4>2. Range(offered'[w]) = Range(offered[w]) \cup Range(batch[w])
        <5>1. offered[w] \in Seq(Event) /\ batch[w] \in Seq(Event)
          BY <1>0
        <5> QED  BY <4>1, <5>1, RangeConcatenation
      <4>3. refused'[w] \subseteq refused[w] \cup Range(batch[w])
        BY <1>0, <3>1 DEF PublishOK, PublishError
      <4> QED  BY <4>2, <4>3 DEF Started
    <3>2. CASE RunStep(w) \/ RunClose(w)
      <4>1. UNCHANGED <<offered, refused>>
        BY <3>2 DEF RunStep, RunReceive, RunTick, RunStop, RunWait, RunWake, RunDrain, RunDrained,
                    RunClose, historyVars
      <4> QED  BY <4>1 DEF Started
    <3> QED  BY <1>2, <3>1, <3>2 DEF SinkStep
  <2> QED  BY <1>0, <2>1, <2>2, <2>3, <2>4 DEF Started
<1>3. ASSUME NEW c \in Callers,
             \/ \E cfg \in Configs, w \in Writers : InitWriter(c, cfg, w)
             \/ CloseSwap(c) \/ CloseStep(c)
      PROVE  Started'
  <2>1. UNCHANGED <<pc, held, queue, batch, offered>>
    BY <1>3, CallerFrame
  <2>2. UNCHANGED refused
    BY <1>3 DEF InitWriter, CloseSwap, CloseStep, CloseRefuse, CloseStop, CloseReturn, historyVars
  <2>3. \A w \in Writers : rpc'[w] = rpc[w] \/ rpc'[w] = "select"
    BY <1>0, <1>3 DEF InitWriter, CloseSwap, CloseStep, CloseRefuse, CloseStop,
                      CloseReturn, runVars
  <2> QED  BY <1>0, <2>1, <2>2, <2>3 DEF Started
<1>4. CASE UNCHANGED vars
  BY <1>4 DEF vars, writerVars, runVars, producerVars, historyVars, Started
<1> QED  BY <1>1, <1>2, <1>3, <1>4, NextActors

-----------------------------------------------------------------------------
(* Fates                                                                   *)

\* The sink took the event; some writer's run is at work.
Written(e) == \E w \in Writers : e \in Range(offered[w]) \ refused[w]
Alive == \E w \in Writers : rpc[w] \notin {"none", "exit"}

\* A pending event is in no sink yet, and its Log call is counted.
LEMMA PendingFacts ==
  ASSUME JInv, NEW e \in Pending
  PROVE  e \in Event /\ e \in Counted /\ \A v \in Writers : e \notin Range(offered[v])
<1>1. CASE \E p \in Producers : pc[p] = "send" /\ e = Logging(p)
  <2>1. PICK p \in Producers : pc[p] = "send" /\ e = Logging(p)
    BY <1>1
  <2>2. e \in Event
    BY <2>1, LoggingType DEF JInv, IInv
  <2>3. e \in Counted
    BY <2>1, <2>2 DEF Logging, Counted
  <2>4. \A v \in Writers : e \notin Range(accepted[v])
    BY <2>1, Fresh DEF JInv
  <2> QED  BY <2>2, <2>3, <2>4, WriterParts DEF JInv
<1>2. CASE \E w \in Writers : e \in Range(queue[w]) \cup Range(batch[w])
  <2>1. PICK w \in Writers : e \in Range(queue[w]) \cup Range(batch[w])
    BY <1>2
  <2>2. e \in Range(accepted[w]) /\ e \in Event /\ e \notin Range(offered[w])
    BY <2>1, WriterParts DEF JInv
  <2>3. \A v \in Writers \ {w} : e \notin Range(offered[v])
    BY <2>2, WriterParts DEF JInv, Apart
  <2>4. e[1] \in Producers /\ e[2] \in Nat /\ calls[e[1]] \in Nat
    <3>1. e[1] \in Producers /\ e[2] \in Nat
      BY <2>2 DEF Event
    <3> QED  BY <3>1, BoundsAssumption DEF JInv, IInv, TypeInv, TypeOK
  <2>5. e[2] <= SoFar(e[1])
    BY <2>2 DEF Range, JInv, IInv, Numbered
  <2>6. e \in Counted
    BY <2>2, <2>4, <2>5 DEF Counted, SoFar
  <2> QED  BY <2>2, <2>3, <2>6
<1> QED  BY <1>1, <1>2 DEF Pending

\* A step that leaves the answers alone is a stutter of the journal.
LEMMA SameFates ==
  ASSUME \A e \in Event : Written(e)' = Written(e),
         Pending' = Pending, Counted' = Counted, Alive' = Alive
  PROVE  UNCHANGED J!vars
<1>1. \A e \in Event : Fate(e)' = Fate(e)
  BY DEF Fate, Written
<1> QED  BY <1>1 DEF J!vars, Alive

LEMMA OneFate ==
  ASSUME NEW l \in Event, ~Written(l), Alive' = Alive,
         \A e \in Event : Written(e)' = Written(e),
         \A e \in Event : e # l => (e \in Pending' <=> e \in Pending) /\ (e \in Counted' <=> e \in Counted)
  PROVE  /\ Alive /\ l \notin Pending /\ l \notin Counted /\ l \in Pending' => J!Accept(l)
         /\ (l \in Pending \/ l \notin Counted) /\ l \notin Pending' /\ l \in Counted' => J!Drop(l)
<1>1. \A e \in Event : e # l => Fate(e)' = Fate(e)
  BY DEF Fate, Written
<1>2. /\ Fate(l) = IF l \in Pending THEN "pending" ELSE IF l \in Counted THEN "dropped" ELSE "new"
      /\ Fate(l)' = IF l \in Pending' THEN "pending" ELSE IF l \in Counted' THEN "dropped" ELSE "new"
  BY DEF Fate, Written
<1> DEFINE f == [e \in Event |-> Fate(e)]
<1>3. \A x : (Fate(l)' = x) => f' = [f EXCEPT ![l] = x]
  BY <1>1
<1>4. f[l] = Fate(l)
  OBVIOUS
<1> HIDE DEF f
<1>5. ASSUME Alive, l \notin Pending, l \notin Counted, l \in Pending' PROVE J!Accept(l)
  <2>1. f[l] = "new" /\ f' = [f EXCEPT ![l] = "pending"]
    BY <1>2, <1>3, <1>4, <1>5
  <2> QED  BY <1>5, <2>1 DEF J!Accept, Alive, f
<1>6. ASSUME l \in Pending \/ l \notin Counted, l \notin Pending', l \in Counted' PROVE J!Drop(l)
  <2>1. f[l] \in {"new", "pending"} /\ f' = [f EXCEPT ![l] = "dropped"]
    BY <1>2, <1>3, <1>4, <1>6
  <2> QED  BY <2>1 DEF J!Drop, Alive, f
<1> QED  BY <1>5, <1>6

LEMMA JournalProducer ==
  ASSUME JInv, TypeInv', NEW p \in Producers, LogLoad(p) \/ LogStep(p)
  PROVE  [J!Next]_(J!vars)
<1>0. PICK l : l = Logging(p)
  OBVIOUS
<1>1. UNCHANGED <<rpc, offered, refused>>
  BY DEF LogStep, LogLoad, LogCheck, EnqueueEnter, EnqueueRecheck, EnqueueCount,
         EnqueueSend, EnqueueLeave, EnqueueWake, runVars, historyVars
<1>2. /\ \A e \in Event : Written(e)' = Written(e)
      /\ Alive' = Alive
  BY <1>1 DEF Written, Alive
<1>3. pc[p] \notin {"leave", "wake"} => ~Written(l)
  BY <1>0, Fresh, WriterParts DEF JInv, Written
<1>4. CASE /\ EnqueueCount(p)
           /\ l \notin Pending /\ Pending' = Pending \cup {l}
  <2>1. pc[p] = "count"
    BY <1>4 DEF EnqueueCount
  <2>2. l \in Event /\ l \notin Counted
    <3>1. l \in Event
      BY <1>0, <2>1, LoggingType DEF JInv, IInv
    <3>2. l = <<p, calls[p] + 1>> /\ calls[p] \in Nat
      BY <1>0, BoundsAssumption DEF JInv, IInv, TypeInv, TypeOK, Logging
    <3>3. Told(p) = calls[p] /\ Counted = {e \in Event : e[2] <= Told(e[1])}
      BY <2>1, CountedByTold DEF Told, JInv, IInv
    <3> QED  BY <3>1, <3>2, <3>3
  <2>3. \A e \in Event : e # l => (e \in Counted' <=> e \in Counted)
    BY <1>0, CountedProducer DEF JInv, IInv
  <2>4. Alive
    <3>1. held[p] \in Writers /\ rpc[held[p]] # "none"
      BY <2>1 DEF JInv, IInv, TypeInv, Places, Started
    <3>2. rpc[held[p]] # "exit"
      BY <2>1, <3>1 DEF JInv, IInv, DrainIsFinal, Draining
    <3> QED  BY <3>1, <3>2 DEF Alive
  <2>5. J!Accept(l)
    BY <1>2, <1>3, <1>4, <2>1, <2>2, <2>3, <2>4, OneFate
  <2> QED  BY <2>2, <2>5 DEF J!Next
<1>5. CASE /\ EnqueueSend(p)
           /\ l \in Pending /\ Pending' = Pending \ {l}
  <2>1. l \in Event /\ l \in Counted /\ ~Written(l)
    BY <1>5, PendingFacts DEF Written
  <2>2. Counted' = Counted
    BY <1>5, CountedProducer DEF EnqueueSend, JInv, IInv
  <2>3. J!Drop(l)
    BY <1>2, <1>5, <2>1, <2>2, OneFate
  <2> QED  BY <2>1, <2>3 DEF J!Next
<1>6. CASE Pending' = Pending
  <2>1. CASE Counted' = Counted
    BY <1>2, <1>6, <2>1, SameFates
  <2>2. CASE /\ pc[p] \notin {"send", "leave", "wake"}
             /\ l \in Event \ Counted /\ Counted' = Counted \cup {l}
    <3>1. ~Written(l) /\ l \notin Pending
      BY <1>3, <2>2, PendingFacts
    <3>2. J!Drop(l)
      BY <1>2, <1>6, <2>2, <3>1, OneFate
    <3> QED  BY <2>2, <3>2 DEF J!Next
  <2> QED  BY <1>0, <2>1, <2>2, CountedProducer DEF JInv, IInv
<1> QED  BY <1>0, <1>4, <1>5, <1>6, PendingProducer DEF JInv

\* WriteBatch settles the whole batch.
LEMMA JournalSettles ==
  ASSUME NEW S \in SUBSET Event, NEW x \in {"written", "dropped"}, Alive, Alive',
         \A e \in S : Fate(e) = "pending" /\ Fate(e)' = x,
         \A e \in Event \ S : Fate(e)' = Fate(e)
  PROVE  J!Next
<1> DEFINE f == [e \in Event |-> Fate(e)]
<1>1. /\ f' = [e \in Event |-> IF e \in S THEN x ELSE f[e]]
      /\ \A e \in S : f[e] = "pending"
  OBVIOUS
<1>2. J!Settle(S, x)
  BY <1>1 DEF J!Settle, J!PendingEvents, Alive
<1> QED  BY <1>2 DEF J!Next

LEMMA JournalRun ==
  ASSUME JInv, NEW w \in Writers, RunStep(w) \/ PublishOK(w) \/ PublishError(w)
  PROVE  [J!Next]_(J!vars)
<1>0. /\ rpc \in [Writers -> RunPlaces]
      /\ offered \in [Writers -> Seq(Event)] /\ batch \in [Writers -> Seq(Event)]
      /\ refused \in [Writers -> SUBSET Event]
      /\ RunStep(w) \/ SinkStep(w)
  BY DEF JInv, IInv, TypeInv, TypeOK, SinkStep
<1>1. Counted' = Counted
  BY <1>0, RunFrame DEF Counted
<1>2. Alive /\ Alive'
  BY <1>0 DEF Alive, RunStep, RunReceive, RunTick, RunStop, RunWait, RunWake, RunDrain, RunDrained,
              PublishOK, PublishError, BatchDone, AfterPublish, Publishing, Run
<1>3. CASE RunStep(w)
  <2>1. UNCHANGED <<offered, refused>>
    BY <1>3 DEF RunStep, RunReceive, RunTick, RunStop, RunWait, RunWake, RunDrain, RunDrained,
                historyVars
  <2>2. rpc[w] \notin Publishing
    BY <1>3 DEF RunStep, RunReceive, RunTick, RunStop, RunWait, RunWake, RunDrain, RunDrained, Run,
                Publishing
  <2>3. Pending' = Pending
    BY <1>0, <2>2, PendingRun DEF BatchDone, JInv
  <2>4. \A e \in Event : Written(e)' = Written(e)
    BY <2>1 DEF Written
  <2> QED  BY <1>1, <1>2, <2>3, <2>4, SameFates
<1>4. CASE PublishOK(w) \/ PublishError(w)
  <2>0. PICK S : S = Range(batch[w])
    OBVIOUS
  <2>1. /\ BatchDone(w) /\ S \subseteq Pending /\ Pending' = Pending \ S
    BY <1>0, <1>4, <2>0, PendingRun DEF JInv
  <2>2. \A e \in S : e \in Event /\ e \in Counted /\ \A v \in Writers : e \notin Range(offered[v])
    BY <2>1, PendingFacts
  <2>3. /\ Range(offered'[w]) = Range(offered[w]) \cup S
        /\ \A v \in Writers \ {w} : offered'[v] = offered[v]
    <3>1. offered[w] \in Seq(Event) /\ batch[w] \in Seq(Event)
      BY <1>0
    <3>2. /\ offered'[w] = offered[w] \o batch[w]
          /\ \A v \in Writers \ {w} : offered'[v] = offered[v]
      BY <1>0, <2>1 DEF BatchDone
    <3>3. Range(offered[w] \o batch[w]) = Range(offered[w]) \cup Range(batch[w])
      BY <3>1, RangeConcatenation
    <3> QED  BY <2>0, <3>2, <3>3
  <2>4. \A v \in Writers : refused[v] \cap S = {}
    BY <2>2 DEF JInv, Started
  <2>5. \A e \in S : Fate(e) = "pending"
    BY <2>1, <2>2 DEF Fate
  <2>6. CASE PublishOK(w)
    <3>1. UNCHANGED refused
      BY <2>6 DEF PublishOK
    <3>2. \A e \in S : Written(e)'
      BY <2>3, <2>4, <3>1 DEF Written
    <3>3. \A e \in Event \ S : Written(e)' = Written(e)
      BY <2>3, <3>1 DEF Written
    <3>4. \A e \in S : Fate(e)' = "written"
      BY <3>2 DEF Fate, Written
    <3>5. \A e \in Event \ S : Fate(e)' = Fate(e)
      BY <1>1, <2>1, <3>3 DEF Fate, Written
    <3> QED  BY <1>2, <2>2, <2>5, <3>4, <3>5, JournalSettles
  <2>7. CASE PublishError(w)
    <3>1. refused'[w] = refused[w] \cup S /\ \A v \in Writers \ {w} : refused'[v] = refused[v]
      BY <1>0, <2>0, <2>7 DEF PublishError
    <3>2. \A e \in S : ~Written(e)'
      BY <2>2, <2>3, <3>1 DEF Written
    <3>3. \A e \in Event \ S : Written(e)' = Written(e)
      BY <2>3, <3>1 DEF Written
    <3>4. \A e \in S : Fate(e)' = "dropped"
      BY <1>1, <2>1, <2>2, <3>2 DEF Fate, Written
    <3>5. \A e \in Event \ S : Fate(e)' = Fate(e)
      BY <1>1, <2>1, <3>3 DEF Fate, Written
    <3> QED  BY <1>2, <2>2, <2>5, <3>4, <3>5, JournalSettles
  <2> QED  BY <1>4, <2>6, <2>7
<1> QED  BY <1>3, <1>4

\* The sink is closed when nothing is pending any more, and no other sink is in use.
LEMMA JournalShut ==
  ASSUME JInv, OneLiveWriter, NEW w \in Writers, RunClose(w)
  PROVE  J!Next
<1>0. rpc \in [Writers -> RunPlaces] /\ rpc[w] = "close" /\ rpc' = [rpc EXCEPT ![w] = "exit"]
  BY DEF JInv, IInv, TypeInv, TypeOK, RunClose, Run
<1>1. UNCHANGED <<queue, batch, pc, calls, offered, refused>>
  BY DEF RunClose, writerVars, producerVars, historyVars
<1>2. \A v \in Writers \ {w} : rpc[v] \in {"none", "exit"}
  BY <1>0 DEF OneLiveWriter
<1>3. Alive /\ ~Alive'
  BY <1>0, <1>2 DEF Alive
<1>4. \A v \in Writers : queue[v] = <<>> /\ batch[v] = <<>>
  BY <1>0, <1>2 DEF JInv, IInv, DrainIsFinal, Started
<1>5. \A p \in Producers : pc[p] # "send"
  <2> SUFFICES ASSUME NEW p \in Producers, pc[p] = "send" PROVE FALSE
    OBVIOUS
  <2>1. held[p] \in Writers /\ rpc[held[p]] # "none"
    BY DEF JInv, IInv, TypeInv, Places, Started
  <2>2. rpc[held[p]] \in {"close", "exit"}
    BY <1>0, <1>2, <2>1
  <2> QED  BY <2>1, <2>2 DEF JInv, IInv, DrainIsFinal, Draining
<1>6. Pending = {}
  BY <1>4, <1>5 DEF Pending, Range
<1>7. \A e \in Event : Fate(e)' = Fate(e) /\ Fate(e) # "pending"
  BY <1>1, <1>6 DEF Fate, Pending, Counted, Logging
<1>8. J!Shut
  BY <1>3, <1>7 DEF J!Shut, J!PendingEvents, Alive
<1> QED  BY <1>8 DEF J!Next

LEMMA JournalCaller ==
  ASSUME JInv, NEW c \in Callers,
         \/ \E cfg \in Configs, w \in Writers : InitWriter(c, cfg, w)
         \/ CloseSwap(c) \/ CloseStep(c)
  PROVE  [J!Next]_(J!vars)
<1>0. rpc \in [Writers -> RunPlaces]
  BY DEF JInv, IInv, TypeInv, TypeOK
<1>1. UNCHANGED <<offered, refused>> /\ Pending' = Pending /\ Counted' = Counted
  <2>1. UNCHANGED <<offered, refused>>
    BY DEF InitWriter, CloseSwap, CloseStep, CloseRefuse, CloseStop, CloseReturn, historyVars
  <2> QED  BY <2>1, CallerPending
<1>2. \A e \in Event : Written(e)' = Written(e)
  BY <1>1 DEF Written
<1>3. CASE UNCHANGED rpc
  <2>1. Alive' = Alive
    BY <1>3 DEF Alive
  <2> QED  BY <1>1, <1>2, <2>1, SameFates
<1>4. ASSUME NEW cfg \in Configs, NEW w \in Writers, InitWriter(c, cfg, w), rpc' # rpc
      PROVE  J!Next
  <2>1. mu = None /\ current = None /\ rpc' = [rpc EXCEPT ![w] = "select"]
    BY <1>4 DEF InitWriter
  <2>2. ~Alive
    BY <2>1, SetsAssumption DEF Alive, JInv, IInv, LiveIsKnown
  <2>3. Alive'
    BY <1>0, <2>1 DEF Alive
  <2>4. \A e \in Event : Fate(e)' = Fate(e)
    BY <1>1, <1>2 DEF Fate, Written
  <2>5. J!Open
    BY <2>2, <2>3, <2>4 DEF J!Open, Alive
  <2> QED  BY <2>5 DEF J!Next
<1>5. CASE CloseSwap(c) \/ CloseStep(c)
  BY <1>3, <1>5 DEF CloseSwap, CloseStep, CloseRefuse, CloseStop, CloseReturn, runVars
<1> QED  BY <1>3, <1>4, <1>5

LEMMA JournalStep ==
  ASSUME JInv, OneLiveWriter, TypeInv', [Next]_vars
  PROVE  [J!Next]_(J!vars)
<1>1. CASE UNCHANGED vars
  BY <1>1 DEF vars, globalVars, writerVars, runVars, producerVars, callerVars, counters,
              historyVars, J!vars, Fate, Pending, Counted, Logging
<1> QED  BY <1>1, NextActors, JournalProducer, JournalRun, JournalShut, JournalCaller DEF SinkStep

\* Package trail keeps the promise of module Journal: an event gets one fate and keeps it, a
\* batch is written or lost as a whole, and a sink is closed only when no event is pending.
THEOREM WriterImplementsJournal == Spec => JournalSpec
<1>1. Init => Apart /\ Started
  <2> SUFFICES ASSUME Init PROVE Apart /\ Started
    OBVIOUS
  <2>1. Range(<<>>) = {}
    BY DEF Range
  <2> QED  BY <2>1 DEF Init, Apart, Started
<1>2. IInv /\ Apart /\ Started /\ [Next]_vars => (Apart /\ Started)'
  BY ApartStep, StartedStep
<1>3. Init => J!Init
  <2> SUFFICES ASSUME Init PROVE J!Init
    OBVIOUS
  <2>1. Range(<<>>) = {}
    BY DEF Range
  <2>2. Pending = {} /\ Counted = {}
    BY <2>1, BoundsAssumption DEF Init, Pending, Counted, Event
  <2>3. \A e \in Event : Fate(e) = "new"
    BY <2>1, <2>2 DEF Init, Fate
  <2> QED  BY <2>3 DEF Init, J!Init
<1>4. /\ IInv => TypeInv
      /\ IInv /\ Apart /\ Started => JInv
  BY DEF IInv, JInv
<1>5. JInv /\ OneLiveWriter /\ TypeInv' /\ [Next]_vars => [J!Next]_(J!vars)
  BY JournalStep
<1> QED
  BY <1>1, <1>2, <1>3, <1>4, <1>5, InitIInv, NextIInv, NeverTwoWriters, PTL
     DEF Spec, JournalSpec, J!Spec
=============================================================================
