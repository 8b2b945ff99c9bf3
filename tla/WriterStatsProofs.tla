------------------------- MODULE WriterStatsProofs -------------------------
(***************************************************************************)
(* Proofs about what the writer reports: the error that Close returns and  *)
(* the counters of stats.go.  They rest on IInv of WriterProofs.           *)
(***************************************************************************)
EXTENDS WriterProofs

-----------------------------------------------------------------------------
(* What Close returns                                                      *)

\* The first error of a batch is kept until Close has read it, and a writer whose Close
\* has returned publishes no more.
Reported ==
  \A w \in Writers :
    /\ refused[w] # {} => publishErr[w]
    /\ report[w] # "none" => rpc[w] = "exit"
    /\ report[w] = "nil" => ~publishErr[w]

LEMMA ReportedStep ==
  ASSUME TypeInv, Reported, [Next]_vars
  PROVE  Reported'
<1>0. /\ rpc \in [Writers -> RunPlaces]
      /\ publishErr \in [Writers -> BOOLEAN]
      /\ refused \in [Writers -> SUBSET Event]
      /\ report \in [Writers -> {"none", "nil", "error"}]
      /\ \A c \in Callers : cpc[c] # "idle" => closing[c] \in Writers
  BY DEF TypeInv, TypeOK, Places
<1>1. CASE UNCHANGED <<rpc, publishErr, refused, report>>
  BY <1>1 DEF Reported
<1>2. ASSUME NEW p \in Producers, LogLoad(p) \/ LogStep(p)
      PROVE  UNCHANGED <<rpc, publishErr, refused, report>>
  BY <1>2 DEF LogStep, LogLoad, LogCheck, EnqueueEnter, EnqueueRecheck, EnqueueCount, EnqueueSend,
              EnqueueLeave, EnqueueWake, runVars, callerVars, historyVars
<1>3. ASSUME NEW w \in Writers, RunStep(w) \/ RunClose(w)
      PROVE  Reported'
  <2>1. UNCHANGED <<publishErr, refused, report>>
    BY <1>3 DEF RunStep, RunReceive, RunTick, RunStop, RunWait, RunWake, RunDrain, RunDrained,
                RunClose, callerVars, historyVars
  <2>2. rpc' = [rpc EXCEPT ![w] = rpc'[w]] /\ rpc[w] # "exit"
    BY <1>0, <1>3 DEF RunStep, RunReceive, RunTick, RunStop, RunWait, RunWake, RunDrain,
                      RunDrained, RunClose, Run
  <2> QED  BY <1>0, <2>1, <2>2 DEF Reported
<1>4. ASSUME NEW w \in Writers, PublishOK(w) \/ PublishError(w)
      PROVE  Reported'
  <2>1. /\ rpc' = [rpc EXCEPT ![w] = rpc'[w]] /\ rpc[w] # "exit"
        /\ UNCHANGED report
    BY <1>0, <1>4 DEF PublishOK, PublishError, BatchDone, Publishing, callerVars
  <2>2. /\ \A v \in Writers \ {w} : publishErr'[v] = publishErr[v] /\ refused'[v] = refused[v]
        /\ \/ publishErr'[w]
           \/ publishErr'[w] = publishErr[w] /\ refused'[w] = refused[w]
    BY <1>0, <1>4 DEF PublishOK, PublishError
  <2> QED  BY <1>0, <2>1, <2>2 DEF Reported
<1>5. ASSUME NEW c \in Callers, NEW cfg \in Configs, NEW w \in Writers, InitWriter(c, cfg, w)
      PROVE  Reported'
  <2>1. /\ rpc[w] = "none" /\ UNCHANGED <<publishErr, refused, report>>
        /\ \A v \in Writers \ {w} : rpc'[v] = rpc[v]
    BY <1>0, <1>5 DEF InitWriter, callerVars, historyVars
  <2> QED  BY <1>0, <2>1 DEF Reported
<1>6. ASSUME NEW c \in Callers, CloseReturn(c)
      PROVE  Reported'
  <2> DEFINE w == closing[c]
  <2>1. w \in Writers /\ rpc[w] = "exit" /\ UNCHANGED <<rpc, publishErr, refused>>
    BY <1>0, <1>6 DEF CloseReturn, runVars, historyVars
  <2>2. /\ \A v \in Writers \ {w} : report'[v] = report[v]
        /\ report'[w] = "nil" => ~publishErr[w]
    BY <1>0, <1>6, <2>1 DEF CloseReturn
  <2> QED  BY <2>1, <2>2 DEF Reported
<1>7. ASSUME NEW c \in Callers, CloseSwap(c) \/ CloseRefuse(c) \/ CloseStop(c)
      PROVE  UNCHANGED <<rpc, publishErr, refused, report>>
  BY <1>7 DEF CloseSwap, CloseRefuse, CloseStop, runVars, historyVars
<1>8. CASE UNCHANGED vars
  BY <1>1, <1>8 DEF vars, runVars, callerVars, historyVars
<1> QED  BY <1>1, <1>2, <1>3, <1>4, <1>5, <1>6, <1>7, <1>8, NextActors
         DEF SinkStep, CloseStep

\* Close returns nil only if every event the writer's channel took was offered and none was
\* in a batch the sink refused: publish keeps the first error for errors.Join in Close.
THEOREM NilIsHonest == Spec => []NilMeansWritten
<1>1. Init => Reported
  BY DEF Init, Reported
<1>2. IInv /\ Reported /\ [Next]_vars => Reported'
  BY ReportedStep DEF IInv
<1>3. NothingStranded /\ Reported => NilMeansWritten
  <2> SUFFICES ASSUME NothingStranded, Reported, NEW w \in Writers, report[w] = "nil"
               PROVE  offered[w] = accepted[w] /\ refused[w] = {}
    BY DEF NilMeansWritten
  <2>1. rpc[w] = "exit" /\ refused[w] = {}
    BY DEF Reported
  <2> QED  BY <2>1 DEF NothingStranded
<1> QED  BY <1>1, <1>2, <1>3, InitIInv, NextIInv, CloseStrandsNothing, PTL DEF Spec

-----------------------------------------------------------------------------
(* Every Log call is counted once                                          *)

\* The number of p's calls that the counters account for.
Told(p) == IF pc[p] \in {"send", "leave", "wake"} THEN calls[p] + 1 ELSE calls[p]

LEMMA EventFinite == IsFiniteSet(Event)
<1>1. IsFiniteSet(1 .. MaxLogs)
  BY BoundsAssumption, FS_Interval
<1> QED  BY <1>1, SetsAssumption, FS_Product DEF Event

LEMMA CountedByTold ==
  ASSUME TypeInv
  PROVE  Counted = {e \in Event : e[2] <= Told(e[1])}
<1>1. \A e \in Event : e[1] \in Producers /\ e[2] \in Nat
  BY DEF Event
<1>2. \A p \in Producers : calls[p] \in Nat
  BY BoundsAssumption DEF TypeInv, TypeOK
<1>3. ASSUME NEW e \in Event
      PROVE  (\/ e[2] <= calls[e[1]]
              \/ e[2] = calls[e[1]] + 1 /\ pc[e[1]] \in {"send", "leave", "wake"})
             <=> e[2] <= Told(e[1])
  BY <1>1, <1>2 DEF Told
<1> QED  BY <1>3 DEF Counted

\* A step of p either settles the count of its event, and moves one counter, or neither.
LEMMA ToldStep ==
  ASSUME TypeInv, NEW p \in Producers, LogLoad(p) \/ LogStep(p)
  PROVE  /\ \A q \in Producers \ {p} : Told(q)' = Told(q)
         /\ \/ /\ Told(p)' = Told(p)
               /\ written' + dropped' + buffered' = written + dropped + buffered
            \/ /\ Told(p) = calls[p] /\ Told(p)' = calls[p] + 1
               /\ calls[p] < MaxLogs
               /\ written' + dropped' + buffered' = written + dropped + buffered + 1
<1>0. /\ pc \in [Producers -> ProducerPlaces]
      /\ calls \in [Producers -> 0 .. MaxLogs]
      /\ written \in Int /\ dropped \in Int /\ buffered \in Int
      /\ pc[p] # "idle" => calls[p] < MaxLogs
      /\ calls[p] \in Nat
  BY BoundsAssumption DEF TypeInv, TypeOK, Places
<1>1. CASE LogLoad(p) \/ LogCheck(p)
  BY <1>0, <1>1 DEF LogLoad, LogCheck, CountDropped, Return, Goto, Told, counters
<1>2. CASE EnqueueEnter(p) \/ EnqueueRecheck(p)
  BY <1>0, <1>2 DEF EnqueueEnter, EnqueueRecheck, CountDropped, Goto, Told, counters
<1>3. CASE EnqueueCount(p) \/ EnqueueLeave(p) \/ EnqueueWake(p)
  BY <1>0, <1>3 DEF EnqueueCount, EnqueueLeave, EnqueueWake, Return, Goto, Told, counters
<1>4. CASE EnqueueSend(p)
  BY <1>0, <1>4 DEF EnqueueSend, Send, TakeBack, Goto, Told, counters
<1> QED  BY <1>1, <1>2, <1>3, <1>4 DEF LogStep

LEMMA CountedProducer ==
  ASSUME TypeInv, TypeInv', NEW p \in Producers, LogLoad(p) \/ LogStep(p)
  PROVE  \/ /\ Counted' = Counted
            /\ written' + dropped' + buffered' = written + dropped + buffered
         \/ /\ pc[p] \notin {"send", "leave", "wake"}
            /\ Logging(p) \in Event \ Counted /\ Counted' = Counted \cup {Logging(p)}
            /\ written' + dropped' + buffered' = written + dropped + buffered + 1
<1>1. ASSUME NEW e \in Event
      PROVE  e \in Counted' <=> e[2] <= Told(e[1])'
  <2>1. e[1] \in Producers /\ e[2] \in Nat
    BY DEF Event
  <2>2. calls'[e[1]] \in Nat
    BY <2>1, BoundsAssumption DEF TypeInv, TypeOK
  <2> QED  BY <2>1, <2>2 DEF Counted, Told
<1>2. \A e \in Event : e[1] \in Producers /\ e[2] \in Nat /\ e = <<e[1], e[2]>>
  BY DEF Event
<1>3. Counted \subseteq Event /\ Counted' \subseteq Event
  BY DEF Counted
<1>4. \A q \in Producers \ {p} : Told(q)' = Told(q)
  BY ToldStep
<1>5. CASE /\ Told(p)' = Told(p)
           /\ written' + dropped' + buffered' = written + dropped + buffered
  <2>1. Counted' = Counted
    BY <1>1, <1>2, <1>3, <1>4, <1>5, CountedByTold
  <2> QED  BY <1>5, <2>1
<1>6. CASE /\ Told(p) = calls[p] /\ Told(p)' = calls[p] + 1
           /\ calls[p] < MaxLogs
           /\ written' + dropped' + buffered' = written + dropped + buffered + 1
  <2>1. calls[p] \in Nat
    BY BoundsAssumption DEF TypeInv, TypeOK
  <2>2. calls[p] + 1 \in 1 .. MaxLogs
    BY <1>6, <2>1, BoundsAssumption
  <2>3. Logging(p) \in Event /\ Logging(p) = <<p, calls[p] + 1>>
    BY <2>1, <2>2 DEF Logging, Event
  <2>4. Logging(p) \notin Counted /\ pc[p] \notin {"send", "leave", "wake"}
    BY <1>6, <2>1, <2>3, CountedByTold DEF Told
  <2>5. Counted' = Counted \cup {Logging(p)}
    <3>1. ASSUME NEW e \in Event
          PROVE  e \in Counted' <=> e \in Counted \/ e = Logging(p)
      <4>1. CASE e[1] # p
        BY <1>1, <1>2, <1>4, <2>3, <4>1, CountedByTold
      <4>2. CASE e[1] = p
        BY <1>1, <1>2, <1>6, <2>1, <2>3, <4>2, CountedByTold
      <4> QED  BY <4>1, <4>2
    <3> QED  BY <1>3, <2>3, <3>1
  <2> QED  BY <1>6, <2>3, <2>4, <2>5
<1> QED  BY <1>5, <1>6, ToldStep

LEMMA CountedStep ==
  ASSUME TypeInv, TypeInv', EveryLogCountedOnce, [Next]_vars
  PROVE  EveryLogCountedOnce'
<1>0. written \in Int /\ dropped \in Int /\ buffered \in Int
  BY DEF TypeInv, TypeOK
<1>1. IsFiniteSet(Counted)
  <2>1. Counted \in SUBSET Event
    BY DEF Counted
  <2> QED  BY <2>1, EventFinite, FS_Subset
<1>2. ASSUME NEW p \in Producers, LogLoad(p) \/ LogStep(p)
      PROVE  EveryLogCountedOnce'
  <2>1. CASE /\ Counted' = Counted
             /\ written' + dropped' + buffered' = written + dropped + buffered
    BY <2>1 DEF EveryLogCountedOnce
  <2>2. CASE /\ Logging(p) \notin Counted /\ Counted' = Counted \cup {Logging(p)}
             /\ written' + dropped' + buffered' = written + dropped + buffered + 1
    <3>1. Cardinality(Counted') = Cardinality(Counted) + 1
      BY <1>1, <2>2, FS_AddElement
    <3> QED  BY <2>2, <3>1 DEF EveryLogCountedOnce
  <2> QED  BY <1>2, <2>1, <2>2, CountedProducer
<1>3. CASE UNCHANGED <<pc, calls>> /\ written' + dropped' + buffered' = written + dropped + buffered
  BY <1>3 DEF EveryLogCountedOnce, Counted
<1>4. ASSUME NEW w \in Writers, RunStep(w) \/ SinkStep(w)
      PROVE  written' + dropped' + buffered' = written + dropped + buffered
  <2>1. CASE PublishOK(w) \/ PublishError(w)
    <3>1. Len(batch[w]) \in Nat
      BY LenProperties DEF TypeInv, TypeOK
    <3>2. /\ buffered' = buffered - Len(batch[w])
          /\ \/ written' = written + Len(batch[w]) /\ dropped' = dropped
             \/ dropped' = dropped + Len(batch[w]) /\ written' = written
      BY <2>1 DEF PublishOK, PublishError, BatchDone
    <3> QED  BY <1>0, <3>1, <3>2
  <2>2. CASE RunStep(w) \/ RunClose(w)
    BY <2>2 DEF RunStep, RunReceive, RunTick, RunStop, RunWait, RunWake, RunDrain, RunDrained,
                RunClose, counters
  <2> QED  BY <1>4, <2>1, <2>2 DEF SinkStep
<1>5. ASSUME NEW c \in Callers,
             \/ \E cfg \in Configs, w \in Writers : InitWriter(c, cfg, w)
             \/ CloseSwap(c) \/ CloseStep(c)
      PROVE  UNCHANGED counters
  BY <1>5 DEF InitWriter, CloseSwap, CloseStep, CloseRefuse, CloseStop, CloseReturn
<1>6. CASE UNCHANGED vars
  BY <1>3, <1>6 DEF vars, producerVars, counters
<1> QED  BY <1>2, <1>3, <1>4, <1>5, <1>6, NextActors, RunFrame, CallerFrame DEF counters

\* Every Log call is counted exactly once, as written, dropped or buffered: each early return
\* of Log and enqueue and each outcome of publish moves the counters of stats.go by one event.
THEOREM LogsCountedOnce == Spec => []EveryLogCountedOnce
<1>1. Init => EveryLogCountedOnce
  <2> SUFFICES ASSUME Init PROVE EveryLogCountedOnce
    OBVIOUS
  <2>1. Counted = {}
    BY BoundsAssumption DEF Init, Counted, Event
  <2> QED  BY <2>1, FS_EmptySet DEF Init, EveryLogCountedOnce
<1>2. TypeInv /\ EveryLogCountedOnce /\ [Next]_vars => EveryLogCountedOnce'
  BY NextTypeInv, CountedStep
<1> QED  BY <1>1, <1>2, InitTypeInv, NextTypeInv, PTL DEF Spec

-----------------------------------------------------------------------------
(* The gauge of buffered events                                            *)

\* No event is sent on two queues.
Apart ==
  \A v, w \in Writers : v # w => Range(accepted[v]) \cap Range(accepted[w]) = {}

LEMMA RangeAppend ==
  ASSUME NEW s \in Seq(Event), NEW e \in Event
  PROVE  Range(Append(s, e)) = Range(s) \cup {e}
<1>1. <<e>> \in Seq(Event) /\ Append(s, e) = s \o <<e>>
  BY AppendIsConcat
<1>2. Range(<<e>>) = {e}
  BY DEF Range
<1>3. Range(s \o <<e>>) = Range(s) \cup Range(<<e>>)
  BY ZenonT(60), <1>1, RangeConcatenation
<1> QED  BY <1>1, <1>2, <1>3

LEMMA RangeTail ==
  ASSUME NEW s \in Seq(Event), s # <<>>
  PROVE  Range(s) = {Head(s)} \cup Range(Tail(s))
<1>1. Tail(s) \in Seq(Event) /\ <<Head(s)>> \in Seq(Event)
  BY HeadTailProperties
<1>2. s = <<Head(s)>> \o Tail(s)
  BY HeadThenTail
<1>3. Range(<<Head(s)>>) = {Head(s)}
  BY DEF Range
<1>4. Range(<<Head(s)>> \o Tail(s)) = Range(<<Head(s)>>) \cup Range(Tail(s))
  BY ZenonT(60), <1>1, RangeConcatenation
<1> QED  BY <1>2, <1>3, <1>4

\* The three parts of a sequence without repetition.
LEMMA PartsApart ==
  ASSUME NEW a \in Seq(Event), NEW b \in Seq(Event), NEW c \in Seq(Event),
         \A i, j \in DOMAIN (a \o b \o c) : i < j => (a \o b \o c)[i] # (a \o b \o c)[j]
  PROVE  /\ Range(a \o b \o c) = Range(a) \cup Range(b) \cup Range(c)
         /\ Range(a) \cap Range(b) = {} /\ Range(b) \cap Range(c) = {} /\ Range(a) \cap Range(c) = {}
         /\ Cardinality(Range(b)) = Len(b)
<1> DEFINE s == a \o b \o c
           l == Len(a)
           m == Len(b)
           n == Len(c)
<1>1. a \o b \in Seq(Event) /\ Len(a \o b) = l + m /\ l \in Nat /\ m \in Nat /\ n \in Nat
  BY ConcatProperties, LenProperties
<1>2. s \in Seq(Event) /\ Len(s) = (l + m) + n /\ DOMAIN s = 1 .. (l + m) + n
  <2>1. s \in Seq(Event) /\ Len(s) = Len(a \o b) + Len(c)
    BY <1>1, ConcatProperties
  <2> QED  BY <1>1, <2>1, LenProperties
<1>3. Range(s) = Range(a) \cup Range(b) \cup Range(c)
  <2>1. Range(a \o b) = Range(a) \cup Range(b)
    BY RangeConcatenation
  <2>2. Range(s) = Range(a \o b) \cup Range(c)
    BY ZenonT(60), <1>1, RangeConcatenation
  <2> QED  BY <2>1, <2>2
<1>4. \A i \in 1 .. l + m : (a \o b)[i] = IF i <= l THEN a[i] ELSE b[i - l]
  BY ConcatProperties
<1>5. \A i \in 1 .. (l + m) + n : s[i] = IF i <= l + m THEN (a \o b)[i] ELSE c[i - (l + m)]
  <2>1. \A i \in 1 .. Len(a \o b) + Len(c) :
          s[i] = IF i <= Len(a \o b) THEN (a \o b)[i] ELSE c[i - Len(a \o b)]
    BY <1>1, ConcatProperties
  <2> QED  BY <1>1, <2>1
<1>6. /\ Range(a) = {a[i] : i \in 1 .. l}
      /\ Range(b) = {b[i] : i \in 1 .. m}
      /\ Range(c) = {c[i] : i \in 1 .. n}
  BY RangeEquality
<1>7. \A i, j \in 1 .. (l + m) + n : i < j => s[i] # s[j]
  BY <1>2
<1>8. b \in [1 .. m -> Event]
  BY LenProperties
<1> HIDE DEF s, l, m, n
<1>9. ASSUME NEW i \in 1 .. l
      PROVE  i \in 1 .. (l + m) + n /\ s[i] = a[i]
  <2>1. i \in 1 .. l + m /\ i \in 1 .. (l + m) + n /\ i <= l /\ i <= l + m
    BY <1>1
  <2> QED  BY <1>4, <1>5, <2>1
<1>10. ASSUME NEW i \in 1 .. m
       PROVE  l + i \in 1 .. (l + m) + n /\ s[l + i] = b[i]
  <2>1. l + i \in 1 .. l + m /\ l + i \in 1 .. (l + m) + n /\ ~(l + i <= l) /\ l + i <= l + m
        /\ (l + i) - l = i
    BY <1>1
  <2> QED  BY <1>4, <1>5, <2>1
<1>11. ASSUME NEW i \in 1 .. n
       PROVE  (l + m) + i \in 1 .. (l + m) + n /\ s[(l + m) + i] = c[i]
  <2>1. (l + m) + i \in 1 .. (l + m) + n /\ ~((l + m) + i <= l + m)
        /\ ((l + m) + i) - (l + m) = i
    BY <1>1
  <2> QED  BY <1>5, <2>1
<1>12. \A i \in 1 .. l, j \in 1 .. m : a[i] # b[j]
  <2> SUFFICES ASSUME NEW i \in 1 .. l, NEW j \in 1 .. m PROVE a[i] # b[j]
    OBVIOUS
  <2>1. i < l + j
    BY <1>1
  <2> QED  BY <1>7, <1>9, <1>10, <2>1
<1>13. \A i \in 1 .. m, j \in 1 .. n : b[i] # c[j]
  <2> SUFFICES ASSUME NEW i \in 1 .. m, NEW j \in 1 .. n PROVE b[i] # c[j]
    OBVIOUS
  <2>1. l + i < (l + m) + j
    BY <1>1
  <2> QED  BY <1>7, <1>10, <1>11, <2>1
<1>14. \A i \in 1 .. l, j \in 1 .. n : a[i] # c[j]
  <2> SUFFICES ASSUME NEW i \in 1 .. l, NEW j \in 1 .. n PROVE a[i] # c[j]
    OBVIOUS
  <2>1. i < (l + m) + j
    BY <1>1
  <2> QED  BY <1>7, <1>9, <1>11, <2>1
<1>15. Cardinality(Range(b)) = m
  <2>1. \A i, j \in 1 .. m : b[i] = b[j] => i = j
    <3> SUFFICES ASSUME NEW i \in 1 .. m, NEW j \in 1 .. m, i # j PROVE b[i] # b[j]
      OBVIOUS
    <3>1. l + i < l + j \/ l + j < l + i
      BY <1>1
    <3> QED  BY <1>7, <1>10, <3>1
  <2>2. b \in Bijection(1 .. m, Range(b))
    <3>1. b \in [1 .. m -> Range(b)] /\ \A x \in Range(b) : \E i \in 1 .. m : b[i] = x
      BY <1>6, <1>8
    <3>2. IsInjective(b)
      BY <1>8, <2>1 DEF IsInjective
    <3> QED  BY <3>1, <3>2 DEF Bijection, Injection, Surjection
  <2>3. IsFiniteSet(1 .. m) /\ Cardinality(1 .. m) = m
    <3>1. 1 \in Int /\ m \in Int
      BY <1>1
    <3>2. IsFiniteSet(1 .. m) /\ Cardinality(1 .. m) = IF 1 > m THEN 0 ELSE m - 1 + 1
      BY <3>1, FS_Interval, Zenon
    <3> QED  BY <1>1, <3>2
  <2> QED  BY <2>2, <2>3, FS_Bijection DEF ExistsBijection
<1> QED  BY <1>3, <1>6, <1>12, <1>13, <1>14, <1>15 DEF s, m

LEMMA WriterParts ==
  ASSUME IInv, NEW w \in Writers
  PROVE  /\ Range(accepted[w]) = Range(offered[w]) \cup Range(batch[w]) \cup Range(queue[w])
         /\ Range(offered[w]) \cap Range(batch[w]) = {}
         /\ Range(batch[w]) \cap Range(queue[w]) = {}
         /\ Range(offered[w]) \cap Range(queue[w]) = {}
         /\ Cardinality(Range(batch[w])) = Len(batch[w])
         /\ Range(accepted[w]) \subseteq Event
<1>1. /\ offered[w] \in Seq(Event) /\ batch[w] \in Seq(Event) /\ queue[w] \in Seq(Event)
      /\ accepted[w] \in Seq(Event)
      /\ offered[w] \o batch[w] \o queue[w] = accepted[w]
  BY DEF IInv, TypeInv, TypeOK, Flow
<1>2. \A i, j \in DOMAIN accepted[w] : i < j => accepted[w][i] # accepted[w][j]
  <2> SUFFICES ASSUME NEW i \in DOMAIN accepted[w], NEW j \in DOMAIN accepted[w], i < j,
                      accepted[w][i] = accepted[w][j]
               PROVE  FALSE
    OBVIOUS
  <2>1. accepted[w][i][2] < accepted[w][j][2]
    BY DEF IInv, Numbered
  <2>2. accepted[w][i] \in Event
    BY <1>1, LenProperties, ElementOfSeq
  <2>3. accepted[w][i][2] \in Nat
    BY <2>2 DEF Event
  <2> QED  BY <2>1, <2>3
<1>3. Range(accepted[w]) \subseteq Event
  BY <1>1, RangeOfSeq
<1> DEFINE o == offered[w]
           b == batch[w]
           q == queue[w]
<1>4. /\ o \in Seq(Event) /\ b \in Seq(Event) /\ q \in Seq(Event)
      /\ \A i, j \in DOMAIN (o \o b \o q) : i < j => (o \o b \o q)[i] # (o \o b \o q)[j]
  BY <1>1, <1>2
<1>5. /\ Range(o \o b \o q) = Range(o) \cup Range(b) \cup Range(q)
      /\ Range(o) \cap Range(b) = {} /\ Range(b) \cap Range(q) = {} /\ Range(o) \cap Range(q) = {}
      /\ Cardinality(Range(b)) = Len(b)
  <2> HIDE DEF o, b, q
  <2> QED  BY <1>4, PartsApart, ZenonT(40)
<1> QED  BY <1>1, <1>3, <1>5

\* The event a producer is logging is on no queue before it is sent.
LEMMA Fresh ==
  ASSUME IInv, NEW p \in Producers, pc[p] \notin {"leave", "wake"}, NEW w \in Writers
  PROVE  Logging(p) \notin Range(accepted[w])
<1> SUFFICES ASSUME NEW i \in DOMAIN accepted[w], accepted[w][i] = Logging(p)
             PROVE  FALSE
  BY DEF Range
<1>1. accepted[w][i][1] = p /\ accepted[w][i][2] = calls[p] + 1
  BY DEF Logging
<1>2. accepted[w][i][2] <= SoFar(accepted[w][i][1])
  BY DEF IInv, Numbered
<1>3. calls[p] \in Nat
  BY BoundsAssumption DEF IInv, TypeInv, TypeOK
<1> QED  BY <1>1, <1>2, <1>3 DEF SoFar

\* What a producer does to the queues.
LEMMA QueueStep ==
  ASSUME IInv, NEW p \in Producers, LogLoad(p) \/ LogStep(p)
  PROVE  \/ UNCHANGED <<queue, accepted>>
         \/ /\ EnqueueSend(p) /\ UNCHANGED counters
            /\ \E w \in Writers :
                 /\ \A v \in Writers \ {w} : queue'[v] = queue[v] /\ accepted'[v] = accepted[v]
                 /\ Range(queue'[w]) = Range(queue[w]) \cup {Logging(p)}
                 /\ Range(accepted'[w]) = Range(accepted[w]) \cup {Logging(p)}
<1>1. CASE EnqueueSend(p) /\ Send(p)
  <2>1. held[p] \in Writers /\ Logging(p) \in Event
    BY <1>1, LoggingType DEF EnqueueSend, IInv, TypeInv, Places
  <2>2. queue \in [Writers -> Seq(Event)] /\ accepted \in [Writers -> Seq(Event)]
    BY DEF IInv, TypeInv, TypeOK
  <2>3. /\ queue'[held[p]] = Append(queue[held[p]], Logging(p))
        /\ accepted'[held[p]] = Append(accepted[held[p]], Logging(p))
        /\ \A v \in Writers \ {held[p]} : queue'[v] = queue[v] /\ accepted'[v] = accepted[v]
        /\ UNCHANGED counters
    BY <1>1, <2>1, <2>2 DEF Send
  <2>4. queue[held[p]] \in Seq(Event) /\ accepted[held[p]] \in Seq(Event)
    BY <2>1, <2>2
  <2>5. /\ Range(queue'[held[p]]) = Range(queue[held[p]]) \cup {Logging(p)}
        /\ Range(accepted'[held[p]]) = Range(accepted[held[p]]) \cup {Logging(p)}
    BY <2>1, <2>3, <2>4, RangeAppend
  <2> QED  BY <1>1, <2>1, <2>3, <2>5
<1>2. CASE ~(EnqueueSend(p) /\ Send(p))
  BY <1>2 DEF LogLoad, LogStep, LogCheck, EnqueueEnter, EnqueueRecheck, EnqueueCount, EnqueueSend,
              TakeBack, EnqueueLeave, EnqueueWake, writerVars, historyVars
<1> QED  BY <1>1, <1>2

LEMMA ApartStep ==
  ASSUME IInv, Apart, [Next]_vars
  PROVE  Apart'
<1>1. CASE UNCHANGED accepted
  BY <1>1 DEF Apart
<1>2. ASSUME NEW p \in Producers, LogLoad(p) \/ LogStep(p), accepted' # accepted
      PROVE  Apart'
  <2>1. EnqueueSend(p)
    BY <1>2, QueueStep
  <2>2. PICK w \in Writers :
          /\ \A v \in Writers \ {w} : accepted'[v] = accepted[v]
          /\ Range(accepted'[w]) = Range(accepted[w]) \cup {Logging(p)}
    BY <1>2, QueueStep
  <2>3. \A v \in Writers : Logging(p) \notin Range(accepted[v])
    BY <2>1, Fresh DEF EnqueueSend
  <2> QED  BY <2>2, <2>3 DEF Apart
<1>3. CASE UNCHANGED vars
  BY <1>1, <1>3 DEF vars, historyVars
<1> QED  BY <1>1, <1>2, <1>3, NextActors, RunFrame, CallerFrame

\* A producer puts its event on the gauge, hands it to the queue or takes it back.
LEMMA PendingProducer ==
  ASSUME IInv, NEW p \in Producers, LogLoad(p) \/ LogStep(p)
  PROVE  \/ /\ EnqueueCount(p) /\ buffered' = buffered + 1
            /\ Logging(p) \notin Pending /\ Pending' = Pending \cup {Logging(p)}
         \/ /\ EnqueueSend(p) /\ buffered' = buffered - 1
            /\ Logging(p) \in Pending /\ Pending' = Pending \ {Logging(p)}
         \/ /\ ~EnqueueCount(p) /\ UNCHANGED buffered /\ Pending' = Pending
            /\ EnqueueSend(p) => UNCHANGED counters
<1> DEFINE Held == {Logging(q) : q \in {r \in Producers : pc[r] = "send"}}
           Queued == UNION {Range(queue[w]) \cup Range(batch[w]) : w \in Writers}
<1>0. /\ pc \in [Producers -> ProducerPlaces]
      /\ calls \in [Producers -> 0 .. MaxLogs]
      /\ Pending = Held \cup Queued
      /\ \A q \in Producers : Logging(q) = <<q, calls[q] + 1>>
      /\ UNCHANGED batch
  BY ProducerFrame DEF IInv, TypeInv, TypeOK, Pending, Logging
<1>1. pc[p] \notin {"leave", "wake"} => Logging(p) \notin Queued
  BY Fresh, WriterParts
<1>2. \A q \in Producers \ {p} : pc'[q] = pc[q] /\ calls'[q] = calls[q]
  <2>1. CASE LogLoad(p) \/ LogCheck(p) \/ EnqueueEnter(p) \/ EnqueueRecheck(p)
    BY <1>0, <2>1 DEF LogLoad, LogCheck, EnqueueEnter, EnqueueRecheck, Goto, Return
  <2>2. CASE EnqueueCount(p) \/ EnqueueSend(p) \/ EnqueueLeave(p) \/ EnqueueWake(p)
    BY <1>0, <2>2 DEF EnqueueCount, EnqueueSend, EnqueueLeave, EnqueueWake, Goto, Return
  <2> QED  BY <2>1, <2>2 DEF LogStep
<1>3. \A e : e \in Pending' <=>
          \/ \E q \in Producers : pc'[q] = "send" /\ e = <<q, calls'[q] + 1>>
          \/ \E w \in Writers : e \in Range(queue'[w]) \cup Range(batch[w])
  BY <1>0 DEF Pending, Logging
<1>4. \A e : e \in Pending <=>
          \/ \E q \in Producers : pc[q] = "send" /\ e = <<q, calls[q] + 1>>
          \/ \E w \in Writers : e \in Range(queue[w]) \cup Range(batch[w])
  BY DEF Pending, Logging
<1>5. CASE EnqueueCount(p)
  <2>1. /\ pc[p] = "count" /\ pc'[p] = "send" /\ calls'[p] = calls[p] /\ buffered' = buffered + 1
        /\ UNCHANGED queue
    BY <1>0, <1>5 DEF EnqueueCount, Goto, writerVars
  <2>2. Logging(p) \notin Pending
    BY <1>0, <1>1, <2>1
  <2>3. Pending' = Pending \cup {Logging(p)}
    BY <1>0, <1>2, <1>3, <1>4, <2>1
  <2> QED  BY <1>5, <2>1, <2>2, <2>3
<1>6. CASE EnqueueSend(p)
  <2>1. pc[p] = "send" /\ pc'[p] = "leave" /\ calls'[p] = calls[p]
    BY <1>0, <1>6 DEF EnqueueSend, Goto
  <2>2. CASE UNCHANGED <<queue, accepted>>
    <3>1. buffered' = buffered - 1
      <4>1. CASE Send(p)
        <5>1. held[p] \in Writers /\ queue \in [Writers -> Seq(Event)] /\ Logging(p) \in Event
          BY <2>1, LoggingType DEF IInv, TypeInv, TypeOK, Places
        <5>2. queue'[held[p]] = Append(queue[held[p]], Logging(p))
          BY <4>1, <5>1 DEF Send
        <5>3. Len(Append(queue[held[p]], Logging(p))) = Len(queue[held[p]]) + 1
              /\ Len(queue[held[p]]) \in Nat
          BY <5>1, AppendProperties, LenProperties
        <5> QED  BY <2>2, <5>2, <5>3
      <4>2. CASE TakeBack
        BY <4>2 DEF TakeBack
      <4> QED  BY <1>6, <4>1, <4>2 DEF EnqueueSend
    <3>2. Logging(p) \in Pending
      BY <1>0, <1>4, <2>1
    <3>3. Pending' = Pending \ {Logging(p)}
      BY <1>0, <1>1, <1>2, <1>3, <1>4, <2>1, <2>2
    <3> QED  BY <1>6, <3>1, <3>2, <3>3
  <2>3. CASE ~UNCHANGED <<queue, accepted>>
    <3>1. PICK w \in Writers :
            /\ \A v \in Writers \ {w} : queue'[v] = queue[v]
            /\ Range(queue'[w]) = Range(queue[w]) \cup {Logging(p)}
      BY <2>3, QueueStep
    <3>2. UNCHANGED counters
      BY <2>3, QueueStep
    <3>3. Pending' = Pending
      <4>1. ASSUME NEW q \in Producers, NEW e
            PROVE  pc'[q] = "send" /\ e = <<q, calls'[q] + 1>>
                     <=> q # p /\ pc[q] = "send" /\ e = <<q, calls[q] + 1>>
        BY <1>2, <2>1
      <4>2. \A e : (\E v \in Writers : e \in Range(queue'[v]) \cup Range(batch[v]))
                     <=> \/ e = Logging(p)
                         \/ \E v \in Writers : e \in Range(queue[v]) \cup Range(batch[v])
        BY Zenon, <3>1
      <4>3. Logging(p) = <<p, calls[p] + 1>>
        BY DEF Logging
      <4>4. \A e : e \in Pending' <=> e \in Pending
        BY Zenon, <1>3, <1>4, <2>1, <4>1, <4>2, <4>3
      <4> QED  BY Zenon, <4>4
    <3>4. ~EnqueueCount(p)
      BY <2>1 DEF EnqueueCount
    <3> QED  BY <3>2, <3>3, <3>4 DEF counters
  <2> QED  BY <2>2, <2>3
<1>7. CASE ~EnqueueCount(p) /\ ~EnqueueSend(p)
  <2>1. UNCHANGED queue /\ UNCHANGED buffered
    BY <1>7 DEF LogLoad, LogStep, LogCheck, EnqueueEnter, EnqueueRecheck, EnqueueLeave, EnqueueWake,
                CountDropped, writerVars, counters
  <2>2. pc[p] # "send" /\ pc'[p] # "send"
    BY <1>0, <1>7 DEF LogLoad, LogStep, LogCheck, EnqueueEnter, EnqueueRecheck, EnqueueLeave,
                      EnqueueWake, Goto, Return
  <2>3. Pending' = Pending
    BY <1>2, <1>3, <1>4, <2>1, <2>2
  <2> QED  BY <1>7, <2>1, <2>3
<1> QED  BY <1>5, <1>6, <1>7

\* run moves an event from the queue to the batch, and takes a whole batch off the gauge.
LEMMA PendingRun ==
  ASSUME IInv, Apart, NEW w \in Writers, RunStep(w) \/ SinkStep(w)
  PROVE  \/ UNCHANGED <<buffered, offered>> /\ Pending' = Pending /\ ~PublishOK(w) /\ ~PublishError(w)
         \/ /\ BatchDone(w) /\ Range(batch[w]) \subseteq Pending
            /\ Pending' = Pending \ Range(batch[w])
<1>0. /\ queue \in [Writers -> Seq(Event)]
      /\ batch \in [Writers -> Seq(Event)]
      /\ UNCHANGED <<pc, calls>>
  BY RunFrame DEF IInv, TypeInv, TypeOK
<1>1. \A e : e \in Pending' <=>
          \/ \E q \in Producers : pc[q] = "send" /\ e = <<q, calls[q] + 1>>
          \/ \E v \in Writers : e \in Range(queue'[v]) \cup Range(batch'[v])
  BY <1>0 DEF Pending, Logging
<1>2. \A e : e \in Pending <=>
          \/ \E q \in Producers : pc[q] = "send" /\ e = <<q, calls[q] + 1>>
          \/ \E v \in Writers : e \in Range(queue[v]) \cup Range(batch[v])
  BY DEF Pending, Logging
<1>3. CASE RunReceive(w) \/ RunDrain(w)
  <2>1. /\ queue[w] # <<>> /\ queue'[w] = Tail(queue[w]) /\ batch'[w] = Append(batch[w], Head(queue[w]))
        /\ \A v \in Writers \ {w} : queue'[v] = queue[v] /\ batch'[v] = batch[v]
        /\ UNCHANGED <<buffered, offered>>
    BY <1>0, <1>3 DEF RunReceive, RunDrain, Receive, counters, historyVars
  <2>2. queue[w] \in Seq(Event) /\ batch[w] \in Seq(Event)
    BY <1>0
  <2>3. Range(queue[w]) = {Head(queue[w])} \cup Range(Tail(queue[w])) /\ Head(queue[w]) \in Event
    BY <2>1, <2>2, RangeTail, HeadTailProperties
  <2>4. Range(batch'[w]) = Range(batch[w]) \cup {Head(queue[w])}
    BY <2>1, <2>2, <2>3, RangeAppend
  <2>5. Range(queue'[w]) \cup Range(batch'[w]) = Range(queue[w]) \cup Range(batch[w])
    BY <2>1, <2>3, <2>4
  <2>6. Pending' = Pending
    <3>1. ASSUME NEW v \in Writers
          PROVE  Range(queue'[v]) \cup Range(batch'[v]) = Range(queue[v]) \cup Range(batch[v])
      BY Zenon, <2>1, <2>5
    <3>2. \A e : e \in Pending' <=> e \in Pending
      BY Zenon, <1>1, <1>2, <3>1
    <3> QED  BY Zenon, <3>2
  <2>7. ~PublishOK(w) /\ ~PublishError(w)
    BY <1>3 DEF RunReceive, RunDrain, Run, PublishOK, PublishError, BatchDone, Publishing
  <2> QED  BY <2>1, <2>6, <2>7
<1>4. CASE PublishOK(w) \/ PublishError(w)
  <2>1. BatchDone(w) /\ UNCHANGED queue
    BY <1>4 DEF PublishOK, PublishError, writerVars
  <2>2. batch'[w] = <<>> /\ \A v \in Writers \ {w} : batch'[v] = batch[v]
    BY <1>0, <2>1 DEF BatchDone
  <2>3. Range(batch'[w]) = {}
    <3>1. Range(<<>>) = {}
      BY DEF Range
    <3> QED  BY Zenon, <2>2, <3>1
  <2>4. \A v \in Writers : Range(queue[v]) \cup Range(batch[v]) \subseteq Range(accepted[v])
    BY WriterParts
  <2>5. ASSUME NEW q \in Producers, pc[q] = "send"
        PROVE  <<q, calls[q] + 1>> \notin Range(batch[w])
    <3>1. Logging(q) \notin Range(accepted[w])
      BY <2>5, Fresh
    <3> QED  BY <2>4, <3>1 DEF Logging
  <2>6. Range(batch[w]) \cap Range(queue[w]) = {}
    BY WriterParts
  <2>7. \A v \in Writers \ {w} : Range(batch[w]) \cap (Range(queue[v]) \cup Range(batch[v])) = {}
    BY <2>4 DEF Apart
  <2>8. Range(batch[w]) \subseteq Pending
    BY <1>2
  <2>9. Pending' = Pending \ Range(batch[w])
    BY <1>1, <1>2, <2>1, <2>2, <2>3, <2>5, <2>6, <2>7
  <2> QED  BY <2>1, <2>8, <2>9
<1>5. CASE RunTick(w) \/ RunStop(w) \/ RunWait(w) \/ RunWake(w) \/ RunDrained(w) \/ RunClose(w)
  <2>1. UNCHANGED <<queue, batch, buffered, offered>>
    BY <1>5 DEF RunTick, RunStop, RunWait, RunWake, RunDrained, RunClose, writerVars, counters,
                historyVars
  <2>2. ~PublishOK(w) /\ ~PublishError(w)
    BY <1>5 DEF RunTick, RunStop, RunWait, RunWake, RunDrained, RunClose, Run, PublishOK,
                PublishError, BatchDone, Publishing
  <2>3. Pending' = Pending
    BY <1>1, <1>2, <2>1
  <2> QED  BY <2>1, <2>2, <2>3
<1> QED  BY <1>3, <1>4, <1>5 DEF RunStep, SinkStep

LEMMA PendingFinite == ASSUME IInv PROVE IsFiniteSet(Pending)
<1>1. \A p \in Producers : pc[p] = "send" => Logging(p) \in Event
  BY LoggingType DEF IInv
<1>2. Pending \in SUBSET Event
  BY <1>1, WriterParts DEF Pending
<1> QED  BY <1>2, EventFinite, FS_Subset

LEMMA CallerPending ==
  ASSUME NEW c \in Callers,
         \/ \E cfg \in Configs, w \in Writers : InitWriter(c, cfg, w)
         \/ CloseSwap(c) \/ CloseStep(c)
  PROVE  UNCHANGED counters /\ Pending' = Pending /\ Counted' = Counted
<1>1. UNCHANGED <<queue, batch, pc, calls>>
  BY CallerFrame
<1>2. UNCHANGED counters
  BY DEF InitWriter, CloseSwap, CloseStep, CloseRefuse, CloseStop, CloseReturn
<1> QED  BY <1>1, <1>2 DEF Pending, Logging, Counted

LEMMA GaugeStep ==
  ASSUME IInv, Apart, BufferedGauge, [Next]_vars
  PROVE  BufferedGauge'
<1>0. IsFiniteSet(Pending) /\ buffered = Cardinality(Pending)
  BY PendingFinite DEF BufferedGauge
<1>1. CASE UNCHANGED buffered /\ Pending' = Pending
  BY <1>1 DEF BufferedGauge
<1>2. ASSUME NEW p \in Producers, LogLoad(p) \/ LogStep(p)
      PROVE  BufferedGauge'
  <2>1. CASE /\ buffered' = buffered + 1
             /\ Logging(p) \notin Pending /\ Pending' = Pending \cup {Logging(p)}
    <3>1. Cardinality(Pending \cup {Logging(p)}) = Cardinality(Pending) + 1
      BY <1>0, <2>1, FS_AddElement
    <3> QED  BY <1>0, <2>1, <3>1 DEF BufferedGauge
  <2>2. CASE /\ buffered' = buffered - 1
             /\ Logging(p) \in Pending /\ Pending' = Pending \ {Logging(p)}
    <3>1. Cardinality(Pending \ {Logging(p)}) = Cardinality(Pending) - 1
      BY <1>0, <2>2, FS_RemoveElement
    <3> QED  BY <1>0, <2>2, <3>1 DEF BufferedGauge
  <2> QED  BY <1>1, <1>2, <2>1, <2>2, PendingProducer
<1>3. ASSUME NEW w \in Writers, RunStep(w) \/ SinkStep(w)
      PROVE  BufferedGauge'
  <2>1. CASE /\ BatchDone(w) /\ Range(batch[w]) \subseteq Pending
             /\ Pending' = Pending \ Range(batch[w])
    <3>1. buffered' = buffered - Len(batch[w]) /\ Cardinality(Range(batch[w])) = Len(batch[w])
      BY <2>1, WriterParts DEF BatchDone
    <3>2. Pending \cap Range(batch[w]) = Range(batch[w])
      BY <2>1
    <3>3. Cardinality(Pending \ Range(batch[w])) = Cardinality(Pending) - Cardinality(Range(batch[w]))
      BY <1>0, <3>2, FS_Difference
    <3> QED  BY <1>0, <2>1, <3>1, <3>3 DEF BufferedGauge
  <2> QED  BY <1>1, <1>3, <2>1, PendingRun
<1>4. CASE UNCHANGED vars
  BY <1>1, <1>4 DEF vars, writerVars, runVars, producerVars, counters, Pending, Logging
<1> QED  BY <1>1, <1>2, <1>3, <1>4, NextActors, CallerPending DEF counters

\* The Buffered gauge of stats.go is exactly the number of pending events, so the unsigned
\* counter never wraps and is zero when nothing is pending: each Add in enqueue and publish
\* goes with an event that enters or leaves.
THEOREM GaugeIsExact == Spec => []BufferedGauge
<1>1. Init => Apart /\ BufferedGauge
  <2> SUFFICES ASSUME Init PROVE Apart /\ BufferedGauge
    OBVIOUS
  <2>1. Range(<<>>) = {}
    BY DEF Range
  <2>2. Apart /\ Pending = {}
    BY <2>1 DEF Init, Apart, Pending
  <2> QED  BY <2>2, FS_EmptySet DEF Init, BufferedGauge
<1>2. IInv /\ Apart /\ BufferedGauge /\ [Next]_vars => (Apart /\ BufferedGauge)'
  BY ApartStep, GaugeStep
<1> QED  BY <1>1, <1>2, InitIInv, NextIInv, PTL DEF Spec
=============================================================================
