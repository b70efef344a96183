------------------------- MODULE OverlayWidgetProofs -------------------------
(***************************************************************************)
(* For every set of visitors, window and number of requests under way: the *)
(* types of a tunnel's loops and of the widget, and that a tunnel which    *)
(* answers is not given up.                                                *)
(***************************************************************************)
EXTENDS OverlayWidget, FiniteSetTheorems, TLAPS

\* The size of any part of the map is a number that VIEWER_COUNT can carry.
LEMMA CountType ==
  ASSUME NEW S \in SUBSET Viewers
  PROVE  Cardinality(S) \in Numbers
<1>1. /\ Cardinality(Viewers) \in Nat /\ IsFiniteSet(S)
      /\ Cardinality(S) <= Cardinality(Viewers)
  BY TunnelLoopsAssumption, FS_CardinalityType, FS_Subset
<1>2. Cardinality(S) \in Nat
  BY <1>1, FS_CardinalityType
<1> QED
  BY <1>1, <1>2 DEF Numbers

LEMMA ViewerCountType ==
  ASSUME tracked \subseteq Viewers
  PROVE  ViewerCount \in Numbers /\ CleanUp(tracked, age) \subseteq Viewers
<1>1. CleanUp(tracked, age) \subseteq Viewers
  BY DEF CleanUp
<1> QED
  BY <1>1, CountType DEF ViewerCount

\* The types, by groups of variables that change together.
LinkType ==
  /\ closed \in BOOLEAN /\ link \in {"up", "left", "stalled", "down"}
  /\ expired \in BOOLEAN

PingType ==
  missed \in 0..2 /\ flight \in 0..MaxFlight /\ ping \in {"wait", "written", "gone"}

ViewerType == age \in [Viewers -> 0..Window + 1] /\ tracked \subseteq Viewers

CountVarsType ==
  /\ count \in {"wait", "changed", "gone"} /\ last \in Numbers \cup {-1}
  /\ count = "changed" => last \in Numbers
  /\ wire \in Seq(Numbers) /\ Len(wire) <= MaxWire /\ shown \in Numbers

WidgetType ==
  /\ widget \in {"shown", "closing", "gone"}
  /\ answer \in [Polls -> Numbers \cup {None}]
  /\ seen \in Numbers

\* A PING that has been counted and not answered is still in flight, but for one,
\* whose PONG may have been read before it was counted.
Counted ==
  /\ ping = "written" => missed <= flight /\ missed <= 1
  /\ ping # "written" => missed <= flight + 1

IInv == LinkType /\ PingType /\ ViewerType /\ CountVarsType /\ WidgetType /\ Counted

LEMMA InitIInv == Init => IInv
<1> SUFFICES ASSUME Init PROVE IInv
  OBVIOUS
<1>1. 0 \in Numbers
  <2>1. Cardinality({}) = 0
    BY FS_EmptySet
  <2> QED
    BY <2>1, CountType
<1>2. LinkType
  <2>1. closed \in BOOLEAN
    BY DEF Init, LoopsInit
  <2>2. link \in {"up", "left", "stalled", "down"}
    BY DEF Init, LoopsInit
  <2>3. expired \in BOOLEAN
    BY DEF Init, LoopsInit
  <2> QED
    BY <2>1, <2>2, <2>3 DEF LinkType
<1>6. PingType /\ Counted
  BY TunnelLoopsAssumption DEF Init, LoopsInit, PingType, Counted
<1>3. ViewerType
  BY TunnelLoopsAssumption DEF Init, LoopsInit, ViewerType
<1>4. CountVarsType
  BY <1>1, TunnelLoopsAssumption DEF Init, LoopsInit, CountVarsType
<1>5. WidgetType
  BY <1>1 DEF Init, WidgetType, None
<1> QED
  BY <1>2, <1>3, <1>4, <1>5, <1>6 DEF IInv

\* pingLoop and the reader.
LEMMA PingStep ==
  ASSUME PingType, Counted, PingLoop \/ ReadPong \/ UNCHANGED pingVars
  PROVE  PingType' /\ Counted'
<1> USE TunnelLoopsAssumption DEF PingType, Counted, pingVars
<1>1. CASE PingStops
  BY <1>1 DEF PingStops
<1>2. CASE PingGivesUp
  BY <1>2 DEF PingGivesUp
<1>3. CASE PingWrites
  <2>1. ping' = "written" /\ missed' = missed /\ missed <= 1
    BY <1>3 DEF PingWrites, TooMany
  <2>2. flight' \in 0..MaxFlight /\ flight' >= 1
    BY <1>3 DEF PingWrites
  <2> QED
    BY <2>1, <2>2
<1>4. CASE PingCounts
  BY <1>4 DEF PingCounts
<1>5. CASE ReadPong
  BY <1>5 DEF ReadPong
<1>6. CASE UNCHANGED pingVars
  BY <1>6
<1> QED
  BY <1>1, <1>2, <1>3, <1>4, <1>5, <1>6 DEF PingLoop

LEMMA VisitStep ==
  ASSUME ViewerType, NEW v \in Viewers, Visit(v)
  PROVE  ViewerType'
<1>1. age' \in [Viewers -> 0..Window + 1]
  BY TunnelLoopsAssumption DEF ViewerType, Visit
<1>2. tracked' \subseteq Viewers
  BY DEF ViewerType, Visit, CleanUp
<1> QED
  BY <1>1, <1>2 DEF ViewerType

LEMMA ElapseStep ==
  ASSUME ViewerType, Elapse
  PROVE  ViewerType'
<1>1. ASSUME NEW v \in Viewers
      PROVE  (IF age[v] <= Window THEN age[v] + 1 ELSE age[v]) \in 0..Window + 1
  BY TunnelLoopsAssumption DEF ViewerType
<1> QED
  BY <1>1 DEF ViewerType, Elapse

\* viewerCountLoop and the CLI.
LEMMA CountStep ==
  ASSUME ViewerType, CountVarsType,
         CountStops \/ CountTick \/ CountWrites \/ CountFails \/ ShowCount
  PROVE  ViewerType' /\ CountVarsType'
<1> USE DEF ViewerType, CountVarsType, viewerVars
<1>1. CASE CountStops
  BY <1>1 DEF CountStops
<1>2. CASE CountTick
  BY <1>2, ViewerCountType DEF CountTick
<1>3. CASE CountWrites
  <2>1. wire' \in Seq(Numbers) /\ Len(wire') = Len(wire) + 1
    BY <1>3 DEF CountWrites
  <2> QED
    BY <1>3, <2>1, TunnelLoopsAssumption DEF CountWrites
<1>4. CASE CountFails
  BY <1>4 DEF CountFails
<1>5. CASE ShowCount
  <2>1. Head(wire) \in Numbers /\ Tail(wire) \in Seq(Numbers) /\ Len(Tail(wire)) = Len(wire) - 1
    BY <1>5 DEF ShowCount
  <2> QED
    BY <1>5, <2>1, TunnelLoopsAssumption DEF ShowCount
<1> QED
  BY <1>1, <1>2, <1>3, <1>4, <1>5

\* The questions of the widget, which clean the map up as well, and their answers.
LEMMA PollStep ==
  ASSUME ViewerType, WidgetType, NEW p \in Polls, Ask(p) \/ Show(p) \/ Lose(p)
  PROVE  ViewerType' /\ WidgetType'
<1> USE DEF ViewerType, WidgetType
<1>1. CASE Ask(p)
  BY <1>1, ViewerCountType DEF Ask
<1>2. CASE Show(p)
  BY <1>2 DEF Show, loopVars, viewerVars
<1>3. CASE Lose(p)
  BY <1>3 DEF Lose, loopVars, viewerVars
<1> QED
  BY <1>1, <1>2, <1>3

LEMMA NextIInv == IInv /\ [Next]_vars => IInv'
<1> SUFFICES ASSUME IInv, [Next]_vars PROVE IInv'
  OBVIOUS
<1> USE DEF IInv, linkVars, countVars, widgetVars
<1>1. ASSUME LoopsNext, UNCHANGED widgetVars PROVE IInv'
  <2>0. WidgetType'
    BY <1>1 DEF WidgetType
  <2>1. CASE Stall \/ Break \/ Leave \/ ReaderCloses \/ Expire \/ CheckExpiry
    <3>1. LinkType'
      BY <2>1 DEF LinkType, Stall, Break, Leave, ReaderCloses, Expire, CheckExpiry, Close
    <3>2. UNCHANGED <<pingVars, viewerVars, countVars>>
      BY <2>1 DEF Stall, Break, Leave, ReaderCloses, Expire, CheckExpiry
    <3> QED
      BY <2>0, <3>1, <3>2, PingStep DEF ViewerType, CountVarsType, viewerVars
  <2>2. CASE ReadPong \/ PingLoop
    <3>1. LinkType'
      BY <2>2 DEF LinkType, ReadPong, PingLoop, PingStops, PingGivesUp, PingWrites,
         PingCounts, Close
    <3>2. UNCHANGED <<viewerVars, countVars>>
      BY <2>2 DEF ReadPong, PingLoop, PingStops, PingGivesUp, PingWrites, PingCounts
    <3> QED
      BY <2>0, <2>2, <3>1, <3>2, PingStep DEF ViewerType, CountVarsType, viewerVars
  <2>3. CASE Elapse \/ \E v \in Viewers : Visit(v)
    <3>1. UNCHANGED <<linkVars, pingVars, countVars>>
      BY <2>3 DEF Elapse, Visit
    <3> QED
      BY <2>0, <2>3, <3>1, VisitStep, ElapseStep, PingStep DEF LinkType, CountVarsType
  <2>4. CASE CountStops \/ CountTick \/ CountWrites \/ CountFails \/ ShowCount
    <3>1. LinkType' /\ UNCHANGED pingVars
      BY <2>4 DEF LinkType, CountStops, CountTick, CountWrites, CountFails, ShowCount, Close
    <3> QED
      BY <2>0, <2>4, <3>1, CountStep, PingStep
  <2> QED
    BY <1>1, <2>1, <2>2, <2>3, <2>4 DEF LoopsNext
<1>2. ASSUME NEW p \in Polls, Ask(p) \/ Show(p) \/ Lose(p) PROVE IInv'
  <2>1. UNCHANGED <<linkVars, pingVars, countVars>>
    BY <1>2 DEF Ask, Show, Lose, loopVars
  <2> QED
    BY <1>2, <2>1, PollStep, PingStep DEF LinkType, CountVarsType
<1>3. CASE Press \/ CloseAnswered
  <2>1. LinkType' /\ WidgetType'
    BY <1>3 DEF Press, CloseAnswered, LinkType, WidgetType, Close, loopVars
  <2>2. UNCHANGED <<pingVars, viewerVars, countVars>>
    BY <1>3 DEF Press, CloseAnswered, loopVars
  <2> QED
    BY <2>1, <2>2, PingStep DEF ViewerType, CountVarsType, viewerVars
<1>4. CASE UNCHANGED vars
  BY <1>4, PingStep DEF vars, loopVars, viewerVars, LinkType, ViewerType, CountVarsType, WidgetType
<1> QED
  BY <1>1, <1>2, <1>3, <1>4 DEF Next

\* The types of the loops and of the widget, for any number of visitors.
THEOREM TypeCorrect == Spec => []TypeOK
<1>1. IInv => TypeOK
  BY DEF IInv, TypeOK, LoopsTypeOK, LinkType, PingType, ViewerType, CountVarsType, WidgetType
<1> QED
  BY <1>1, InitIInv, NextIInv, PTL DEF Spec

\* pingLoop gives up no tunnel without an unanswered PING, although it counts a PING
\* after it may have been answered; every other end of a tunnel that answers has one
\* of the four causes named.
THEOREM AnsweringTunnelStays == Spec => AnsweringStays
<1> DEFINE Cause ==
      \/ link \in {"down", "left"} \/ expired \/ widget = "closing"
      \/ flight > 0
<1>1. ASSUME IInv, Next, ~closed, closed'
      PROVE  Cause
  <2>1. CASE PingGivesUp
    BY <1>1, <2>1, TunnelLoopsAssumption
    DEF IInv, PingType, LinkType, Counted, PingGivesUp, TooMany, Writable
  <2>2. CASE ReaderCloses \/ CountFails \/ CheckExpiry
    BY <1>1, <2>2 DEF ReaderCloses, CountFails, CheckExpiry, Writable
  <2>3. CASE CloseAnswered
    BY <2>3 DEF CloseAnswered
  <2>4. CASE UNCHANGED closed
    BY <1>1, <2>4
  <2>5. PingGivesUp \/ ReaderCloses \/ CountFails \/ CheckExpiry \/ CloseAnswered
        \/ UNCHANGED closed
    BY <1>1 DEF Next, LoopsNext, Stall, Break, Leave, Expire, ReadPong, PingLoop, PingStops,
       PingWrites, PingCounts, Elapse, Visit, CountStops, CountTick, CountWrites, ShowCount,
       Ask, Show, Lose, Press, loopVars, linkVars
  <2> QED
    BY <2>1, <2>2, <2>3, <2>4, <2>5
<1>2. IInv /\ [Next]_vars => [~closed /\ closed' => Cause]_vars
  BY <1>1
<1> QED
  BY <1>2, InitIInv, NextIInv, PTL DEF Spec, AnsweringStays

=============================================================================
