---------------------------- MODULE OverlayWidget ----------------------------
(***************************************************************************)
(* The overlay in a visitor's page (packages/overlay/src/overlay.ts), with *)
(* the handlers that answer it (gateway/internal/edge/overlay.go) and the  *)
(* loops of the tunnel it shows: it asks for the number of viewers every   *)
(* five seconds, without waiting for the answer to the question before,    *)
(* and closes the tunnel when its button is pressed.                       *)
(*                                                                         *)
(* Both go to the gateway itself and not through the tunnel.  Dragging and *)
(* copying are left out.                                                   *)
(***************************************************************************)
EXTENDS TunnelLoops

CONSTANT Polls  \* requests for the number of viewers that can be under way

VARIABLES
  widget,  \* "shown", "closing" (its button cannot be pressed) or "gone" (teardown)
  answer,  \* the answers under way to questions for the number of viewers, or None
  seen     \* the number in the page

widgetVars == <<widget, answer, seen>>
vars == <<loopVars, widgetVars>>

None == -1

TypeOK ==
  /\ LoopsTypeOK
  /\ widget \in {"shown", "closing", "gone"}
  /\ answer \in [Polls -> Numbers \cup {None}]
  /\ seen \in Numbers

Init ==
  /\ LoopsInit
  /\ widget = "shown"
  /\ answer = [p \in Polls |-> None] /\ seen = 0

-----------------------------------------------------------------------------
\* pollViewers, called at the start and by the interval timer until teardown, up to
\* the answer of handleViewerCount.  (A closed tunnel is not in the registry: 404.)
Ask(p) ==
  /\ widget # "gone" /\ answer[p] = None /\ ~closed
  /\ answer' = [answer EXCEPT ![p] = ViewerCount]
  /\ tracked' = CleanUp(tracked, age)
  /\ UNCHANGED <<linkVars, pingVars, age, countVars, widget, seen>>

\* A slip: an answer of 0 counts as none.
ShowPositive(p) ==
  /\ answer[p] # None
  /\ answer' = [answer EXCEPT ![p] = None]
  /\ seen' = IF answer[p] > 0 THEN answer[p] ELSE seen
  /\ UNCHANGED <<loopVars, widget>>

\* The answer comes, maybe after that to a later question.
Show(p) ==
  /\ answer[p] # None
  /\ answer' = [answer EXCEPT ![p] = None]
  /\ seen' = answer[p]
  /\ UNCHANGED <<loopVars, widget>>

Lose(p) ==
  /\ answer[p] # None
  /\ answer' = [answer EXCEPT ![p] = None]
  /\ UNCHANGED <<loopVars, widget, seen>>

\* The button.
Press ==
  /\ widget = "shown"
  /\ widget' = "closing"
  /\ UNCHANGED <<loopVars, answer, seen>>

\* handleOverlayClose (step by step in GatewaySessions) and what the page makes of
\* its answer: the tunnel is closed, or the request refused; the answer may be lost.
CloseAnswered ==
  /\ widget = "closing"
  /\ \/ ~closed /\ Close /\ widget' \in {"gone", "shown"}
     \/ widget' = "shown" /\ UNCHANGED linkVars
  /\ UNCHANGED <<pingVars, viewerVars, countVars, answer, seen>>

Next ==
  \/ LoopsNext /\ UNCHANGED widgetVars
  \/ \E p \in Polls : Ask(p) \/ Show(p) \/ Lose(p)
  \/ Press \/ CloseAnswered

(* The loops tick, what is under way arrives while the connection is up, and not
   every request of the widget is lost.  Time passes and visitors come as they
   like, and the CLI may leave. *)
Loop(A) == A /\ UNCHANGED widgetVars

Fairness ==
  /\ WF_vars(Loop(ReaderCloses)) /\ WF_vars(Loop(ReadPong)) /\ WF_vars(Loop(PingLoop))
  /\ WF_vars(Loop(CountStops)) /\ WF_vars(Loop(CountTick))
  /\ WF_vars(Loop(CountWrites \/ CountFails)) /\ WF_vars(Loop(ShowCount))
  /\ WF_vars(\E p \in Polls : Ask(p)) /\ SF_vars(\E p \in Polls : Show(p))

Spec == Init /\ [][Next]_vars /\ Fairness

-----------------------------------------------------------------------------
(* A tunnel that has answered every PING stays, although a PONG may be read
   before its PING has been counted and the counter then starts from one: it is
   closed only when its connection is lost, its time is up, its CLI has said
   goodbye, the overlay asks for it, or a PING is without an answer. *)
AnsweringStays ==
  [][~closed /\ closed' =>
       \/ link \in {"down", "left"} \/ expired \/ widget = "closing"
       \/ flight > 0]_vars

(* A tunnel that never says anything again is closed, however its last PONGs and
   the counting of their PINGs fell together. *)
SilentIsClosed == <>[](link # "up") => <>closed

(* Both loops end with the tunnel, also the one that has nothing to write any
   more; each would otherwise stay, with its tunnel, for as long as the gateway
   runs. *)
LoopsEnd == closed ~> (ping = "gone" /\ count = "gone")

Steady == <>[][FALSE]_age

(* When the visitors neither come nor go any more, the CLI comes to show how many
   there are, although it is told of changes only and looks at the map run between
   visits that clean it up too. *)
CliCatchesUp == Steady => <>[](closed \/ shown = Cardinality(Active))

(* So does the page, although its questions overtake each other. *)
WidgetCatchesUp == Steady => <>[](closed \/ widget = "gone" \/ seen = Cardinality(Active))

=============================================================================
