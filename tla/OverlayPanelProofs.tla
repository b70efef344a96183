------------------------- MODULE OverlayPanelProofs -------------------------
(***************************************************************************)
(* Proofs about OverlayPanel, for every width of window and bar and every  *)
(* margin.                                                                 *)
(***************************************************************************)
EXTENDS OverlayPanel, TLAPS

\* What the proofs need to know of the types.
Types ==
  /\ win \in Windows
  /\ pos \in Nat /\ state \in Nat \cup {Null} /\ stored \in Nat \cup {Null}
  /\ pressing \in BOOLEAN /\ dragging \in BOOLEAN /\ offset \in Int
  /\ copied \in BOOLEAN
  /\ closes \in Nat

-----------------------------------------------------------------------------
\* The arithmetic of a place.

LEMMA PlacesAreNumbers == Places \subseteq Nat
<1> DEFINE m == CHOOSE w \in Windows : \A v \in Windows : v <= w
<1>1. m \in Nat
  BY PanelAssumption
<1> HIDE DEF m
<1>2. Larger(EdgeMargin, m) \in Nat
  BY <1>1, PanelAssumption DEF Larger
<1>3. 0..Larger(EdgeMargin, m) \subseteq Nat
  BY <1>2
<1> QED
  BY <1>3 DEF Places, m

LEMMA MaxPlaceBounds ==
  ASSUME NEW w \in Int, NEW b \in Int, NEW m \in Int
  PROVE  MaxPlace(w, b, m) \in Int /\ m <= MaxPlace(w, b, m)
BY DEF MaxPlace, Larger

\* The bar is placed between the edge margins of the window.
LEMMA PlacedBounds ==
  ASSUME NEW x \in Nat \cup {Null}, NEW w \in Nat, NEW b \in Nat
  PROVE  /\ Placed(x, w, b) \in Nat
         /\ EdgeMargin <= Placed(x, w, b)
         /\ Placed(x, w, b) <= MaxPlace(w, b, EdgeMargin)
<1> DEFINE y == IF x = Null THEN (w - b) \div 2 ELSE x
<1>1. y \in Int
  BY DEF Null
<1>2. EdgeMargin \in Nat
  BY PanelAssumption
<1>3. MaxPlace(w, b, EdgeMargin) \in Int /\ EdgeMargin <= MaxPlace(w, b, EdgeMargin)
  BY <1>2, MaxPlaceBounds
<1>4. Placed(x, w, b) = clamp(y, EdgeMargin, MaxPlace(w, b, EdgeMargin))
  BY DEF Placed
<1> HIDE DEF y
<1>5. /\ clamp(y, EdgeMargin, MaxPlace(w, b, EdgeMargin)) \in Int
      /\ EdgeMargin <= clamp(y, EdgeMargin, MaxPlace(w, b, EdgeMargin))
      /\ clamp(y, EdgeMargin, MaxPlace(w, b, EdgeMargin)) <= MaxPlace(w, b, EdgeMargin)
  BY <1>1, <1>2, <1>3 DEF clamp, Larger, Smaller
<1> QED
  BY <1>2, <1>4, <1>5

\* Placing twice is placing once.
LEMMA PlacedAgain ==
  ASSUME NEW x \in Nat \cup {Null}, NEW w \in Nat, NEW b \in Nat
  PROVE  Placed(Placed(x, w, b), w, b) = Placed(x, w, b)
<1> DEFINE p == Placed(x, w, b)
<1>1. p \in Nat /\ EdgeMargin <= p /\ p <= MaxPlace(w, b, EdgeMargin)
  BY PlacedBounds
<1>2. EdgeMargin \in Nat /\ MaxPlace(w, b, EdgeMargin) \in Int
  BY PanelAssumption, MaxPlaceBounds
<1> HIDE DEF p
<1>3. p # Null
  BY <1>1 DEF Null
<1>4. Placed(p, w, b) = clamp(p, EdgeMargin, MaxPlace(w, b, EdgeMargin))
  BY <1>3 DEF Placed
<1>5. clamp(p, EdgeMargin, MaxPlace(w, b, EdgeMargin)) = p
  BY <1>1, <1>2 DEF clamp, Larger, Smaller
<1> QED
  BY <1>4, <1>5 DEF p

-----------------------------------------------------------------------------
\* Types.

LEMMA BarWidthType == copied \in BOOLEAN => BarWidth \in Nat /\ Width - Shorter <= BarWidth
BY PanelAssumption DEF BarWidth

LEMMA InitTypes == Init => Types
<1> SUFFICES ASSUME Init PROVE Types
  OBVIOUS
<1>1. stored \in Nat \cup {Null} /\ state = stored /\ win \in Nat /\ Width \in Nat
  BY PlacesAreNumbers, PanelAssumption DEF Init
<1>2. Placed(state, win, Width) \in Nat
  BY <1>1, PlacedBounds
<1>3. pos \in Nat
  BY <1>2 DEF Init
<1>4. pressing \in BOOLEAN /\ dragging \in BOOLEAN /\ copied \in BOOLEAN
  BY Zenon DEF Init
<1>5. win \in Windows /\ offset = 0 /\ closes = 0
  BY DEF Init
<1> QED
  BY <1>1, <1>3, <1>4, <1>5 DEF Types

\* Where a pointer may take the bar.
LEMMA DraggedBounds ==
  ASSUME Types, NEW x \in Int
  PROVE  /\ clamp(x, DragMargin, MaxPlace(win, BarWidth, DragMargin)) \in Nat
         /\ DragMargin <= clamp(x, DragMargin, MaxPlace(win, BarWidth, DragMargin))
         /\ clamp(x, DragMargin, MaxPlace(win, BarWidth, DragMargin))
              <= MaxPlace(win, BarWidth, DragMargin)
<1> DEFINE p == clamp(x, DragMargin, MaxPlace(win, BarWidth, DragMargin))
<1>1. win \in Nat /\ BarWidth \in Nat /\ DragMargin \in Nat
  BY BarWidthType, PanelAssumption DEF Types
<1>2. /\ MaxPlace(win, BarWidth, DragMargin) \in Int
      /\ DragMargin <= MaxPlace(win, BarWidth, DragMargin)
  BY <1>1, MaxPlaceBounds
<1>3. p \in Int /\ DragMargin <= p /\ p <= MaxPlace(win, BarWidth, DragMargin)
  BY <1>1, <1>2 DEF clamp, Larger, Smaller
<1> HIDE DEF p
<1>4. p \in Nat
  BY <1>1, <1>3
<1> QED
  BY <1>3, <1>4 DEF p

LEMMA StepTypes == Types /\ [Next]_vars => Types'
<1> SUFFICES ASSUME Types, [Next]_vars PROVE Types'
  OBVIOUS
<1> USE DEF Types
<1>0. CASE UNCHANGED vars
  BY <1>0 DEF vars, placeVars, dragVars, copyVars, closeVars
<1>1. ASSUME NEW x \in Places, PointerDown(x) PROVE Types'
  BY <1>1, PlacesAreNumbers DEF PointerDown, placeVars, copyVars, closeVars
<1>2. ASSUME NEW x \in Places, PointerMove(x) PROVE Types'
  <2>1. x - offset \in Int
    BY PlacesAreNumbers
  <2>2. pos' \in Nat
    BY <1>2, <2>1, DraggedBounds DEF PointerMove
  <2> QED
    BY <1>2, <2>2 DEF PointerMove, copyVars, closeVars
<1>3. ASSUME NEW x \in Places, OtherTab(x) PROVE Types'
  BY <1>3, PlacesAreNumbers DEF OtherTab, dragVars, copyVars, closeVars
<1>4. CASE PointerUp
  BY <1>4 DEF PointerUp, StopDragging, Save, Store, copyVars, closeVars
<1>5. ASSUME NEW w \in Windows, OnResize(w) PROVE Types'
  <2>1. w \in Nat /\ BarWidth \in Nat
    BY BarWidthType, PanelAssumption
  <2>2. pos' \in Nat
    BY <1>5, <2>1, PlacedBounds DEF OnResize
  <2> QED
    BY <1>5, <2>2 DEF OnResize, Save, Store, dragVars, copyVars, closeVars
<1>6. CASE Copy \/ CopyDone \/ CopyReset \/ FeedbackEnds
  BY <1>6 DEF Copy, CopyDone, CopyReset, FeedbackEnds, placeVars, dragVars, copyVars, closeVars
<1>7. CASE Close \/ CloseFails
  BY <1>7 DEF Close, CloseFails, placeVars, dragVars, copyVars
<1>8. CASE CloseSucceeds \/ BeforeUnload
  <2>1. Teardown /\ closes' \in Nat
    BY <1>8 DEF CloseSucceeds, BeforeUnload, closeVars
  <2>2. pressing' \in BOOLEAN /\ dragging' \in BOOLEAN
    BY <2>1, Zenon DEF Teardown
  <2>3. win' = win /\ pos' = pos /\ offset' = offset /\ copied' = copied
    BY <2>1 DEF Teardown
  <2>4. state' \in Nat \cup {Null} /\ stored' \in Nat \cup {Null}
    BY <2>1 DEF Teardown, Save, Store
  <2> QED
    BY <2>1, <2>2, <2>3, <2>4
<1>9. CASE Reload
  <2>1. win \in Nat /\ Width \in Nat /\ stored \in Nat \cup {Null}
    BY PanelAssumption
  <2>2. Placed(stored, win, Width) \in Nat
    BY <2>1, PlacedBounds
  <2>3. pos' \in Nat /\ state' = stored /\ stored' = stored /\ win' = win
    BY <1>9, <2>2 DEF Reload
  <2>4. pressing' \in BOOLEAN /\ dragging' \in BOOLEAN /\ copied' \in BOOLEAN
    BY <1>9, Zenon DEF Reload
  <2>5. offset' = 0 /\ closes' = 0
    BY <1>9 DEF Reload
  <2> QED
    BY <2>3, <2>4, <2>5
<1> QED
  BY <1>0, <1>1, <1>2, <1>3, <1>4, <1>5, <1>6, <1>7, <1>8, <1>9 DEF Next

LEMMA TypesHold == Spec => []Types
BY InitTypes, StepTypes, PTL DEF Spec

-----------------------------------------------------------------------------
\* The bar stays in the window.

\* What the two margins and the two labels leave of the difference.
LEMMA PlaceIsInWindow ==
  ASSUME NEW w \in Nat, NEW b \in Nat, Width - Shorter <= b,
         NEW m \in {EdgeMargin, DragMargin},
         NEW p \in Nat, m <= p, p <= MaxPlace(w, b, m)
  PROVE  DragMargin <= p /\ p <= Larger(EdgeMargin, w - (Width - Shorter) - DragMargin)
BY PanelAssumption DEF MaxPlace, Larger

LEMMA StepInWindow == Types /\ StaysInWindow /\ [Next]_vars => StaysInWindow'
<1> SUFFICES ASSUME Types, StaysInWindow, [Next]_vars PROVE StaysInWindow'
  OBVIOUS
<1>1. win \in Nat /\ BarWidth \in Nat /\ Width \in Nat
      /\ Width - Shorter <= BarWidth /\ Width - Shorter <= Width
  BY BarWidthType, PanelAssumption DEF Types
<1>2. CASE UNCHANGED <<win, pos>>
  BY <1>2 DEF StaysInWindow
<1>3. ASSUME NEW x \in Places, PointerMove(x) PROVE StaysInWindow'
  <2>1. x - offset \in Int
    BY PlacesAreNumbers DEF Types
  <2>2. /\ pos' \in Nat /\ DragMargin <= pos'
        /\ pos' <= MaxPlace(win, BarWidth, DragMargin)
    BY <1>3, <2>1, DraggedBounds DEF PointerMove
  <2>3. win' = win
    BY <1>3 DEF PointerMove
  <2> QED
    BY <1>1, <2>2, <2>3, PlaceIsInWindow DEF StaysInWindow
<1>4. ASSUME NEW w \in Windows, OnResize(w) PROVE StaysInWindow'
  <2>1. w \in Nat /\ state \in Nat \cup {Null}
    BY PanelAssumption DEF Types
  <2>2. /\ Placed(state, w, BarWidth) \in Nat
        /\ EdgeMargin <= Placed(state, w, BarWidth)
        /\ Placed(state, w, BarWidth) <= MaxPlace(w, BarWidth, EdgeMargin)
    BY <1>1, <2>1, PlacedBounds
  <2>3. win' = w /\ pos' = Placed(state, w, BarWidth)
    BY <1>4 DEF OnResize
  <2> QED
    BY <1>1, <2>1, <2>2, <2>3, PlaceIsInWindow DEF StaysInWindow
<1>5. CASE Reload
  <2>1. stored \in Nat \cup {Null}
    BY DEF Types
  <2>2. /\ Placed(stored, win, Width) \in Nat
        /\ EdgeMargin <= Placed(stored, win, Width)
        /\ Placed(stored, win, Width) <= MaxPlace(win, Width, EdgeMargin)
    BY <1>1, <2>1, PlacedBounds
  <2>3. win' = win /\ pos' = Placed(stored, win, Width)
    BY <1>5 DEF Reload
  <2> QED
    BY <1>1, <2>2, <2>3, PlaceIsInWindow DEF StaysInWindow
<1> QED
  BY <1>2, <1>3, <1>4, <1>5
  DEF Next, PointerDown, OtherTab, PointerUp, Copy, CopyDone, CopyReset, FeedbackEnds,
      Close, CloseFails, CloseSucceeds, BeforeUnload, Teardown, placeVars, vars

\* Whatever the widths and margins are, drags, resizes, labels and reloads leave the
\* bar in the window, as far as there is room.
THEOREM BarStaysInWindow == Spec => []StaysInWindow
<1>1. Init => StaysInWindow
  <2> SUFFICES ASSUME Init PROVE StaysInWindow
    OBVIOUS
  <2>1. win \in Nat /\ Width \in Nat /\ Width - Shorter <= Width
        /\ state \in Nat \cup {Null} /\ pos = Placed(state, win, Width)
    BY PlacesAreNumbers, PanelAssumption DEF Init
  <2>2. pos \in Nat /\ EdgeMargin <= pos /\ pos <= MaxPlace(win, Width, EdgeMargin)
    BY <2>1, PlacedBounds
  <2> QED
    BY <2>1, <2>2, PlaceIsInWindow DEF StaysInWindow
<1> QED
  BY <1>1, TypesHold, StepInWindow, PTL DEF Spec

-----------------------------------------------------------------------------
\* The place after a reload.

(* What is remembered is the place of the bar, but for the margin: whenever no drag
   is under way, both are put in the same place. *)
Remembered ==
  ~dragging /\ state # Null => Placed(pos, win, Width) = Placed(state, win, Width)

LEMMA StepRemembered == Types /\ Remembered /\ [Next]_vars => Remembered'
<1> SUFFICES ASSUME Types, Remembered, [Next]_vars PROVE Remembered'
  OBVIOUS
<1>1. CASE UNCHANGED <<win, pos, state, dragging>>
  BY <1>1 DEF Remembered
<1>2. ASSUME NEW x \in Places, PointerMove(x) PROVE Remembered'
  BY <1>2 DEF PointerMove, Remembered
<1>3. CASE PointerUp \/ Teardown
  <2>1. win' = win /\ pos' = pos
    BY <1>3 DEF PointerUp, Teardown
  <2>2. CASE dragging
    BY <1>3, <2>1, <2>2 DEF PointerUp, StopDragging, Teardown, Save, Store, Remembered
  <2>3. CASE ~dragging
    BY <1>3, <2>1, <2>3 DEF PointerUp, StopDragging, Teardown, Remembered
  <2> QED
    BY <2>2, <2>3
<1>4. ASSUME NEW w \in Windows, OnResize(w) PROVE Remembered'
  BY <1>4 DEF OnResize, Save, Store, Remembered
<1>5. CASE Reload
  <2>1. win \in Nat /\ Width \in Nat /\ stored \in Nat \cup {Null}
    BY PanelAssumption DEF Types
  <2>2. win' = win /\ state' = stored /\ pos' = Placed(stored, win, Width)
    BY <1>5 DEF Reload
  <2> QED
    BY <2>1, <2>2, PlacedAgain DEF Remembered
<1> QED
  BY <1>1, <1>2, <1>3, <1>4, <1>5
  DEF Next, PointerDown, OtherTab, Copy, CopyDone, CopyReset, FeedbackEnds,
      Close, CloseFails, CloseSucceeds, BeforeUnload, placeVars, dragVars, vars

\* A reload puts the bar where it was, whatever was done to it and the window before.
THEOREM PlaceIsKept == Spec => PlaceSurvives
<1>1. Init => Remembered
  <2> SUFFICES ASSUME Init PROVE Remembered
    OBVIOUS
  <2>1. win \in Nat /\ Width \in Nat /\ state \in Nat \cup {Null}
        /\ pos = Placed(state, win, Width)
    BY PlacesAreNumbers, PanelAssumption DEF Init
  <2> QED
    BY <2>1, PlacedAgain DEF Remembered
<1>2. Remembered /\ Next =>
        (Reload /\ stored = state /\ state # Null /\ ~dragging => pos' = Placed(pos, win, Width))
  BY DEF Remembered, Reload
<1>3. Remembered /\ [Next]_vars =>
        [Reload /\ stored = state /\ state # Null /\ ~dragging => pos' = Placed(pos, win, Width)]_vars
  BY <1>2
<1> QED
  BY <1>1, <1>3, TypesHold, StepRemembered, PTL DEF Spec, PlaceSurvives

-----------------------------------------------------------------------------
\* Timers, calls of close, and the end.

LEMMA StepTimers == TimersMatch /\ [Next]_vars => TimersMatch'
<1> SUFFICES ASSUME TimersMatch, [Next]_vars PROVE TimersMatch'
  OBVIOUS
<1> USE DEF TimersMatch
<1>1. CASE UNCHANGED <<copied, copyTimers, feedback, feedbackTimers, gone>>
  BY <1>1
<1>2. CASE CopyDone
  <2>1. gone' = gone
    BY <1>2 DEF CopyDone
  <2>2. CASE copied' = TRUE /\ copyTimers' = SetAgain(copyTimers) /\ UNCHANGED noteVars
    BY <2>1, <2>2 DEF SetAgain, noteVars
  <2>3. CASE ShowFeedback /\ UNCHANGED <<copied, copyTimers>>
    BY <2>1, <2>3 DEF SetAgain, ShowFeedback
  <2> QED
    BY <1>2, <2>2, <2>3 DEF CopyDone
<1>3. CASE CopyReset
  <2>1. ~gone => copyTimers' = 0
    BY <1>3 DEF CopyReset
  <2> QED
    BY <1>3, <2>1 DEF CopyReset, noteVars
<1>4. CASE FeedbackEnds
  <2>1. ~gone => feedbackTimers' = 0
    BY <1>4 DEF FeedbackEnds
  <2> QED
    BY <1>4, <2>1 DEF FeedbackEnds, copyVars
<1>5. CASE CloseFails
  BY <1>5 DEF CloseFails, ShowFeedback, SetAgain, copyVars
<1>6. CASE Teardown
  BY <1>6 DEF Teardown
<1>7. CASE Reload
  BY <1>7 DEF Reload
<1> QED
  BY <1>1, <1>2, <1>3, <1>4, <1>5, <1>6, <1>7
  DEF Next, PointerDown, PointerMove, PointerUp, OnResize, OtherTab, Copy, Close,
      CloseSucceeds, BeforeUnload, copyVars, noteVars, vars

\* Neither label outlives its timer and no timer outlives its label, whatever the
\* order of clicks and answers.
THEOREM LabelsEnd == Spec => []TimersMatch
<1>1. Init => TimersMatch
  BY DEF Init, TimersMatch
<1> QED
  BY <1>1, StepTimers, PTL DEF Spec

LEMMA StepClosing == Types /\ ClosingHasAnswer /\ [Next]_vars => ClosingHasAnswer'
<1> SUFFICES ASSUME Types, ClosingHasAnswer, [Next]_vars PROVE ClosingHasAnswer'
  OBVIOUS
<1> USE DEF ClosingHasAnswer
<1>1. CASE UNCHANGED <<closing, closes, gone>>
  BY <1>1
<1>2. CASE Close
  <2>1. closes' > 0
    BY <1>2 DEF Close, Types
  <2> QED
    BY <2>1
<1>3. CASE CloseFails
  BY <1>3 DEF CloseFails
<1>4. CASE Teardown
  BY <1>4 DEF Teardown
<1>5. CASE Reload
  BY <1>5 DEF Reload
<1> QED
  BY <1>1, <1>2, <1>3, <1>4, <1>5
  DEF Next, PointerDown, PointerMove, PointerUp, OnResize, OtherTab, Copy, CopyDone,
      CopyReset, FeedbackEnds, CloseSucceeds, BeforeUnload, closeVars, vars

\* A bar that takes no pointer is waiting for an answer.
THEOREM ClosingWaits == Spec => []ClosingHasAnswer
<1>1. Init => ClosingHasAnswer
  BY DEF Init, ClosingHasAnswer
<1> QED
  BY <1>1, TypesHold, StepClosing, PTL DEF Spec

\* Once torn down, the overlay is not called by the page and not dragged.
Quiet == gone => calls = {} /\ ~dragging

Counts ==
  copying \in Nat /\ closes \in Nat /\ copyTimers \in Nat /\ feedbackTimers \in Nat

LEMMA StepCounts == Counts /\ [Next]_vars => Counts'
<1> SUFFICES ASSUME Counts, [Next]_vars PROVE Counts'
  OBVIOUS
<1> USE DEF Counts
<1>1. CASE UNCHANGED <<copying, closes, copyTimers, feedbackTimers>>
  BY <1>1
<1>2. CASE Copy \/ CopyReset \/ FeedbackEnds \/ Close
  BY <1>2 DEF Copy, CopyReset, FeedbackEnds, Close, copyVars, noteVars, closeVars
<1>3. CASE CopyDone \/ CloseFails
  BY <1>3 DEF CopyDone, CloseFails, ShowFeedback, SetAgain, copyVars, noteVars, closeVars
<1>4. CASE CloseSucceeds \/ BeforeUnload
  BY <1>4 DEF CloseSucceeds, BeforeUnload, Teardown, closeVars
<1>5. CASE Reload
  BY <1>5 DEF Reload
<1> QED
  BY <1>1, <1>2, <1>3, <1>4, <1>5
  DEF Next, PointerDown, PointerMove, PointerUp, OnResize, OtherTab, copyVars, noteVars,
      closeVars, vars

\* What a step does to an overlay that is gone before and after it.
StaysQuiet ==
  /\ calls' = {} /\ UNCHANGED <<pos, state>>
  /\ \/ StillToCome' < StillToCome
     \/ UNCHANGED <<copyVars, noteVars, closeVars>>

LEMMA StepQuiet ==
  Quiet /\ Counts /\ [Next]_vars => Quiet' /\ (gone /\ gone' => StaysQuiet)
<1> SUFFICES ASSUME Quiet, Counts, [Next]_vars
             PROVE  Quiet' /\ (gone /\ gone' => StaysQuiet)
  OBVIOUS
<1> USE DEF Quiet
<1>1. ASSUME UNCHANGED <<calls, dragging, gone, pos, state>>,
             StillToCome' < StillToCome \/ UNCHANGED <<copyVars, noteVars, closeVars>>
      PROVE  Quiet' /\ (gone /\ gone' => StaysQuiet)
  BY <1>1 DEF StaysQuiet
<1>2. ASSUME NEW x \in Places, PointerDown(x) \/ PointerMove(x)
      PROVE  ~gone /\ ~gone'
  BY <1>2 DEF PointerDown, PointerMove
<1>3. CASE PointerUp
  BY <1>3 DEF PointerUp
<1>4. ASSUME NEW w \in Windows, OnResize(w) PROVE ~gone /\ ~gone'
  BY <1>4 DEF OnResize
<1>5. CASE Copy \/ Close
  BY <1>5 DEF Copy, Close, dragVars
<1>6. CASE CopyDone
  <2>1. UNCHANGED <<calls, dragging, gone, pos, state>>
    BY <1>6 DEF CopyDone, placeVars, dragVars
  <2>2. /\ copying' = copying - 1 /\ closes' = closes
        /\ \/ copyTimers' = 1 /\ feedbackTimers' = feedbackTimers
           \/ copyTimers' = copyTimers /\ feedbackTimers' = 1
    BY <1>6 DEF CopyDone, ShowFeedback, SetAgain, noteVars, closeVars
  <2>3. StillToCome' < StillToCome
    BY <2>2 DEF StillToCome, Counts
  <2> QED
    BY <1>1, <2>1, <2>3
<1>7. CASE CopyReset \/ FeedbackEnds
  <2>1. UNCHANGED <<calls, dragging, gone, pos, state>>
    BY <1>7 DEF CopyReset, FeedbackEnds, placeVars, dragVars
  <2>2. StillToCome' < StillToCome
    BY <1>7 DEF CopyReset, FeedbackEnds, StillToCome, Counts, copyVars, noteVars, closeVars
  <2> QED
    BY <1>1, <2>1, <2>2
<1>8. CASE CloseFails
  <2>1. UNCHANGED <<calls, dragging, gone, pos, state>>
    BY <1>8 DEF CloseFails, placeVars, dragVars
  <2>2. StillToCome' < StillToCome
    BY <1>8 DEF CloseFails, ShowFeedback, SetAgain, StillToCome, Counts, copyVars
  <2> QED
    BY <1>1, <2>1, <2>2
<1>9. CASE CloseSucceeds
  <2>1. calls' = {} /\ ~dragging' /\ pos' = pos
    BY <1>9 DEF CloseSucceeds, Teardown
  <2>2. gone => state' = state
    BY <1>9 DEF CloseSucceeds, Teardown
  <2>3. StillToCome' < StillToCome
    BY <1>9 DEF CloseSucceeds, Teardown, StillToCome, Counts
  <2> QED
    BY <2>1, <2>2, <2>3 DEF StaysQuiet
<1>10. CASE BeforeUnload
  BY <1>10 DEF BeforeUnload, Teardown
<1>11. CASE Reload
  BY <1>11 DEF Reload
<1>12. ASSUME NEW x \in Places, OtherTab(x)
       PROVE  Quiet' /\ (gone /\ gone' => StaysQuiet)
  BY <1>1, <1>12 DEF OtherTab, dragVars
<1>13. CASE UNCHANGED vars
  BY <1>1, <1>13 DEF vars, placeVars, dragVars
<1> QED
  BY <1>2, <1>3, <1>4, <1>5, <1>6, <1>7, <1>8, <1>9, <1>10, <1>11, <1>12, <1>13 DEF Next

\* However many promises are under way at the teardown: the page does not call the
\* removed overlay, and what the promises and their timers do to it comes to an end.
THEOREM GoneIsQuiet == Spec => QuietWhenGone
<1>1. Init => Quiet /\ Counts
  BY DEF Init, Quiet, Counts
<1>2. Quiet /\ Counts /\ [Next]_vars => Quiet' /\ Counts'
  BY StepQuiet, StepCounts
<1>3. Quiet /\ Counts /\ [Next]_vars =>
        [gone /\ gone' =>
           /\ calls' = {} /\ UNCHANGED <<pos, state>>
           /\ \/ StillToCome' < StillToCome
              \/ UNCHANGED <<copyVars, noteVars, closeVars>>]_vars
  BY StepQuiet DEF StaysQuiet
<1> QED
  BY <1>1, <1>2, <1>3, PTL DEF Spec, QuietWhenGone

=============================================================================
