----------------------------- MODULE OverlayPanel -----------------------------
(***************************************************************************)
(* The bar of the overlay in a visitor's page                              *)
(* (packages/overlay/src/overlay.ts): where it is, how it is dragged and   *)
(* kept in the window, what is remembered of its place, and its two        *)
(* buttons with their promises and timers.  (What it shows of the viewers  *)
(* is in OverlayWidget.)                                                   *)
(*                                                                         *)
(* A step is one callback of the page.  Of the two coordinates, which are  *)
(* treated alike, one is modelled.                                         *)
(***************************************************************************)
EXTENDS Integers

CONSTANTS
  Windows,     \* widths of the window
  Width,       \* of the bar; it is narrower by Shorter while it says "Copied"
  Shorter,
  EdgeMargin,
  DragMargin,
  MaxPromises  \* bound: writes to the clipboard, and calls of close, under way

Null == -1     \* no place remembered, or one that cannot be read

ASSUME PanelAssumption ==
  /\ Windows \subseteq Nat /\ \E w \in Windows : \A v \in Windows : v <= w
  /\ Width \in Nat /\ Shorter \in 0..Width
  /\ EdgeMargin \in Nat /\ DragMargin \in 0..EdgeMargin
  /\ MaxPromises \in Nat

VARIABLES
  win,         \* window.innerWidth
  pos,         \* wrap.style.left
  state,       \* the place in memory
  stored,      \* the place in localStorage
  pressing,    \* isPressingDragArea
  dragging,    \* isDragging
  offset,      \* dragOffsetX
  calls,       \* what still calls the overlay: listeners of the window, the interval
  copied,      \* the label says "Copied"
  copyTimers,  \* timers that will set the label back
  copying,     \* writes to the clipboard under way
  feedback,    \* "Copy failed" or "Close failed" is shown
  feedbackTimers,
  closing,     \* the class is-closing, with which the bar takes no pointer
  closes,      \* calls of /.stoat/close under way
  gone         \* teardown has removed the overlay

placeVars == <<pos, state, stored>>
dragVars  == <<pressing, dragging, offset>>
copyVars  == <<copied, copyTimers, copying>>
noteVars  == <<feedback, feedbackTimers>>
closeVars == <<closing, closes>>
vars == <<win, placeVars, dragVars, calls, copyVars, noteVars, closeVars, gone>>

Larger(a, b)  == IF a > b THEN a ELSE b
Smaller(a, b) == IF a < b THEN a ELSE b

clamp(x, low, high) == Larger(low, Smaller(x, high))

BarWidth == IF copied THEN Width - Shorter ELSE Width

\* A slip: the width of the bar is forgotten.
MaxPlaceOfWindow(w, b, margin) == Larger(margin, w - margin)

\* The last place for a bar of width b in a window of width w.
MaxPlace(w, b, margin) == Larger(margin, w - b - margin)

\* placeByState
Placed(x, w, b) ==
  clamp(IF x = Null THEN (w - b) \div 2 ELSE x, EdgeMargin, MaxPlace(w, b, EdgeMargin))

Places == 0..Larger(EdgeMargin, CHOOSE w \in Windows : \A v \in Windows : v <= w)

TypeOK ==
  /\ win \in Windows
  /\ pos \in Places /\ state \in Places \cup {Null} /\ stored \in Places \cup {Null}
  /\ pressing \in BOOLEAN /\ dragging \in BOOLEAN
  /\ calls \subseteq {"pointer", "resize", "viewers"}
  /\ copied \in BOOLEAN /\ feedback \in BOOLEAN /\ closing \in BOOLEAN /\ gone \in BOOLEAN
  /\ copying \in 0..MaxPromises /\ closes \in 0..MaxPromises

\* bootstrapOverlay: loadState and placeByState, and everything else as it begins.
Init ==
  /\ win \in Windows
  /\ stored \in Places \cup {Null} /\ state = stored
  /\ pos = Placed(state, win, Width)
  /\ pressing = FALSE /\ dragging = FALSE /\ offset = 0
  /\ calls = {"resize", "viewers"}
  /\ copied = FALSE /\ copyTimers = 0 /\ copying = 0
  /\ feedback = FALSE /\ feedbackTimers = 0
  /\ closing = FALSE /\ closes = 0
  /\ gone = FALSE

-----------------------------------------------------------------------------
\* What the handlers are made of.

\* saveState; setItem may throw.
Store(x) == stored' \in {x, stored}

\* savePosition
Save(x) == state' = x /\ Store(x)

\* stopDragging
StopDragging ==
  /\ IF dragging THEN Save(pos) ELSE UNCHANGED <<state, stored>>
  /\ pressing' = FALSE /\ dragging' = FALSE
  /\ calls' = calls \ {"pointer"}

\* A slip: the timer there is goes on.
SetAnother(timers) == timers + 1

\* clearTimeout of the timer there is, and setTimeout.
SetAgain(timers) == 1

ShowFeedback == feedback' = TRUE /\ feedbackTimers' = SetAgain(feedbackTimers)

-----------------------------------------------------------------------------
\* The pointer.

\* pointerdown on the bar, not on a button; there may be a second pointer.
PointerDown(x) ==
  /\ ~gone /\ ~closing /\ x \in pos..pos + BarWidth - 1
  /\ offset' = x - pos
  /\ pressing' = TRUE
  /\ calls' = calls \cup {"pointer"}
  /\ UNCHANGED <<win, placeVars, dragging, copyVars, noteVars, closeVars, gone>>

PointerMove(x) ==
  /\ "pointer" \in calls /\ pressing
  /\ dragging' = TRUE
  /\ pos' = clamp(x - offset, DragMargin, MaxPlace(win, BarWidth, DragMargin))
  /\ UNCHANGED <<win, state, stored, pressing, offset, calls, copyVars, noteVars, closeVars, gone>>

\* pointerup or pointercancel
PointerUp ==
  /\ "pointer" \in calls
  /\ StopDragging
  /\ UNCHANGED <<win, pos, offset, copyVars, noteVars, closeVars, gone>>

\* A slip: the place found for the smaller window is not remembered as such.
OnResizeUnsaved(w) ==
  /\ "resize" \in calls
  /\ win' = w
  /\ pos' = clamp(pos, EdgeMargin, MaxPlace(w, BarWidth, EdgeMargin))
  /\ UNCHANGED <<state, stored, dragVars, calls, copyVars, noteVars, closeVars, gone>>

\* onResize, maybe in the middle of a drag, or with the other coordinate only.
OnResize(w) ==
  /\ "resize" \in calls
  /\ win' = w
  /\ pos' = Placed(state, w, BarWidth)
  /\ Save(pos')
  /\ UNCHANGED <<dragVars, calls, copyVars, noteVars, closeVars, gone>>

-----------------------------------------------------------------------------
\* The buttons.

Copy ==
  /\ ~gone /\ copying < MaxPromises
  /\ copying' = copying + 1
  /\ UNCHANGED <<win, placeVars, dragVars, calls, copied, copyTimers, noteVars, closeVars, gone>>

\* The clipboard has the URL; or it is refused.
CopyDone ==
  /\ copying > 0
  /\ copying' = copying - 1
  /\ \/ copied' = TRUE /\ copyTimers' = SetAgain(copyTimers) /\ UNCHANGED noteVars
     \/ ShowFeedback /\ UNCHANGED <<copied, copyTimers>>
  /\ UNCHANGED <<win, placeVars, dragVars, calls, closeVars, gone>>

CopyReset ==
  /\ copyTimers > 0
  /\ copyTimers' = copyTimers - 1
  /\ copied' = FALSE
  /\ UNCHANGED <<win, placeVars, dragVars, calls, copying, noteVars, closeVars, gone>>

FeedbackEnds ==
  /\ feedbackTimers > 0
  /\ feedbackTimers' = feedbackTimers - 1
  /\ feedback' = FALSE
  /\ UNCHANGED <<win, placeVars, dragVars, calls, copyVars, closeVars, gone>>

\* The button; on the keyboard it can be pressed again while the bar is closing.
Close ==
  /\ ~gone /\ closes < MaxPromises
  /\ closes' = closes + 1
  /\ closing' = TRUE
  /\ UNCHANGED <<win, placeVars, dragVars, calls, copyVars, noteVars, gone>>

\* A slip: a drag that is under way keeps its listeners.
TeardownDragging ==
  /\ calls' = calls \cap {"pointer"}
  /\ copyTimers' = 0 /\ feedbackTimers' = 0
  /\ gone' = TRUE
  /\ UNCHANGED <<win, pos, state, stored, dragVars, copied, copying, feedback>>

Teardown ==
  /\ IF dragging THEN Save(pos) ELSE UNCHANGED <<state, stored>>
  /\ pressing' = FALSE /\ dragging' = FALSE
  /\ calls' = {}
  /\ copyTimers' = 0 /\ feedbackTimers' = 0
  /\ gone' = TRUE
  /\ UNCHANGED <<win, pos, offset, copied, copying, feedback>>

\* A slip: only an answer that is not ok brings the bar back.
CloseLostSilent ==
  /\ closes > 0
  /\ closes' = closes - 1
  /\ UNCHANGED <<win, placeVars, dragVars, calls, copyVars, noteVars, closing, gone>>

\* The answer is not ok, or none comes.
CloseFails ==
  /\ closes > 0
  /\ closes' = closes - 1
  /\ closing' = FALSE
  /\ ShowFeedback
  /\ UNCHANGED <<win, placeVars, dragVars, calls, copyVars, gone>>

CloseSucceeds ==
  /\ closes > 0
  /\ closes' = closes - 1
  /\ Teardown
  /\ UNCHANGED closing

-----------------------------------------------------------------------------
\* The page.

\* beforeunload; the visitor may stay all the same.
BeforeUnload == ~gone /\ Teardown /\ UNCHANGED closeVars

\* The page is loaded again, maybe after having been killed; nothing of it is left
\* but what is stored.
Reload ==
  /\ state' = stored
  /\ pos' = Placed(stored, win, Width)
  /\ pressing' = FALSE /\ dragging' = FALSE /\ offset' = 0
  /\ calls' = {"resize", "viewers"}
  /\ copied' = FALSE /\ copyTimers' = 0 /\ copying' = 0
  /\ feedback' = FALSE /\ feedbackTimers' = 0
  /\ closing' = FALSE /\ closes' = 0
  /\ gone' = FALSE
  /\ UNCHANGED <<win, stored>>

\* Another tab of the same tunnel saves the place of its bar.
OtherTab(x) ==
  /\ stored' = x
  /\ UNCHANGED <<win, pos, state, dragVars, calls, copyVars, noteVars, closeVars, gone>>

Next ==
  \/ \E x \in Places : PointerDown(x) \/ PointerMove(x) \/ OtherTab(x)
  \/ PointerUp
  \/ \E w \in Windows : OnResize(w)
  \/ Copy \/ CopyDone \/ CopyReset \/ FeedbackEnds
  \/ Close \/ CloseFails \/ CloseSucceeds
  \/ BeforeUnload \/ Reload

Spec == Init /\ [][Next]_vars

-----------------------------------------------------------------------------
\* Properties.

(* Who has moved the bar, or resized the window, finds it after a reload where it
   was, if localStorage has kept the place and no other tab has saved another: it
   is only moved as far as the margin of a bar that was not dragged. *)
PlaceSurvives ==
  [][Reload /\ stored = state /\ state # Null /\ ~dragging =>
       pos' = Placed(pos, win, Width)]_vars

(* Whatever label the bar had when it was dragged and whatever the window was
   resized to: it begins in the window, and ends there with its shorter label, a
   margin away from the edges, as long as the window has room for that. *)
StaysInWindow ==
  /\ DragMargin <= pos
  /\ pos <= Larger(EdgeMargin, win - (Width - Shorter) - DragMargin)

(* "Copied" and the feedback are there exactly as long as the one timer that ends
   them, however many clicks, promises and answers come in between: none stays for
   ever, and no older timer takes a newer one away. *)
TimersMatch ==
  ~gone => /\ copyTimers = IF copied THEN 1 ELSE 0
           /\ feedbackTimers = IF feedback THEN 1 ELSE 0

(* A bar that takes no pointer has a call of close under way that will give it back
   or take it away: no order of two calls and their answers leaves it dead. *)
ClosingHasAnswer == ~gone /\ closing => closes > 0

(* What may still call an overlay that has been removed: each promise once, and
   then perhaps a timer that its answer has set. *)
StillToCome == 2 * (copying + closes) + copyTimers + feedbackTimers

(* After teardown no listener and no interval calls the overlay, and no drag or
   resize that was under way saves a place.  The promises under way do go on, and
   their answers set timers; but each call uses up one of those that were still to
   come, so that nothing keeps the removed overlay going. *)
QuietWhenGone ==
  [][gone /\ gone' =>
       /\ calls' = {} /\ UNCHANGED <<pos, state>>
       /\ \/ StillToCome' < StillToCome
          \/ UNCHANGED <<copyVars, noteVars, closeVars>>]_vars
=============================================================================
