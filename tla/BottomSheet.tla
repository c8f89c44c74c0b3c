----------------------------- MODULE BottomSheet -----------------------------
(***************************************************************************)
(* The sign-up sheet at the bottom of the login page: an animation          *)
(* controller between 0 (folded) and Top (open) that taps fling and drags   *)
(* move.  A drag takes the sheet out of a running animation and must hand   *)
(* it back to one when the finger leaves, or it hangs half open.            *)
(***************************************************************************)
EXTENDS Integers

CONSTANT Top        \* the steps between folded and open

ASSUME TopAssumption == Top \in Nat \ {0}

VARIABLES
    value,          \* _controller.value
    status,         \* _controller.status
    direction,      \* the controller's last fling direction
    ticker,         \* of the controller: active while _controller.isAnimating
    finger          \* what the gesture recogniser makes of the finger

vars == <<value, status, direction, ticker, finger>>

isAnimating == ticker = "active"

TypeOK ==
    /\ value \in 0 .. Top
    /\ status \in {"dismissed", "forward", "reverse", "completed"}
    /\ direction \in {"forward", "reverse"}
    /\ ticker \in {"active", "stopped"}
    /\ finger \in {"up", "down", "dragging"}

-----------------------------------------------------------------------------
(***************************************************************************)
(* AnimationController.                                                     *)
(***************************************************************************)
\* Mutant: the value is not clamped.
NoClamp(n) == n

Clamp(n) == IF n < 0 THEN 0 ELSE IF n > Top THEN Top ELSE n

\* Setting the value stops the animation.
SetValue(n) ==
    /\ value' = Clamp(n)
    /\ ticker' = "stopped"
    /\ status' = CASE value' = 0   -> "dismissed"
                   [] value' = Top -> "completed"
                   [] OTHER        -> direction
    /\ UNCHANGED direction

\* A fling runs to the edge in the sign of its velocity.
Fling(velocity) ==
    /\ direction' = IF velocity < 0 THEN "reverse" ELSE "forward"
    /\ status' = direction'
    /\ ticker' = "active"
    /\ UNCHANGED value

\* Mutant: the spring is done one step short of the folded edge.
TickShort ==
    /\ isAnimating
    /\ \/ /\ direction = "forward" /\ value < Top
          /\ value' = value + 1
          /\ UNCHANGED <<status, ticker>>
       \/ /\ direction = "reverse" /\ value > 1
          /\ value' = value - 1
          /\ UNCHANGED <<status, ticker>>
       \/ /\ direction = "forward" /\ value = Top
          /\ status' = "completed" /\ ticker' = "stopped"
          /\ UNCHANGED value
       \/ /\ direction = "reverse" /\ value <= 1
          /\ status' = "dismissed" /\ ticker' = "stopped"
          /\ UNCHANGED value
    /\ UNCHANGED <<direction, finger>>

\* A frame of the fling: the spring moves the sheet, or is done at its edge.
Tick ==
    /\ isAnimating
    /\ \/ /\ direction = "forward" /\ value < Top
          /\ value' = value + 1
          /\ UNCHANGED <<status, ticker>>
       \/ /\ direction = "reverse" /\ value > 0
          /\ value' = value - 1
          /\ UNCHANGED <<status, ticker>>
       \/ /\ direction = "forward" /\ value = Top
          /\ status' = "completed" /\ ticker' = "stopped"
          /\ UNCHANGED value
       \/ /\ direction = "reverse" /\ value = 0
          /\ status' = "dismissed" /\ ticker' = "stopped"
          /\ UNCHANGED value
    /\ UNCHANGED <<direction, finger>>

-----------------------------------------------------------------------------
(***************************************************************************)
(* The gestures.  Either a tap or a drag wins a finger that comes down.     *)
(***************************************************************************)
Touch ==
    /\ finger = "up"
    /\ finger' = "down"
    /\ UNCHANGED <<value, status, direction, ticker>>

\* _toggle
Tap ==
    /\ finger = "down"
    /\ finger' = "up"
    /\ Fling(IF status = "completed" THEN -2 ELSE 2)

\* The finger leaves with neither a tap nor a drag.
TapCancelled ==
    /\ finger = "down"
    /\ finger' = "up"
    /\ UNCHANGED <<value, status, direction, ticker>>

\* A drag is accepted before it has moved the sheet.
DragStart ==
    /\ finger = "down"
    /\ finger' = "dragging"
    /\ UNCHANGED <<value, status, direction, ticker>>

\* _handleDragUpdate
DragUpdate(delta) ==
    /\ finger = "dragging"
    /\ SetValue(value - delta)
    /\ UNCHANGED finger

\* Mutant: a finger that stops before it leaves flings nothing.
DragEndOnSwipe(dy) ==
    /\ finger = "dragging"
    /\ finger' = "up"
    /\ IF isAnimating \/ status = "completed" \/ dy = 0
       THEN UNCHANGED <<value, status, direction, ticker>>
       ELSE Fling(IF dy < 0 THEN 2 ELSE -2)

\* _handleDragEnd: dy is the finger's speed, negative upwards.
DragEnd(dy) ==
    /\ finger = "dragging"
    /\ finger' = "up"
    /\ IF isAnimating \/ status = "completed"
       THEN UNCHANGED <<value, status, direction, ticker>>
       ELSE Fling(CASE dy < 0 -> 2
                    [] dy > 0 -> -2
                    [] OTHER  -> IF 2 * value < Top THEN -2 ELSE 2)

Init ==
    /\ value = 0
    /\ status = "dismissed"
    /\ direction = "forward"
    /\ ticker = "stopped"
    /\ finger = "up"

Next ==
    \/ Tick \/ Touch \/ Tap \/ TapCancelled \/ DragStart
    \/ \E delta \in -Top .. Top : DragUpdate(delta)
    \/ \E dy \in {-1, 0, 1} : DragEnd(dy)

\* Frames are drawn; the finger is the user's.
Spec == Init /\ [][Next]_vars /\ WF_vars(Tick)

-----------------------------------------------------------------------------
\* A sheet that nothing moves lies at an edge, whichever way a drag left it,
\* and its status, which the next tap and the end of the next drag decide by
\* (login_page.dart:368, 376), says at which.
AtRestAtAnEdge ==
    finger = "up" /\ ~isAnimating =>
        \/ value = 0 /\ status = "dismissed"
        \/ value = Top /\ status = "completed"

\* A sheet that was flung arrives at the edge it was flung to, unless it is
\* touched again on its way.
ReachesItsEdge ==
    /\ (isAnimating /\ direction = "forward") ~>
           (value = Top /\ ~isAnimating) \/ finger # "up"
    /\ (isAnimating /\ direction = "reverse") ~>
           (value = 0 /\ ~isAnimating) \/ finger # "up"
=============================================================================
