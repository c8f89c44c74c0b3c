-------------------------- MODULE BottomSheetProofs --------------------------
(***************************************************************************)
(* The sheet never hangs between its edges, for every number of steps.      *)
(***************************************************************************)
EXTENDS BottomSheet, TLAPS

AtAnEdge ==
    \/ value = 0 /\ status = "dismissed"
    \/ value = Top /\ status = "completed"

\* A sheet that is not dragged is moved or lies at an edge, and a sheet that
\* calls itself completed, which ends a drag without a fling, is open.
SheetInv ==
    /\ TypeOK
    /\ finger # "dragging" /\ ~isAnimating => AtAnEdge
    /\ status = "completed" => value = Top /\ ~isAnimating

\* A clamped number of steps is within the sheet.
LEMMA ClampFacts ==
    ASSUME NEW n \in Int
    PROVE  Clamp(n) \in 0 .. Top
BY TopAssumption DEF Clamp, TopAssumption

\* A dragged sheet is open when, and only when, its status says so.
LEMMA SetValueFacts ==
    ASSUME TypeOK, NEW n \in Int, SetValue(n)
    PROVE  /\ value' \in 0 .. Top
           /\ status' \in {"dismissed", "forward", "reverse", "completed"}
           /\ status' = "completed" => value' = Top
           /\ ticker' = "stopped"
           /\ direction' = direction
<1>1. value' \in 0 .. Top
    BY ClampFacts DEF SetValue
<1>2. CASE value' = 0
    BY <1>1, <1>2, TopAssumption DEF SetValue, TypeOK, TopAssumption
<1>3. CASE value' = Top /\ value' # 0
    BY <1>1, <1>3, TopAssumption DEF SetValue, TypeOK, TopAssumption
<1>4. CASE value' # Top /\ value' # 0
    BY <1>1, <1>4, TopAssumption DEF SetValue, TypeOK, TopAssumption
<1>5. QED
    BY <1>2, <1>3, <1>4

\* A flung sheet moves, and does not call itself completed before it is.
LEMMA FlingFacts ==
    ASSUME NEW velocity \in Int, Fling(velocity)
    PROVE  /\ direction' \in {"forward", "reverse"}
           /\ status' = direction'
           /\ ticker' = "active"
           /\ value' = value
BY DEF Fling

LEMMA SheetInit == Init => SheetInv
BY TopAssumption DEF TopAssumption, Init, SheetInv, TypeOK, AtAnEdge, isAnimating

LEMMA SheetStep == SheetInv /\ [Next]_vars => SheetInv'
<1> SUFFICES ASSUME SheetInv, [Next]_vars PROVE SheetInv'
    OBVIOUS
<1> USE TopAssumption DEF TopAssumption, SheetInv, TypeOK, AtAnEdge, isAnimating
<1>1. CASE Tick
    BY <1>1 DEF Tick
<1>2. CASE Touch
    BY <1>2 DEF Touch
<1>3. CASE Tap
    BY <1>3, FlingFacts DEF Tap
<1>4. CASE TapCancelled
    BY <1>4 DEF TapCancelled
<1>5. CASE DragStart
    BY <1>5 DEF DragStart
<1>6. CASE \E delta \in -Top .. Top : DragUpdate(delta)
    <2>1. PICK delta \in -Top .. Top : DragUpdate(delta)
        BY <1>6
    <2>2. value - delta \in Int
        OBVIOUS
    <2>3. QED
        BY <2>1, <2>2, SetValueFacts DEF DragUpdate
<1>7. CASE \E dy \in {-1, 0, 1} : DragEnd(dy)
    <2>1. PICK dy \in {-1, 0, 1} : DragEnd(dy)
        BY <1>7
    <2>2. CASE isAnimating \/ status = "completed"
        BY <2>1, <2>2 DEF DragEnd
    <2>3. CASE ~(isAnimating \/ status = "completed")
        <3>1. \E velocity \in {-2, 2} : Fling(velocity)
            BY <2>1, <2>3 DEF DragEnd
        <3>2. QED
            BY <2>1, <3>1, FlingFacts DEF DragEnd
    <2>4. QED
        BY <2>2, <2>3
<1>8. CASE UNCHANGED vars
    BY <1>8 DEF vars
<1>9. QED
    BY <1>1, <1>2, <1>3, <1>4, <1>5, <1>6, <1>7, <1>8 DEF Next

LEMMA SheetAlways == Spec => []SheetInv
BY SheetInit, SheetStep, PTL DEF Spec

\* Neither a drag nor a fling moves the sheet past one of its edges.
THEOREM TypeCorrect == Spec => []TypeOK
<1>1. SheetInv => TypeOK
    BY DEF SheetInv
<1>2. QED
    BY <1>1, SheetAlways, PTL

\* Whatever order taps and drags come in, also in the middle of an animation,
\* a sheet that nothing moves lies at an edge and knows at which: the decisions
\* of _toggle and _handleDragEnd rest on that.
THEOREM AtRestTheorem == Spec => []AtRestAtAnEdge
<1>1. SheetInv => AtRestAtAnEdge
    BY DEF SheetInv, AtAnEdge, AtRestAtAnEdge
<1>2. QED
    BY <1>1, SheetAlways, PTL
=============================================================================
