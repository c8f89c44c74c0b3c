----------------------------- MODULE CardStrip -----------------------------
(***************************************************************************)
(* Where the breaking-news strip puts its cards.  The strip has the aspect  *)
(* ratio 1.43 and is h high; its cards have the aspect ratio 1.3 and are    *)
(* placed from the right edge, later ones painted over earlier ones.        *)
(*                                                                         *)
(* A page is counted in Steps per page, from 0 for the first card.  Lengths *)
(* are whole numbers of 1/(200 * Steps) of a logical pixel, in which every  *)
(* length the code computes is exact.                                      *)
(***************************************************************************)
EXTENDS Integers

CONSTANTS
    StripCards,     \* cards of the strip and pages of the slider, 5 in the code
    Steps           \* bound: positions the slider takes per page

ASSUME StripAssumption == StripCards \in Nat \ {0} /\ Steps \in Nat \ {0}

Card == 0 .. StripCards - 1

Dp(n) == 200 * Steps * n

Positive(n) == IF n > 0 THEN n ELSE 0

\* delta, in steps: positive for the cards the slider has not come to.
Delta(page, i) == Steps * i - page

StripWidth(h) == 286 * h * Steps

\* primaryCardLeft and its half, horizontalInset, in 200ths of a pixel: what
\* the first card leaves free beside it.
primaryCardLeft(h) == 286 * h - 260 * (h - 10)

horizontalInset(h) == 143 * h - 130 * (h - 10)

\* Mutant: the offset has the wrong sign.
StartMirrored(h, page, i) ==
    LET delta == Delta(page, i) IN
    Dp(10) + Positive(Steps * primaryCardLeft(h)
                      - horizontalInset(h) * (IF delta > 0 THEN 15 * delta ELSE delta))

\* Mutant: cards to come are not pushed aside.
StartEven(h, page, i) ==
    Dp(10) + Positive(Steps * primaryCardLeft(h) + horizontalInset(h) * Delta(page, i))

\* The distance of a card from the right edge of the strip.  A card to come is
\* pushed aside fifteen times as fast as one that is passed.
Start(h, page, i) ==
    LET delta == Delta(page, i) IN
    Dp(10) + Positive(Steps * primaryCardLeft(h)
                      + horizontalInset(h) * (IF delta > 0 THEN 15 * delta ELSE delta))

\* A card that is passed loses 20 pixels at the top and at the bottom per page;
\* its width follows from its height.
CardWidth(h, page, i) == 260 * Steps * (h - 20) - 10400 * Positive(-Delta(page, i))

End(h, page, i) == Start(h, page, i) + CardWidth(h, page, i)

-----------------------------------------------------------------------------
\* Whatever the page, the cards start one after the other, so that a card is
\* painted over those before it and never over one it has not passed
\* (breakingNewsScroll.dart, start).
InOrder(h, page) ==
    \A i, j \in Card : i < j => Start(h, page, i) <= Start(h, page, j)

\* On page i card i is whole: inside the strip, with every later card beside
\* it, and the card before it showing at its right.
FrontInView(h, i) ==
    LET page == Steps * i IN
    /\ 0 <= Start(h, page, i) /\ End(h, page, i) <= StripWidth(h)
    /\ \A j \in Card : j > i => End(h, page, i) <= Start(h, page, j)
    /\ \A j \in Card : j < i => /\ Start(h, page, j) < Start(h, page, i)
                                /\ End(h, page, j) < End(h, page, i)
=============================================================================
