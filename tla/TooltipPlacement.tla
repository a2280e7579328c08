-------------------------- MODULE TooltipPlacement --------------------------
(***************************************************************************)
(* Where show() of bootstrap.js puts a tooltip: beside its element, on the *)
(* other side if it does not fit there and the placement is `auto', moved  *)
(* back into the viewport, with its arrow moved the other way.  The tip    *)
(* may change its size when it is put in its place.                        *)
(*                                                                         *)
(* Lengths are in pixels; positions are doubled, because half of a width   *)
(* is added to some.  Margins are left out, and Math.round with them.      *)
(***************************************************************************)
EXTENDS Integers

CONSTANTS
    Targets,    \* rectangles of elements: left, top, width, height
    Tips,       \* sizes of tips: width and height, before and after it is placed
    Containers, \* rectangles of containers, with the left edge in the window
    Viewports,  \* rectangles of viewports, with scroll (scrollTop) and padding
    AutoPlaces  \* values of autoPlace

Rect == [left : Int, top : Int, width : Nat, height : Nat]
Size == [width : Nat, height : Nat, newWidth : Nat, newHeight : Nat]
\* Where the page is scrolled sideways, client differs from left.
Container == [left : Int, top : Int, width : Nat, height : Nat, client : Int]
Viewport == [left : Int, top : Int, width : Nat, height : Nat, scroll : Nat, padding : Nat]
Placements == {"top", "bottom", "left", "right"}

ASSUME TargetsAssumption == Targets \subseteq Rect
ASSUME TipsAssumption == Tips \subseteq Size
ASSUME ContainersAssumption == Containers \subseteq Container
ASSUME ViewportsAssumption == Viewports \subseteq Viewport
ASSUME AutoAssumption == AutoPlaces \subseteq BOOLEAN

VARIABLES
    el, tip, box, view,   \* the element, the tip, its container, the viewport
    auto,                 \* options.placement names `auto'
    wished,               \* options.placement
    placement,            \* where the tip is put in the end
    left2, top2,          \* twice the offset of the tip
    arrow2,               \* twice the position of the arrow on its edge of the tip
    pc                    \* "wished", "placed" or "adjusted"

given == <<el, tip, box, view, auto, wished>>
vars == <<given, placement, left2, top2, arrow2, pc>>

TypeOK ==
    /\ el \in Rect /\ tip \in Size /\ box \in Container /\ view \in Viewport
    /\ auto \in BOOLEAN
    /\ wished \in Placements /\ placement \in Placements
    /\ left2 \in Int /\ top2 \in Int /\ arrow2 \in Int
    /\ pc \in {"wished", "placed", "adjusted"}

Init ==
    /\ el \in Targets /\ tip \in Tips /\ box \in Containers /\ view \in Viewports
    /\ auto \in AutoPlaces
    /\ wished \in Placements /\ placement = wished
    /\ left2 = 0 /\ top2 = 0 /\ arrow2 = 0
    /\ pc = "wished"

-----------------------------------------------------------------------------
Vertical(p) == p \in {"top", "bottom"}

\* pos.right of getPosition, which counts in the window and not in the page.
ClientRight == el.left + el.width - (box.left - box.client)

\* Mutant of AutoPlace: the element's near edge is taken for its far edge.
AutoPlaceNear(p) ==
    CASE p = "bottom" /\ el.top + tip.height > box.top + box.height -> "top"
      [] p = "top" /\ el.top - tip.height < box.top -> "bottom"
      [] p = "right" /\ ClientRight - el.width + tip.width > box.width -> "left"
      [] p = "left" /\ el.left - tip.width < box.left -> "right"
      [] OTHER -> p

\* Mutant of AutoPlace: a side with room is not named.
AutoPlaceBlank(p) ==
    CASE p = "bottom" /\ el.top + el.height + tip.height > box.top + box.height -> "top"
      [] p = "top" /\ el.top - tip.height < box.top -> "bottom"
      [] p = "right" /\ ClientRight + tip.width > box.width -> "left"
      [] p = "left" /\ el.left - tip.width < box.left -> "right"
      [] OTHER -> ""

\* The side on which there is room.  On the right a place in the window is compared
\* with the width of the container, wherever the container begins.
AutoPlace(p) ==
    CASE p = "bottom" /\ el.top + el.height + tip.height > box.top + box.height -> "top"
      [] p = "top" /\ el.top - tip.height < box.top -> "bottom"
      [] p = "right" /\ ClientRight + tip.width > box.width -> "left"
      [] p = "left" /\ el.left - tip.width < box.left -> "right"
      [] OTHER -> p

\* getCalculatedOffset, doubled.
OffsetLeft(p) ==
    CASE Vertical(p) -> 2 * el.left + el.width - tip.width
      [] p = "left" -> 2 * (el.left - tip.width)
      [] OTHER -> 2 * (el.left + el.width)

OffsetTop(p) ==
    CASE p = "bottom" -> 2 * (el.top + el.height)
      [] p = "top" -> 2 * (el.top - tip.height)
      [] OTHER -> 2 * el.top + el.height - tip.height

\* The first part of show(), with autoPlace and getCalculatedOffset.
Place ==
    /\ pc = "wished"
    /\ placement' = IF auto THEN AutoPlace(wished) ELSE wished
    /\ left2' = OffsetLeft(placement') /\ top2' = OffsetTop(placement')
    /\ pc' = "placed"
    /\ UNCHANGED <<given, arrow2>>

\* Mutant of DeltaLeft: the overflow on the right ends at the width.
DeltaLeftWidth(l2) ==
    LET low == l2 - 2 * view.padding
        high == l2 + 2 * view.padding + 2 * tip.newWidth
    IN  IF low < 2 * view.left THEN 2 * view.left - low
        ELSE IF high > 2 * view.width THEN 2 * view.width - high
        ELSE 0

\* getViewportAdjustedDelta for the placements top and bottom, doubled.
DeltaLeft(l2) ==
    LET low == l2 - 2 * view.padding
        high == l2 + 2 * view.padding + 2 * tip.newWidth
    IN  IF low < 2 * view.left THEN 2 * view.left - low
        ELSE IF high > 2 * view.width THEN 2 * (view.left + view.width) - high
        ELSE 0

\* getViewportAdjustedDelta for the placements left and right, doubled.
DeltaTop(t2) ==
    LET low == t2 - 2 * view.padding - 2 * view.scroll
        high == t2 + 2 * view.padding - 2 * view.scroll + 2 * tip.newHeight
    IN  IF low < 2 * view.top THEN 2 * view.top - low
        ELSE IF high > 2 * (view.top + view.height) THEN 2 * (view.top + view.height) - high
        ELSE 0

\* Mutant of Kept: the tip keeps its head.
KeptHead(t2) == t2

\* A tip above its element keeps its foot when it changes its height.
Kept(t2) == IF placement = "top" THEN t2 + 2 * tip.height - 2 * tip.newHeight ELSE t2

\* Mutant of ArrowAt: the change of the tip's size is left out.
ArrowAtSame(delta2, old, new) == new - delta2

\* replaceArrow with arrowDelta: 50 * (1 - arrowDelta / size) percent of the size.
ArrowAt(delta2, old, new) == new - (delta2 - old + new)

\* applyPlacement: the tip moves along the edge it shares with its element.
Adjust ==
    /\ pc = "placed"
    /\ IF Vertical(placement)
       THEN /\ left2' = left2 + DeltaLeft(left2)
            /\ top2' = Kept(top2)
            /\ arrow2' = ArrowAt(DeltaLeft(left2), tip.width, tip.newWidth)
       ELSE /\ top2' = top2 + DeltaTop(top2)
            /\ arrow2' = ArrowAt(DeltaTop(top2), tip.height, tip.newHeight)
            /\ UNCHANGED left2
    /\ pc' = "adjusted"
    /\ UNCHANGED <<given, placement>>

Next == Place \/ Adjust

Spec == Init /\ [][Next]_vars

-----------------------------------------------------------------------------
\* The arrow points at the middle of the element, wherever the viewport moved
\* the tip and whatever size it took (applyPlacement, replaceArrow).
ArrowPoints ==
    pc = "adjusted" =>
        IF Vertical(placement) THEN left2 + arrow2 = 2 * el.left + el.width
                               ELSE top2 + arrow2 = 2 * el.top + el.height

\* A tip that fits between the paddings of the viewport ends up between them,
\* on the axis on which it is moved (getViewportAdjustedDelta).  The viewport
\* must not begin to the left of the page: its width alone bounds the right.
InsideViewport ==
    pc = "adjusted" =>
        LET pad == view.padding IN
        IF Vertical(placement)
        THEN tip.newWidth + 2 * pad <= view.width /\ view.left >= 0 =>
                /\ 2 * (view.left + pad) <= left2
                /\ left2 + 2 * tip.newWidth <= 2 * (view.left + view.width - pad)
        ELSE tip.newHeight + 2 * pad <= view.height =>
                /\ 2 * (view.top + pad + view.scroll) <= top2
                /\ top2 + 2 * tip.newHeight <= 2 * (view.top + view.height - pad + view.scroll)

\* The tip touches its element: neither covers the other on the axis between
\* them (getCalculatedOffset, and the correction of the height in applyPlacement).
\* On the left that holds only for a tip that keeps its width.
Touches ==
    pc = "adjusted" =>
        CASE placement = "top" -> top2 + 2 * tip.newHeight = 2 * el.top
          [] placement = "bottom" -> top2 = 2 * (el.top + el.height)
          [] placement = "left" ->
                tip.newWidth = tip.width => left2 + 2 * tip.newWidth = 2 * el.left
          [] placement = "right" -> left2 = 2 * (el.left + el.width)

\* Whether the tip would stick out of the container at side p of the element.
SticksOut(p) ==
    CASE p = "bottom" -> el.top + el.height + tip.height > box.top + box.height
      [] p = "top" -> el.top - tip.height < box.top
      [] p = "right" -> el.left + el.width + tip.width > box.left + box.width
      [] p = "left" -> el.left - tip.width < box.left

\* With `auto' the tip sticks out of its container only when it would on both sides
\* (show).  One that is wished on the right does so only in a container at the left
\* edge of the window.
AutoFindsRoom ==
    /\ auto /\ pc # "wished" /\ SticksOut(placement)
    /\ wished = "right" => box.client = 0
    => \A p \in Placements : (Vertical(p) <=> Vertical(placement)) => SticksOut(p)

\* The tip is well placed: typed, pointed at the element, inside, beside the element,
\* and with `auto' on a side with room if there is one, as far as AutoFindsRoom goes.
PlacedInv == TypeOK /\ ArrowPoints /\ InsideViewport /\ Touches /\ AutoFindsRoom
=============================================================================
