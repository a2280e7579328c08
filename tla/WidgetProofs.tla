---------------------------- MODULE WidgetProofs ----------------------------
(***************************************************************************)
(* The widgets of bootstrap.js: where a tooltip ends up, for elements,     *)
(* tips and viewports of any size and place; the carousel, for any number  *)
(* of items and inputs; the accordion and the tooltip, for any number of   *)
(* panels, clicks and events.                                              *)
(***************************************************************************)
EXTENDS TooltipPlacement, Tooltip, Carousel, Collapse, FiniteSetTheorems, SequenceTheorems,
        WellFoundedInduction, TLAPS

-----------------------------------------------------------------------------
(* The placement of a tooltip.  The invariant says what Place left for     *)
(* Adjust to start from; the rest is arithmetic.                           *)

Placed == pc = "placed" => left2 = OffsetLeft(placement) /\ top2 = OffsetTop(placement)

\* The side that `auto' chose is kept.
Chosen == auto /\ pc # "wished" => placement = AutoPlace(wished)

PlacementIInv == TypeOK /\ Placed /\ Chosen /\ ArrowPoints /\ InsideViewport /\ Touches

\* The lengths that show() reads are integers.
LEMMA Lengths ==
    ASSUME TypeOK
    PROVE  /\ el.left \in Int /\ el.top \in Int /\ el.width \in Int /\ el.height \in Int
           /\ tip.width \in Int /\ tip.height \in Int
           /\ tip.newWidth \in Int /\ tip.newHeight \in Int
           /\ box.left \in Int /\ box.top \in Int /\ box.width \in Int /\ box.height \in Int
           /\ box.client \in Int
           /\ view.left \in Int /\ view.top \in Int /\ view.width \in Int /\ view.height \in Int
           /\ view.scroll \in Int /\ view.padding \in Nat
  BY DEF TypeOK, Rect, Size, Container, Viewport

\* Place computes integers, for one of the four placements (show).
LEMMA PlaceTyped ==
    ASSUME TypeOK, NEW p \in Placements
    PROVE  OffsetLeft(p) \in Int /\ OffsetTop(p) \in Int /\ AutoPlace(p) \in Placements
  <1>1. OffsetLeft(p) \in Int /\ OffsetTop(p) \in Int
    BY Lengths DEF OffsetLeft, OffsetTop, Vertical
  <1>2. AutoPlace(p) \in Placements
    BY Lengths DEF AutoPlace, ClientRight, Placements
  <1> QED
    BY <1>1, <1>2

\* The correction brings a tip that fits between the paddings of the viewport
\* (getViewportAdjustedDelta, left and right).
LEMMA LeftInside ==
    ASSUME TypeOK, NEW l \in Int
    PROVE  /\ DeltaLeft(l) \in Int
           /\ tip.newWidth + 2 * view.padding <= view.width /\ view.left >= 0 =>
                /\ 2 * (view.left + view.padding) <= l + DeltaLeft(l)
                /\ l + DeltaLeft(l) + 2 * tip.newWidth
                     <= 2 * (view.left + view.width - view.padding)
  BY Lengths DEF DeltaLeft

\* The same from top to bottom, in a viewport that is scrolled.
LEMMA TopInside ==
    ASSUME TypeOK, NEW u \in Int
    PROVE  /\ DeltaTop(u) \in Int
           /\ tip.newHeight + 2 * view.padding <= view.height =>
                /\ 2 * (view.top + view.padding + view.scroll) <= u + DeltaTop(u)
                /\ u + DeltaTop(u) + 2 * tip.newHeight
                     <= 2 * (view.top + view.height - view.padding + view.scroll)
  BY Lengths DEF DeltaTop

\* What the correction moves the tip by, the arrow moves back (replaceArrow): the
\* sum of the two stays on the middle of the element.
LEMMA ArrowMovesBack ==
    ASSUME NEW at \in Int, NEW size \in Int, NEW old \in Int, NEW new \in Int,
           NEW delta \in Int, NEW pos \in Int,
           pos = 2 * at + size - old
    PROVE  (pos + delta) + (new - (delta - old + new)) = 2 * at + size
  OBVIOUS

-----------------------------------------------------------------------------
\* Adjust keeps the arrow on the middle of the element, the tip in the viewport
\* and beside the element (applyPlacement).
LEMMA AdjustKeeps ==
    ASSUME PlacementIInv, Adjust
    PROVE  PlacementIInv'
  <1>1. /\ el' = el /\ tip' = tip /\ box' = box /\ view' = view
        /\ auto' = auto /\ wished' = wished
        /\ placement' = placement /\ pc = "placed" /\ pc' = "adjusted"
    BY DEF Adjust, given
  <1>2. TypeOK /\ left2 = OffsetLeft(placement) /\ top2 = OffsetTop(placement)
    BY <1>1 DEF PlacementIInv, Placed
  <1>3. left2 \in Int /\ top2 \in Int /\ placement \in Placements
    BY <1>2 DEF TypeOK
  <1>3a. Chosen'
    BY <1>1 DEF PlacementIInv, Chosen, AutoPlace, ClientRight
  <1>4. CASE Vertical(placement)
    <2>1. /\ left2' = left2 + DeltaLeft(left2) /\ top2' = Kept(top2)
          /\ arrow2' = ArrowAt(DeltaLeft(left2), tip.width, tip.newWidth)
      BY <1>4 DEF Adjust
    <2>2. left2 = 2 * el.left + el.width - tip.width
      BY <1>2, <1>4 DEF OffsetLeft, Vertical
    <2>3. DeltaLeft(left2) \in Int
      BY <1>2, <1>3, LeftInside
    <2>4. arrow2' = tip.newWidth - (DeltaLeft(left2) - tip.width + tip.newWidth)
      BY <2>1 DEF ArrowAt
    <2>5. left2' + arrow2' = 2 * el.left + el.width
      <3>1. /\ el.left \in Int /\ el.width \in Int
            /\ tip.width \in Int /\ tip.newWidth \in Int
        BY <1>2, Lengths
      <3>2. (left2 + DeltaLeft(left2))
              + (tip.newWidth - (DeltaLeft(left2) - tip.width + tip.newWidth))
              = 2 * el.left + el.width
        BY <1>3, <2>2, <2>3, <3>1, ArrowMovesBack
      <3> QED
        BY <2>1, <2>4, <3>2
    <2>6. /\ left2' \in Int /\ arrow2' \in Int /\ top2' \in Int
      BY <1>2, <1>3, <2>1, <2>3, <2>4, Lengths DEF Kept
    <2>7. TypeOK'
      BY <1>1, <1>2, <2>6 DEF TypeOK
    <2>8. ArrowPoints'
      BY <1>1, <1>4, <2>5 DEF ArrowPoints, Vertical
    <2>9. InsideViewport'
      BY <1>1, <1>2, <1>3, <1>4, <2>1, LeftInside DEF InsideViewport, Vertical
    <2>10. Touches'
      <3>1. CASE placement = "top"
        <4>1. top2 = 2 * (el.top - tip.height)
          BY <1>2, <3>1 DEF OffsetTop
        <4>2. top2' = top2 + 2 * tip.height - 2 * tip.newHeight
          BY <2>1, <3>1 DEF Kept
        <4>3. top2' + 2 * tip.newHeight = 2 * el.top
          BY <1>2, <1>3, <4>1, <4>2, Lengths
        <4> QED
          BY <1>1, <3>1, <4>3 DEF Touches
      <3>2. CASE placement = "bottom"
        <4>1. top2 = 2 * (el.top + el.height)
          BY <1>2, <3>2 DEF OffsetTop
        <4>2. top2' = top2
          BY <2>1, <3>2 DEF Kept
        <4> QED
          BY <1>1, <3>2, <4>1, <4>2 DEF Touches
      <3> QED
        BY <1>4, <3>1, <3>2 DEF Vertical
    <2> QED
      BY <1>1, <1>3a, <2>7, <2>8, <2>9, <2>10 DEF PlacementIInv, Placed
  <1>5. CASE ~Vertical(placement)
    <2>1. /\ top2' = top2 + DeltaTop(top2) /\ left2' = left2
          /\ arrow2' = ArrowAt(DeltaTop(top2), tip.height, tip.newHeight)
      BY <1>5 DEF Adjust
    <2>2. top2 = 2 * el.top + el.height - tip.height
      BY <1>2, <1>3, <1>5 DEF OffsetTop, Vertical
    <2>3. DeltaTop(top2) \in Int
      BY <1>2, <1>3, TopInside
    <2>4. arrow2' = tip.newHeight - (DeltaTop(top2) - tip.height + tip.newHeight)
      BY <2>1 DEF ArrowAt
    <2>5. top2' + arrow2' = 2 * el.top + el.height
      <3>1. /\ el.top \in Int /\ el.height \in Int
            /\ tip.height \in Int /\ tip.newHeight \in Int
        BY <1>2, Lengths
      <3>2. (top2 + DeltaTop(top2))
              + (tip.newHeight - (DeltaTop(top2) - tip.height + tip.newHeight))
              = 2 * el.top + el.height
        BY <1>3, <2>2, <2>3, <3>1, ArrowMovesBack
      <3> QED
        BY <2>1, <2>4, <3>2
    <2>6. left2' \in Int /\ arrow2' \in Int /\ top2' \in Int
      BY <1>2, <1>3, <2>1, <2>3, <2>4, Lengths
    <2>7. TypeOK'
      BY <1>1, <1>2, <2>6 DEF TypeOK
    <2>8. ArrowPoints'
      BY <1>1, <1>5, <2>5 DEF ArrowPoints, Vertical
    <2>9. InsideViewport'
      BY <1>1, <1>2, <1>3, <1>5, <2>1, TopInside DEF InsideViewport, Vertical
    <2>10. Touches'
      <3>1. CASE placement = "left"
        <4>1. left2 = 2 * (el.left - tip.width)
          BY <1>2, <3>1 DEF OffsetLeft, Vertical
        <4>2. tip.newWidth = tip.width => left2 + 2 * tip.newWidth = 2 * el.left
          BY <1>2, <1>3, <4>1, Lengths
        <4> QED
          BY <1>1, <2>1, <3>1, <4>2 DEF Touches
      <3>2. CASE placement = "right"
        <4>1. left2 = 2 * (el.left + el.width)
          BY <1>2, <3>2 DEF OffsetLeft, Vertical
        <4> QED
          BY <1>1, <2>1, <3>2, <4>1 DEF Touches
      <3> QED
        BY <1>3, <1>5, <3>1, <3>2 DEF Placements, Vertical
    <2> QED
      BY <1>1, <1>3a, <2>7, <2>8, <2>9, <2>10 DEF PlacementIInv, Placed
  <1> QED
    BY <1>4, <1>5

\* PlacementIInv holds wherever a tooltip is shown.
THEOREM PlacementInvariance == Spec => []PlacementIInv
  <1>1. Init => PlacementIInv
    BY TargetsAssumption, TipsAssumption, ContainersAssumption, ViewportsAssumption, AutoAssumption
       DEF Init, PlacementIInv, TypeOK, Placed, Chosen, ArrowPoints, InsideViewport, Touches
  <1>2. PlacementIInv /\ [Next]_vars => PlacementIInv'
    <2> SUFFICES ASSUME PlacementIInv, [Next]_vars PROVE PlacementIInv'
      OBVIOUS
    <2>1. CASE Place
      <3>1. /\ el' = el /\ tip' = tip /\ box' = box /\ view' = view
            /\ auto' = auto /\ wished' = wished
            /\ arrow2' = arrow2 /\ pc' = "placed"
            /\ placement' = IF auto THEN AutoPlace(wished) ELSE wished
            /\ left2' = OffsetLeft(placement') /\ top2' = OffsetTop(placement')
        BY <2>1 DEF Place, given
      <3>2. TypeOK /\ wished \in Placements /\ arrow2 \in Int
        BY DEF PlacementIInv, TypeOK
      <3>3. placement' \in Placements
        BY <3>1, <3>2, PlaceTyped
      <3>4. left2' \in Int /\ top2' \in Int
        BY <3>1, <3>2, <3>3, PlaceTyped
      <3>5. TypeOK'
        BY <3>1, <3>2, <3>3, <3>4 DEF TypeOK
      <3>6. Placed'
        BY <3>1 DEF Placed, OffsetLeft, OffsetTop, Vertical
      <3>7. Chosen'
        BY <3>1 DEF Chosen, AutoPlace, ClientRight
      <3> QED
        BY <3>1, <3>5, <3>6, <3>7 DEF PlacementIInv, ArrowPoints, InsideViewport, Touches
    <2>2. CASE Adjust
      BY <2>2, AdjustKeeps
    <2>3. CASE UNCHANGED vars
      BY <2>3 DEF vars, given, PlacementIInv, TypeOK, Placed, Chosen, AutoPlace, ClientRight,
                  ArrowPoints, InsideViewport, Touches,
                  OffsetLeft, OffsetTop, Vertical
    <2> QED
      BY <2>1, <2>2, <2>3 DEF Next
  <1> QED
    BY <1>1, <1>2, PTL DEF Spec

\* The variables of the placement keep their types.
THEOREM PlacementTypeCorrect == Spec => []TypeOK
  <1>1. PlacementIInv => TypeOK
    BY DEF PlacementIInv
  <1> QED
    BY <1>1, PlacementInvariance, PTL

\* ArrowPoints for every geometry: the arrow points at the middle of the element.
THEOREM ArrowAlwaysPoints == Spec => []ArrowPoints
  <1>1. PlacementIInv => ArrowPoints
    BY DEF PlacementIInv
  <1> QED
    BY <1>1, PlacementInvariance, PTL

\* InsideViewport for every geometry: a tip that fits is brought inside.
THEOREM AlwaysInside == Spec => []InsideViewport
  <1>1. PlacementIInv => InsideViewport
    BY DEF PlacementIInv
  <1> QED
    BY <1>1, PlacementInvariance, PTL

\* Touches for every geometry: tip and element share an edge.
THEOREM AlwaysTouches == Spec => []Touches
  <1>1. PlacementIInv => Touches
    BY DEF PlacementIInv
  <1> QED
    BY <1>1, PlacementInvariance, PTL

\* AutoFindsRoom for every element, tip and container: `auto' sticks out of the container
\* only where both sides do; on the right, in a container at the window's left edge.
THEOREM AutoIsRight == Spec => []AutoFindsRoom
  <1>1. PlacementIInv => AutoFindsRoom
    <2> SUFFICES ASSUME PlacementIInv, auto, pc # "wished", SticksOut(placement),
                        wished = "right" => box.client = 0,
                        NEW p \in Placements, Vertical(p) <=> Vertical(placement)
                 PROVE  SticksOut(p)
      BY DEF AutoFindsRoom
    <2>1. placement = AutoPlace(wished) /\ wished \in Placements /\ placement \in Placements
      BY DEF PlacementIInv, Chosen, TypeOK
    <2>2. /\ el.left \in Int /\ el.top \in Int /\ el.width \in Int /\ el.height \in Int
          /\ tip.width \in Int /\ tip.height \in Int
          /\ box.left \in Int /\ box.top \in Int /\ box.width \in Int /\ box.height \in Int
          /\ box.client \in Int
      BY Lengths DEF PlacementIInv
    <2>3. CASE wished = "top"
      BY <2>1, <2>2, <2>3 DEF AutoPlace, SticksOut, Vertical, Placements
    <2>4. CASE wished = "bottom"
      BY <2>1, <2>2, <2>4 DEF AutoPlace, SticksOut, Vertical, Placements
    <2>5. CASE wished = "left"
      BY <2>1, <2>2, <2>5 DEF AutoPlace, SticksOut, Vertical, Placements
    <2>6. CASE wished = "right"
      <3>1. ClientRight + tip.width > box.width <=> SticksOut("right")
        <4>1. box.client = 0
          BY <2>6
        <4> QED
          BY <2>2, <4>1 DEF ClientRight, SticksOut
      <3>2. CASE ClientRight + tip.width > box.width
        <4>1. placement = "left"
          BY <2>1, <2>6, <3>2 DEF AutoPlace
        <4>2. SticksOut("right") /\ SticksOut("left")
          BY <3>1, <3>2, <4>1 DEF SticksOut
        <4> QED
          BY <4>1, <4>2 DEF Vertical, Placements
      <3>3. CASE ~(ClientRight + tip.width > box.width)
        <4>1. placement = "right"
          BY <2>1, <2>6, <3>3 DEF AutoPlace
        <4>2. ~SticksOut("right")
          BY <3>1, <3>3 DEF SticksOut
        <4> QED
          BY <4>1, <4>2
      <3> QED
        BY <3>2, <3>3
    <2> QED
      BY <2>1, <2>3, <2>4, <2>5, <2>6 DEF Placements
  <1> QED
    BY <1>1, PlacementInvariance, PTL

\* PlacedInv for every geometry.
THEOREM AlwaysPlaced == Spec => []PlacedInv
  <1>1. TypeOK /\ ArrowPoints /\ InsideViewport /\ Touches /\ AutoFindsRoom => PlacedInv
    BY DEF PlacedInv
  <1> QED
    BY <1>1, PlacementTypeCorrect, ArrowAlwaysPoints, AlwaysInside, AlwaysTouches, AutoIsRight, PTL

-----------------------------------------------------------------------------
(* The carousel.                                                             *)

\* pause() leaves no timer.
LEMMA Pauses ==
    ASSUME NEW d \in CarouselObject, Timed(d), NEW b \in BOOLEAN, NEW e, e = Pause(d, b)
    PROVE  /\ e \in CarouselObject /\ Timed(e)
           /\ ~e.interval /\ e.ticking = 0 /\ e.paused = (d.paused \/ b)
           /\ e.active = d.active /\ e.moving = d.moving /\ e.sliding = d.sliding
           /\ e.indicator = d.indicator /\ e.waiting = d.waiting /\ e.asked = d.asked
  <1> DEFINE p == d.paused \/ b
             n == d.ticking - Own(d)
  <1>1. e = [d EXCEPT !.paused = p, !.interval = FALSE, !.ticking = n]
    BY DEF Pause, CarouselObject
  <1>2. n = 0 /\ n \in Nat
    BY DEF Timed, Own
  <1>3. p \in BOOLEAN /\ p = (d.paused \/ b) /\ FALSE \in BOOLEAN
    OBVIOUS
  <1> HIDE DEF p, n
  <1>4. e \in CarouselObject
    BY <1>1, <1>2, <1>3 DEF CarouselObject
  <1>5. e.interval = FALSE /\ e.ticking = n /\ e.paused = p
    BY <1>1 DEF CarouselObject
  <1>6. /\ e.active = d.active /\ e.moving = d.moving /\ e.sliding = d.sliding
        /\ e.indicator = d.indicator /\ e.waiting = d.waiting /\ e.asked = d.asked
    BY <1>1 DEF CarouselObject
  <1>7. Timed(e)
    BY <1>2, <1>5 DEF Timed
  <1> QED
    BY <1>2, <1>3, <1>4, <1>5, <1>6, <1>7

\* cycle() leaves one timer, or none in a carousel that stays paused.
LEMMA Cycles ==
    ASSUME NEW d \in CarouselObject, Timed(d), NEW b \in BOOLEAN, NEW e, e = Cycle(d, b)
    PROVE  /\ e \in CarouselObject /\ Timed(e)
           /\ e.paused = (d.paused /\ ~b) /\ e.interval = ~(d.paused /\ ~b)
           /\ e.active = d.active /\ e.moving = d.moving /\ e.sliding = d.sliding
           /\ e.indicator = d.indicator /\ e.waiting = d.waiting /\ e.asked = d.asked
  <1> DEFINE p == d.paused /\ ~b
             i == d.interval \/ ~p
             n == d.ticking - Own(d) + (IF p THEN 0 ELSE 1)
  <1>1. e = [d EXCEPT !.paused = p, !.interval = i, !.ticking = n]
    BY DEF Cycle, CarouselObject
  <1>2. n = (IF p THEN 0 ELSE 1) /\ n \in Nat
    BY DEF Timed, Own
  <1>3. p \in BOOLEAN /\ i \in BOOLEAN /\ i = ~p
    BY DEF Timed, CarouselObject
  <1>4. p = (d.paused /\ ~b)
    OBVIOUS
  <1> HIDE DEF p, i, n
  <1>5. e \in CarouselObject
    BY <1>1, <1>2, <1>3 DEF CarouselObject
  <1>6. e.interval = i /\ e.ticking = n /\ e.paused = p
    BY <1>1 DEF CarouselObject
  <1>7. /\ e.active = d.active /\ e.moving = d.moving /\ e.sliding = d.sliding
        /\ e.indicator = d.indicator /\ e.waiting = d.waiting /\ e.asked = d.asked
    BY <1>1 DEF CarouselObject
  <1>8. Timed(e)
    BY <1>2, <1>3, <1>6 DEF Timed
  <1> QED
    BY <1>3, <1>4, <1>5, <1>6, <1>7, <1>8

\* resume: the interval of a pause().cycle() runs.
LEMMA Resumes ==
    ASSUME NEW d \in CarouselObject, Timed(d), NEW e, e = Resume(d)
    PROVE  /\ e \in CarouselObject /\ Timed(e) /\ e.asked
           /\ e.active = d.active /\ e.moving = d.moving /\ e.sliding = d.sliding
           /\ e.indicator = d.indicator /\ e.waiting = d.waiting
  <1>0. TRUE \in BOOLEAN
    OBVIOUS
  <1>1. PICK p : p = Pause(d, TRUE)
    OBVIOUS
  <1>2. PICK q : q = Cycle(p, TRUE)
    OBVIOUS
  <1>3. /\ p \in CarouselObject /\ Timed(p)
        /\ p.active = d.active /\ p.moving = d.moving /\ p.sliding = d.sliding
        /\ p.indicator = d.indicator /\ p.waiting = d.waiting
    BY <1>0, <1>1, Pauses
  <1>4. /\ q \in CarouselObject /\ Timed(q)
        /\ q.active = p.active /\ q.moving = p.moving /\ q.sliding = p.sliding
        /\ q.indicator = p.indicator /\ q.waiting = p.waiting
    <2>1. q \in CarouselObject /\ Timed(q)
      BY <1>0, <1>2, <1>3, Cycles
    <2>2. /\ q.active = p.active /\ q.moving = p.moving /\ q.sliding = p.sliding
          /\ q.indicator = p.indicator /\ q.waiting = p.waiting
      BY <1>2, <1>3 DEF Cycle, CarouselObject
    <2> QED
      BY <2>1, <2>2
  <1>5. e = [q EXCEPT !.asked = TRUE]
    BY <1>1, <1>2 DEF Resume
  <1>6. e \in CarouselObject
    BY <1>0, <1>4, <1>5 DEF CarouselObject
  <1>7. /\ e.active = q.active /\ e.moving = q.moving /\ e.sliding = q.sliding
        /\ e.indicator = q.indicator /\ e.waiting = q.waiting /\ e.asked = TRUE
        /\ e.interval = q.interval /\ e.ticking = q.ticking /\ e.paused = q.paused
    BY <1>4, <1>5 DEF CarouselObject
  <1>8. Timed(e)
    BY <1>4, <1>7 DEF Timed
  <1> QED
    BY <1>3, <1>4, <1>6, <1>7, <1>8

\* The part of it that a slide needs.
LEMMA CycleKeeps ==
    ASSUME NEW d \in CarouselObject, Timed(d)
    PROVE  /\ Cycle(d, TRUE) \in CarouselObject /\ Timed(Cycle(d, TRUE))
           /\ Cycle(d, TRUE).active = d.active /\ Cycle(d, TRUE).moving = d.moving
           /\ Cycle(d, TRUE).sliding = d.sliding
           /\ Cycle(d, TRUE).indicator = d.indicator
           /\ Cycle(d, TRUE).waiting = d.waiting /\ Cycle(d, TRUE).asked = d.asked
  <1>1. TRUE \in BOOLEAN
    OBVIOUS
  <1>2. PICK e : e = Cycle(d, TRUE)
    OBVIOUS
  <1>3. e \in CarouselObject /\ Timed(e)
    BY <1>1, <1>2, Cycles
  <1>4. /\ e.active = d.active /\ e.moving = d.moving /\ e.sliding = d.sliding
        /\ e.indicator = d.indicator /\ e.waiting = d.waiting /\ e.asked = d.asked
    BY <1>2 DEF Cycle, CarouselObject
  <1> QED
    BY <1>2, <1>3, <1>4

\* slide() at rest: to the active item nothing moves, and to another one a transition
\* starts, while the interval runs on if it ran.
LEMMA Slides ==
    ASSUME NEW d \in CarouselObject, Turns(d), Timed(d), ~d.sliding,
           NEW next \in Items, NEW e, e = Slide(d, next)
    PROVE  /\ e \in CarouselObject /\ Turns(e) /\ Timed(e)
           /\ e.interval = d.interval /\ e.asked = d.asked /\ e.waiting = d.waiting
           /\ next \notin d.active => e.sliding
  <1>1. CASE next \in d.active
    <2>1. FALSE = d.sliding
      BY DEF CarouselObject
    <2>2. e = [d EXCEPT !.sliding = FALSE]
      BY <1>1 DEF Slide
    <2>3. e = d
      BY <2>1, <2>2 DEF CarouselObject
    <2> QED
      BY <1>1, <2>3
  <1>2. CASE next \notin d.active
    <2> DEFINE move == [from |-> d.active, to |-> next]
               q == IF d.interval THEN Pause(d, TRUE) ELSE d
               m == q.moving \cup {move}
               s == [q EXCEPT !.sliding = TRUE, !.indicator = next, !.moving = m]
    <2>1. /\ q \in CarouselObject /\ Timed(q)
          /\ q.active = d.active /\ q.moving = d.moving
          /\ q.waiting = d.waiting /\ q.asked = d.asked
      BY Pauses
    <2>2. e = IF d.interval THEN Cycle(s, TRUE) ELSE s
      BY <1>2 DEF Slide
    <2>3. ~d.interval => q.interval = d.interval
      OBVIOUS
    <2>4. PICK i \in Items : d.active = {i} /\ d.moving = {}
      BY DEF Turns, CarouselObject
    <2>5. /\ m = {[from |-> {i}, to |-> next]} /\ next # i
          /\ m \in SUBSET [from : SUBSET Items, to : Items] /\ TRUE \in BOOLEAN
      <3>1. q.moving = {}
        BY <2>1, <2>4
      <3> HIDE DEF q
      <3>2. {i} \in SUBSET Items /\ move = [from |-> {i}, to |-> next]
        BY <2>4
      <3>3. m = {[from |-> {i}, to |-> next]}
        BY <3>1, <3>2
      <3>4. [from |-> {i}, to |-> next] \in [from : SUBSET Items, to : Items]
        BY <3>2
      <3> QED
        BY <1>2, <2>4, <3>3, <3>4
    <2>6. s = [q EXCEPT !.sliding = TRUE, !.indicator = next, !.moving = m]
      OBVIOUS
    <2> HIDE DEF s
    <2> HIDE DEF q, m, move
    <2>7. s \in CarouselObject
      BY <2>1, <2>5, <2>6 DEF CarouselObject
    <2>8. /\ s.sliding = TRUE /\ s.indicator = next /\ s.moving = m
          /\ s.active = q.active /\ s.waiting = q.waiting /\ s.asked = q.asked
          /\ s.interval = q.interval /\ s.ticking = q.ticking /\ s.paused = q.paused
      BY <2>1, <2>6 DEF CarouselObject
    <2>9. Timed(s)
      BY <2>1, <2>8 DEF Timed
    <2>10. /\ e \in CarouselObject /\ Timed(e)
           /\ e.active = s.active /\ e.moving = s.moving /\ e.sliding = s.sliding
           /\ e.indicator = s.indicator /\ e.waiting = s.waiting /\ e.asked = s.asked
      <3>1. CASE d.interval
        <4>1. e = Cycle(s, TRUE)
          BY <2>2, <3>1
        <4> QED
          BY <2>7, <2>9, <4>1, CycleKeeps
      <3>2. CASE ~d.interval
        BY <2>2, <2>7, <2>9, <3>2
      <3> QED
        BY <3>1, <3>2
    <2>11. e.interval = d.interval
      <3>1. CASE d.interval
        <4>1. TRUE \in BOOLEAN /\ ~(s.paused /\ ~TRUE)
          OBVIOUS
        <4>2. e.interval = ~(s.paused /\ ~TRUE)
          BY <2>2, <2>7, <2>9, <3>1, <4>1, Cycles
        <4> QED
          BY <3>1, <4>1, <4>2 DEF CarouselObject
      <3>2. CASE ~d.interval
        BY <2>2, <2>3, <2>8, <3>2
      <3> QED
        BY <3>1, <3>2
    <2>12. Turns(e)
      <3>1. next \in Items \ {i} /\ e.active = {i} /\ e.sliding /\ e.indicator = next
            /\ e.moving = {[from |-> {i}, to |-> next]}
        BY <2>1, <2>4, <2>5, <2>8, <2>10
      <3> QED
        BY <3>1, <2>4 DEF Turns
    <2> QED
      BY <1>2, <2>1, <2>8, <2>10, <2>11, <2>12
  <1> QED
    BY <1>1, <1>2

\* A set of numbers has a least one.
LEMMA Least ==
    ASSUME NEW S \in SUBSET Nat, S # {}
    PROVE  \E i \in S : \A j \in S : i <= j
  <1> DEFINE R == OpToRel(<, Nat)
  <1>1. \E m \in S : \A i \in S : ~ (<<i, m>> \in R)
    BY WFMin, NatLessThanWellFounded
  <1>2. \A i, m \in Nat : <<i, m>> \in R <=> i < m
    BY DEF OpToRel
  <1> HIDE DEF R
  <1>3. PICK m \in S : \A i \in S : ~ (i < m)
    BY <1>1, <1>2
  <1> QED
    BY <1>3

\* Induction over the numbers, for a set that counts them.
LEMMA Counting ==
    ASSUME NEW S \in SUBSET Nat, 0 \in S, \A n \in S : n + 1 \in S
    PROVE  \A n \in Nat : n \in S
  <1> SUFFICES ASSUME Nat \ S # {} PROVE FALSE
    OBVIOUS
  <1>1. PICK m \in Nat \ S : \A i \in Nat \ S : m <= i
    BY Least
  <1>2. m # 0 /\ m - 1 \in Nat
    BY <1>1
  <1>3. m - 1 \in S
    BY <1>1, <1>2
  <1>4. (m - 1) + 1 \in S
    BY <1>3
  <1> QED
    BY <1>1, <1>4

\* What every call but pause() leaves, in the terms of the invariant.
Follows(d, e) ==
    /\ e \in CarouselObject /\ Turns(e) /\ Timed(e)
    /\ ~e.asked => ~d.asked /\ e.interval = d.interval
    /\ d.sliding => e.sliding
    /\ e.waiting # <<>> => d.waiting # <<>> \/ e.sliding

\* next() and prev() stay among the items.
LEMMA Neighbours ==
    ASSUME NEW d \in CarouselObject, Turns(d), NEW type
    PROVE  Neighbour(d, type) \in Items
  <1>1. PICK i \in Items : d.active = {i}
    BY DEF Turns
  <1>2. (CHOOSE k \in d.active : TRUE) = i
    BY <1>1
  <1>3. NItems \in Nat /\ NItems > 0 /\ i \in Nat
    BY ItemsAssumption DEF Items
  <1>4. (i + 1) % NItems \in 0 .. NItems - 1
    BY <1>3
  <1>5. (i + NItems - 1) % NItems \in 0 .. NItems - 1
    BY <1>3
  <1> QED
    BY <1>2, <1>4, <1>5 DEF Neighbour, Items

\* next(), prev() and the interval.
LEMMA Stepped ==
    ASSUME NEW d \in CarouselObject, Turns(d), Timed(d), NEW type, NEW e, e = Step(d, type)
    PROVE  Follows(d, e) /\ e.waiting = d.waiting /\ e.asked = d.asked /\ e.interval = d.interval
  <1>1. CASE d.sliding
    BY <1>1 DEF Step, Follows
  <1>2. CASE ~d.sliding
    <2>1. Neighbour(d, type) \in Items
      BY Neighbours
    <2>2. e = Slide(d, Neighbour(d, type))
      BY <1>2 DEF Step
    <2>3. /\ e \in CarouselObject /\ Turns(e) /\ Timed(e)
          /\ e.interval = d.interval /\ e.asked = d.asked /\ e.waiting = d.waiting
      BY <1>2, <2>1, <2>2, Slides
    <2> QED
      BY <1>2, <2>3 DEF Follows
  <1> QED
    BY <1>1, <1>2

\* to(pos)
LEMMA Selected ==
    ASSUME NEW d \in CarouselObject, Turns(d), Timed(d), NEW pos \in Items, NEW e, e = To(d, pos)
    PROVE  Follows(d, e)
  <1>1. CASE d.sliding
    <2>1. PICK w : w = Append(d.waiting, pos)
      OBVIOUS
    <2>2. w \in Seq(Items)
      BY <2>1 DEF CarouselObject
    <2>3. e = [d EXCEPT !.waiting = w]
      BY <1>1, <2>1 DEF To
    <2>4. e \in CarouselObject
      BY <2>2, <2>3 DEF CarouselObject
    <2>5. /\ e.active = d.active /\ e.moving = d.moving /\ e.sliding = d.sliding
          /\ e.indicator = d.indicator /\ e.asked = d.asked
          /\ e.interval = d.interval /\ e.ticking = d.ticking /\ e.paused = d.paused
      BY <2>3 DEF CarouselObject
    <2>6. Turns(e)
      BY <2>5 DEF Turns
    <2>7. Timed(e)
      BY <2>5 DEF Timed
    <2> QED
      BY <1>1, <2>4, <2>5, <2>6, <2>7 DEF Follows
  <1>2. CASE ~d.sliding /\ pos \in d.active
    <2>1. e = Resume(d)
      BY <1>2 DEF To
    <2>2. /\ e \in CarouselObject /\ Timed(e) /\ e.asked
          /\ e.active = d.active /\ e.moving = d.moving /\ e.sliding = d.sliding
          /\ e.indicator = d.indicator /\ e.waiting = d.waiting
      BY <2>1, Resumes
    <2>3. Turns(e)
      BY <2>2 DEF Turns
    <2> QED
      BY <2>2, <2>3 DEF Follows
  <1>3. CASE ~d.sliding /\ pos \notin d.active
    <2>1. e = Slide(d, pos)
      BY <1>3 DEF To
    <2>2. /\ e \in CarouselObject /\ Turns(e) /\ Timed(e) /\ e.sliding
          /\ e.interval = d.interval /\ e.asked = d.asked /\ e.waiting = d.waiting
      BY <1>3, <2>1, Slides
    <2> QED
      BY <2>2 DEF Follows
  <1> QED
    BY <1>1, <1>2, <1>3

\* The calls that waited are carried out, or wait for another slide.
LEMMA Wakes ==
    ASSUME NEW d \in CarouselObject, Turns(d), Timed(d), NEW e, e = Woken(d)
    PROVE  Follows(d, e) /\ (e.waiting # <<>> => e.sliding)
  <1>1. CASE d.sliding
    <2>1. e = d
      BY <1>1 DEF Woken
    <2> QED
      BY <1>1, <2>1 DEF Follows
  <1>2. CASE ~d.sliding
    <2>1. PICK calls : calls = d.waiting
      OBVIOUS
    <2>2. PICK other : other = {k \in DOMAIN calls : calls[k] \notin d.active}
      OBVIOUS
    <2>3. PICK k : k = IF other = {} THEN Len(calls) + 1
                       ELSE CHOOSE i \in other : \A j \in other : i <= j
      OBVIOUS
    <2>4. PICK seen : seen = IF k = 1 THEN d ELSE Resume(d)
      OBVIOUS
    <2>5. e = IF other = {} THEN [seen EXCEPT !.waiting = <<>>]
              ELSE Slide([seen EXCEPT !.waiting = SubSeq(calls, k + 1, Len(calls))], calls[k])
      BY <1>2, <2>1, <2>2, <2>3, <2>4 DEF Woken
    <2>6. calls \in Seq(Items)
      BY <2>1 DEF CarouselObject
    <2>7. /\ seen \in CarouselObject /\ Timed(seen)
          /\ seen.active = d.active /\ seen.moving = d.moving /\ seen.sliding = d.sliding
          /\ seen.indicator = d.indicator
      <3>1. CASE k = 1
        BY <2>4, <3>1
      <3>2. CASE k # 1
        BY <2>4, <3>2, Resumes
      <3> QED
        BY <3>1, <3>2
    <2>8. ~seen.asked => ~d.asked /\ seen.interval = d.interval
      <3>1. CASE k = 1
        BY <2>4, <3>1
      <3>2. CASE k # 1
        BY <2>4, <3>2, Resumes
      <3> QED
        BY <3>1, <3>2
    <2>9. ASSUME NEW w \in Seq(Items), NEW f, f = [seen EXCEPT !.waiting = w]
          PROVE  /\ f \in CarouselObject /\ Turns(f) /\ Timed(f) /\ f.waiting = w
                 /\ f.active = d.active /\ f.sliding = d.sliding
                 /\ ~f.asked => ~d.asked /\ f.interval = d.interval
      <3>1. f \in CarouselObject
        BY <2>7, <2>9 DEF CarouselObject
      <3>2. /\ f.active = seen.active /\ f.moving = seen.moving /\ f.sliding = seen.sliding
            /\ f.indicator = seen.indicator /\ f.asked = seen.asked /\ f.waiting = w
            /\ f.interval = seen.interval /\ f.ticking = seen.ticking /\ f.paused = seen.paused
        BY <2>7, <2>9 DEF CarouselObject
      <3>3. Turns(f)
        <4>1. /\ f.active = d.active /\ f.moving = d.moving /\ f.sliding = d.sliding
              /\ f.indicator = d.indicator
          BY <2>7, <3>2
        <4> QED
          BY <4>1 DEF Turns
      <3>4. Timed(f)
        BY <2>7, <3>2 DEF Timed
      <3> QED
        BY <2>7, <2>8, <3>1, <3>2, <3>3, <3>4
    <2>10. CASE other = {}
      <3>1. <<>> \in Seq(Items)
        OBVIOUS
      <3>2. e = [seen EXCEPT !.waiting = <<>>]
        BY <2>5, <2>10
      <3>3. /\ e \in CarouselObject /\ Turns(e) /\ Timed(e) /\ e.waiting = <<>>
            /\ e.sliding = d.sliding
            /\ ~e.asked => ~d.asked /\ e.interval = d.interval
        BY <2>9, <3>1, <3>2
      <3> QED
        BY <1>2, <3>3 DEF Follows
    <2>11. CASE other # {}
      <3>1. other \in SUBSET Nat
        BY <2>2, <2>6
      <3>2. \E i \in other : \A j \in other : i <= j
        BY <2>11, <3>1, Least
      <3>3. k \in other
        BY <2>3, <2>11, <3>2
      <3>4. k \in DOMAIN calls /\ calls[k] \notin d.active /\ calls[k] \in Items
            /\ k \in Nat
        BY <2>2, <2>6, <3>3
      <3>5. PICK w : w = SubSeq(calls, k + 1, Len(calls))
        OBVIOUS
      <3>6. w \in Seq(Items)
        <4>1. Len(calls) \in Int /\ k + 1 \in Int
          BY <2>6, <3>4
        <4>2. \A i \in k + 1 .. Len(calls) : calls[i] \in Items
          BY <2>6, <3>4
        <4> QED
          BY <3>5, <4>1, <4>2, SubSeqProperties
      <3>7. PICK f : f = [seen EXCEPT !.waiting = w]
        OBVIOUS
      <3>8. /\ f \in CarouselObject /\ Turns(f) /\ Timed(f) /\ f.waiting = w
            /\ f.active = d.active /\ f.sliding = d.sliding
            /\ ~f.asked => ~d.asked /\ f.interval = d.interval
        BY <2>9, <3>6, <3>7
      <3>9. e = Slide(f, calls[k])
        BY <2>5, <2>11, <3>5, <3>7
      <3>10. /\ e \in CarouselObject /\ Turns(e) /\ Timed(e)
             /\ e.interval = f.interval /\ e.asked = f.asked /\ e.sliding
        BY <1>2, <3>4, <3>8, <3>9, Slides
      <3> QED
        BY <3>8, <3>10 DEF Follows
    <2> QED
      BY <2>10, <2>11
  <1> QED
    BY <1>1, <1>2

\* CarouselIInv is inductive.
THEOREM CarouselInvariance == CarouselSpec => []CarouselIInv
  <1>1. CarouselInit => CarouselIInv
    <2> SUFFICES ASSUME CarouselInit PROVE CarouselIInv
      OBVIOUS
    <2>1. 0 \in Items
      BY ItemsAssumption DEF Items
    <2>2. <<>> \in Seq(Items) /\ {} \in SUBSET [from : SUBSET Items, to : Items]
      OBVIOUS
    <2>3. CarouselTypeOK
      <3>1. {0} \in SUBSET Items /\ TRUE \in BOOLEAN /\ FALSE \in BOOLEAN /\ 1 \in Nat
        BY <2>1
      <3>2. c \in CarouselObject
        BY <2>1, <2>2, <3>1 DEF CarouselInit, CarouselObject
      <3>3. slow \in BOOLEAN /\ slids \in Nat /\ hover \in BOOLEAN /\ inputs \in 0 .. MaxInputs
        <4>1. slids = 0 /\ hover = FALSE /\ inputs = 0 /\ slow \in BOOLEAN
          BY DEF CarouselInit
        <4>2. hover \in BOOLEAN
          BY <4>1
        <4>3. slids \in Nat /\ inputs \in 0 .. MaxInputs
          BY <4>1, MaxInputsAssumption
        <4> QED
          BY <4>1, <4>2, <4>3
      <3> QED
        BY <3>2, <3>3 DEF CarouselTypeOK
    <2>4. Turns(c) /\ Timed(c)
      BY <2>1 DEF CarouselInit, Turns, Timed
    <2> QED
      BY <2>3, <2>4 DEF CarouselInit, CarouselIInv, HoverRests, WaitsForSlid
  <1>2. CarouselIInv /\ [CarouselNext]_carouselVars => CarouselIInv'
    <2> SUFFICES ASSUME CarouselIInv, [CarouselNext]_carouselVars PROVE CarouselIInv'
      OBVIOUS
    <2>1. /\ c \in CarouselObject /\ Turns(c) /\ Timed(c)
          /\ slow \in BOOLEAN /\ slids \in Nat /\ hover \in BOOLEAN /\ inputs \in 0 .. MaxInputs
          /\ hover /\ ~c.asked => ~c.interval
          /\ c.waiting # <<>> => c.sliding \/ slids > 0
      BY DEF CarouselIInv, CarouselTypeOK, HoverRests, WaitsForSlid
    <2>2. ASSUME Follows(c, c'), slow' = slow, hover' = hover, inputs' \in 0 .. MaxInputs,
                 slids' \in Nat, slids' = slids \/ (c'.waiting # <<>> => c'.sliding)
          PROVE  CarouselIInv'
      <3>1. c' \in CarouselObject /\ Turns(c') /\ Timed(c')
        BY <2>2 DEF Follows
      <3>2. HoverRests'
        BY <2>1, <2>2 DEF Follows, HoverRests
      <3>3. WaitsForSlid'
        BY <2>1, <2>2 DEF Follows, WaitsForSlid
      <3> QED
        BY <2>1, <2>2, <3>1, <3>2, <3>3 DEF CarouselIInv, CarouselTypeOK, Turns, Timed
    <2>3. ASSUME Input PROVE inputs' \in 0 .. MaxInputs
      BY <2>1, <2>3, MaxInputsAssumption DEF Input
    <2>4. ASSUME NEW type \in {"next", "prev"}, Turn(type) PROVE CarouselIInv'
      <3>1. Follows(c, c')
        BY <2>1, <2>4, Stepped DEF Turn
      <3> QED
        BY <2>1, <2>2, <2>3, <2>4, <3>1 DEF Turn
    <2>5. ASSUME NEW pos \in Items, Select(pos) PROVE CarouselIInv'
      <3>1. Follows(c, c')
        BY <2>1, <2>5, Selected DEF Select
      <3> QED
        BY <2>1, <2>2, <2>3, <2>5, <3>1 DEF Select
    <2>6. CASE Tick
      <3>1. Follows(c, c')
        BY <2>1, <2>6, Stepped DEF Tick
      <3> QED
        BY <2>1, <2>2, <2>6, <3>1 DEF Tick
    <2>7. CASE Slid
      <3>1. Follows(c, c') /\ (c'.waiting # <<>> => c'.sliding)
        BY <2>1, <2>7, Wakes DEF Slid
      <3>2. slids' \in Nat /\ slow' = slow /\ hover' = hover /\ inputs' = inputs
        BY <2>1, <2>7 DEF Slid
      <3> QED
        BY <2>1, <2>2, <3>1, <3>2
    <2>8. ASSUME NEW e \in CarouselObject, Timed(e),
                 e.active = c.active, e.moving = c.moving, e.sliding = c.sliding,
                 e.indicator = c.indicator, e.waiting = c.waiting,
                 c' = e, slow' = slow, slids' = slids, inputs' \in 0 .. MaxInputs,
                 hover' \in BOOLEAN, hover' /\ ~e.asked => ~e.interval
          PROVE  CarouselIInv'
      <3>1. Turns(c')
        BY <2>1, <2>8, ZenonT(60) DEF Turns
      <3>2. Timed(c') /\ c' \in CarouselObject
        BY <2>8
      <3>3. HoverRests'
        BY <2>8 DEF HoverRests
      <3>4. WaitsForSlid'
        BY <2>1, <2>8 DEF WaitsForSlid
      <3> QED
        BY <2>1, <2>8, <3>1, <3>2, <3>3, <3>4 DEF CarouselIInv, CarouselTypeOK, Turns, Timed
    <2>9. CASE CallPause
      <3>1. PICK e : e = Pause(c, TRUE)
        OBVIOUS
      <3>2. /\ e \in CarouselObject /\ Timed(e) /\ ~e.interval
            /\ e.active = c.active /\ e.moving = c.moving /\ e.sliding = c.sliding
            /\ e.indicator = c.indicator /\ e.waiting = c.waiting
        BY <2>1, <3>1, Pauses
      <3>3. c' = e /\ slow' = slow /\ slids' = slids /\ hover' = hover /\ Input
        BY <2>9, <3>1 DEF CallPause
      <3> QED
        BY <2>1, <2>3, <2>8, <3>2, <3>3
    <2>10. CASE CallCycle
      <3>1. PICK q : q = Cycle(c, TRUE)
        OBVIOUS
      <3>2. q \in CarouselObject /\ Timed(q)
        BY <2>1, <3>1, Cycles
      <3>3. /\ q.active = c.active /\ q.moving = c.moving /\ q.sliding = c.sliding
            /\ q.indicator = c.indicator /\ q.waiting = c.waiting
        BY <2>1, <3>1 DEF Cycle, CarouselObject
      <3>4. PICK e : e = [q EXCEPT !.asked = TRUE]
        OBVIOUS
      <3>5. e \in CarouselObject /\ e.asked = TRUE
        BY <3>2, <3>4 DEF CarouselObject
      <3>6. /\ e.active = q.active /\ e.moving = q.moving /\ e.sliding = q.sliding
            /\ e.indicator = q.indicator /\ e.waiting = q.waiting
            /\ e.interval = q.interval /\ e.ticking = q.ticking /\ e.paused = q.paused
        BY <3>2, <3>4 DEF CarouselObject
      <3>7. Timed(e)
        BY <3>2, <3>6 DEF Timed
      <3>8. c' = e /\ slow' = slow /\ slids' = slids /\ hover' = hover /\ Input
        BY <2>10, <3>1, <3>4 DEF CallCycle
      <3> QED
        BY <2>1, <2>3, <2>8, <3>3, <3>5, <3>6, <3>7, <3>8
    <2>11. CASE MouseEnter
      <3>1. PICK q : q = Pause(c, FALSE)
        OBVIOUS
      <3>2. q \in CarouselObject /\ Timed(q) /\ ~q.interval
        BY <2>1, <3>1, Pauses
      <3>3. /\ q.active = c.active /\ q.moving = c.moving /\ q.sliding = c.sliding
            /\ q.indicator = c.indicator /\ q.waiting = c.waiting
        BY <2>1, <3>1 DEF Pause, CarouselObject
      <3>4. PICK e : e = [q EXCEPT !.asked = FALSE]
        OBVIOUS
      <3>5. e \in CarouselObject
        BY <3>2, <3>4 DEF CarouselObject
      <3>6. /\ e.active = q.active /\ e.moving = q.moving /\ e.sliding = q.sliding
            /\ e.indicator = q.indicator /\ e.waiting = q.waiting
            /\ e.interval = q.interval /\ e.ticking = q.ticking /\ e.paused = q.paused
        BY <3>2, <3>4 DEF CarouselObject
      <3>7. Timed(e)
        BY <3>2, <3>6 DEF Timed
      <3>8. c' = e /\ slow' = slow /\ slids' = slids /\ hover' = TRUE /\ Input
        BY <2>11, <3>1, <3>4 DEF MouseEnter
      <3> QED
        BY <2>1, <2>3, <2>8, <3>2, <3>3, <3>5, <3>6, <3>7, <3>8
    <2>12. CASE MouseLeave
      <3>1. PICK e : e = Cycle(c, FALSE)
        OBVIOUS
      <3>2. e \in CarouselObject /\ Timed(e)
        BY <2>1, <3>1, Cycles
      <3>3. /\ e.active = c.active /\ e.moving = c.moving /\ e.sliding = c.sliding
            /\ e.indicator = c.indicator /\ e.waiting = c.waiting
        BY <2>1, <3>1 DEF Cycle, CarouselObject
      <3>4. c' = e /\ slow' = slow /\ slids' = slids /\ hover' = FALSE /\ Input
        BY <2>12, <3>1 DEF MouseLeave
      <3> QED
        BY <2>1, <2>3, <2>8, <3>2, <3>3, <3>4
    <2>13. CASE SlideDone
      <3>1. PICK m \in c.moving :
                /\ c' = [c EXCEPT !.active = (@ \ m.from) \cup {m.to}, !.moving = @ \ {m},
                                  !.sliding = FALSE]
                /\ slids' = slids + 1
                /\ slow' = slow /\ hover' = hover /\ inputs' = inputs
        BY <2>13 DEF SlideDone
      <3>2. PICK i \in Items, j \in Items :
                /\ j # i /\ c.active = {i} /\ c.sliding /\ c.indicator = j
                /\ c.moving = {[from |-> {i}, to |-> j]}
        BY <2>1, <3>1 DEF Turns
      <3>3. m.from = {i} /\ m.to = j /\ c.moving \ {m} = {}
        BY <3>1, <3>2
      <3>4. (c.active \ m.from) \cup {m.to} = {j}
        BY <3>2, <3>3
      <3>5. c' = [c EXCEPT !.active = {j}, !.moving = {}, !.sliding = FALSE]
        BY <2>1, <3>1, <3>3, <3>4 DEF CarouselObject
      <3>6. /\ {j} \in SUBSET Items /\ {} \in SUBSET [from : SUBSET Items, to : Items]
            /\ FALSE \in BOOLEAN
        OBVIOUS
      <3>7. c' \in CarouselObject
        BY <2>1, <3>5, <3>6 DEF CarouselObject
      <3>8. /\ c'.active = {j} /\ c'.moving = {} /\ c'.sliding = FALSE
            /\ c'.indicator = j /\ c'.asked = c.asked /\ c'.waiting = c.waiting
            /\ c'.interval = c.interval /\ c'.ticking = c.ticking /\ c'.paused = c.paused
        BY <2>1, <3>2, <3>5 DEF CarouselObject
      <3>9. Turns(c')
        BY <3>8 DEF Turns
      <3>10. Timed(c')
        BY <2>1, <3>8 DEF Timed
      <3>11. HoverRests'
        BY <2>1, <3>1, <3>8 DEF HoverRests
      <3>12. WaitsForSlid'
        BY <2>1, <3>1 DEF WaitsForSlid
      <3>13. CarouselTypeOK'
        BY <2>1, <3>1, <3>7 DEF CarouselTypeOK
      <3> QED
        BY <3>9, <3>10, <3>11, <3>12, <3>13 DEF CarouselIInv, Turns, Timed
    <2>14. CASE UNCHANGED carouselVars
      BY <2>14 DEF carouselVars, CarouselIInv, CarouselTypeOK, Turns, Timed, HoverRests,
                   WaitsForSlid
    <2> QED
      BY <2>4, <2>5, <2>6, <2>7, <2>9, <2>10, <2>11, <2>12, <2>13, <2>14 DEF CarouselNext
  <1> QED
    BY <1>1, <1>2, PTL DEF CarouselSpec

\* CarouselInv for every number of items, inputs and timers.
THEOREM CarouselAgrees == CarouselSpec => []CarouselInv
  <1>1. CarouselIInv => CarouselInv
    <2> SUFFICES ASSUME CarouselIInv PROVE CarouselInv
      OBVIOUS
    <2>1. c \in CarouselObject /\ Turns(c) /\ Timed(c)
      BY DEF CarouselIInv, CarouselTypeOK
    <2>2. PICK i \in Items : c.active = {i}
      BY <2>1 DEF Turns
    <2>3. Cardinality(c.active) = 1
      BY <2>2, FS_Singleton
    <2>4. CASE ~c.sliding
      <3>1. c.moving = {} /\ c.indicator = i
        BY <2>1, <2>2, <2>4 DEF Turns
      <3>2. Cardinality(c.moving) = 0
        BY <3>1, FS_EmptySet
      <3> QED
        BY <2>1, <2>2, <2>3, <2>4, <3>1, <3>2
           DEF CarouselIInv, CarouselInv, OneActive, IndicatorAgrees, OneTimer, PausedRests, Timed
    <2>5. CASE c.sliding
      <3>1. PICK j \in Items \ {i} : c.moving = {[from |-> {i}, to |-> j]} /\ c.indicator = j
        BY <2>1, <2>2, <2>5 DEF Turns
      <3>2. Cardinality(c.moving) = 1
        BY <3>1, FS_Singleton
      <3>3. \A m \in c.moving : m.from = c.active /\ m.to \notin c.active
        BY <2>2, <3>1
      <3>4. {m.to : m \in c.moving} = {j}
        BY <3>1
      <3>5. OneActive
        BY <2>3, <2>5, <3>2, <3>3 DEF OneActive
      <3>6. IndicatorAgrees
        BY <2>5, <3>1, <3>4 DEF IndicatorAgrees
      <3> QED
        BY <2>1, <3>5, <3>6 DEF CarouselIInv, CarouselInv, OneTimer, PausedRests, Timed
    <2> QED
      BY <2>4, <2>5
  <1> QED
    BY <1>1, CarouselInvariance, PTL

-----------------------------------------------------------------------------
(* The accordion.  What holds of every panel, whoever made its object, is    *)
(* kept by each operation on a panel; one panel at most opens because the    *)
(* first active panel, if it has a transition, blocks (show).                *)

Callbacks == [kind : {"show", "hide"}, own : BOOLEAN]

PanelObject ==
    [class : {"collapse", "collapsing", "in"}, expanded : BOOLEAN, made : BOOLEAN,
     parent : BOOLEAN, busy : BOOLEAN, ends : Seq(Callbacks)]

OwnEnd(q) == \E i \in DOMAIN q.ends : q.ends[i].own

\* The flag and the class tell of the callbacks; without an object there is no flag.
Honest(q) ==
    /\ q \in PanelObject
    /\ q.class = "collapsing" <=> q.ends # <<>>
    /\ q.busy <=> OwnEnd(q)
    /\ ~q.made => ~q.busy

\* A callback more: the sequence is not empty, and has one of its own if it had or gets one.
LEMMA OneMore ==
    ASSUME NEW q \in PanelObject, NEW k \in {"show", "hide"}, NEW own \in BOOLEAN,
           NEW ends, ends = Append(q.ends, [kind |-> k, own |-> own])
    PROVE  /\ ends \in Seq(Callbacks) /\ ends # <<>>
           /\ (\E i \in DOMAIN ends : ends[i].own) <=> OwnEnd(q) \/ own
  <1> DEFINE x == [kind |-> k, own |-> own]
  <1>1. x \in Callbacks /\ x.own = own
    BY DEF Callbacks
  <1>2. q.ends \in Seq(Callbacks)
    BY DEF PanelObject
  <1>3. ends = Append(q.ends, x)
    OBVIOUS
  <1> HIDE DEF x
  <1>4. /\ ends \in Seq(Callbacks) /\ Len(ends) = Len(q.ends) + 1 /\ ends[Len(q.ends) + 1] = x
        /\ \A i \in 1 .. Len(q.ends) : ends[i] = q.ends[i]
        /\ DOMAIN ends = 1 .. Len(q.ends) + 1 /\ DOMAIN q.ends = 1 .. Len(q.ends)
        /\ Len(q.ends) \in Nat
    BY <1>1, <1>2, <1>3
  <1>5. ends # <<>>
    BY <1>4
  <1>6. ASSUME NEW i \in DOMAIN ends, ends[i].own PROVE OwnEnd(q) \/ own
    <2>1. CASE i = Len(q.ends) + 1
      BY <1>1, <1>4, <1>6, <2>1
    <2>2. CASE i # Len(q.ends) + 1
      <3>1. i \in DOMAIN q.ends /\ ends[i] = q.ends[i]
        BY <1>4, <2>2
      <3> QED
        BY <1>6, <3>1 DEF OwnEnd
    <2> QED
      BY <2>1, <2>2
  <1>7. ASSUME OwnEnd(q) PROVE \E i \in DOMAIN ends : ends[i].own
    <2>1. PICK i \in DOMAIN q.ends : q.ends[i].own
      BY <1>7 DEF OwnEnd
    <2>2. i \in DOMAIN ends /\ ends[i] = q.ends[i]
      BY <1>4
    <2> QED
      BY <2>1, <2>2
  <1>8. ASSUME own PROVE \E i \in DOMAIN ends : ends[i].own
    <2>1. Len(q.ends) + 1 \in DOMAIN ends
      BY <1>4
    <2> QED
      BY <1>1, <1>4, <1>8, <2>1
  <1> QED
    BY <1>4, <1>5, <1>6, <1>7, <1>8

\* The transition of show().
LEMMA ShowStarts ==
    ASSUME NEW q, Honest(q), NEW own \in BOOLEAN, own => q.made, NEW r, r = StartShow(q, own)
    PROVE  /\ Honest(r) /\ r.class = "collapsing" /\ r.expanded
           /\ r.made = q.made /\ r.parent = q.parent
           /\ r.ends = Append(q.ends, [kind |-> "show", own |-> own])
  <1>1. PICK ends : ends = Append(q.ends, [kind |-> "show", own |-> own])
    OBVIOUS
  <1>2. PICK busy \in BOOLEAN : busy = (q.busy \/ own)
    OBVIOUS
  <1>3. q \in PanelObject /\ "collapsing" \in {"collapse", "collapsing", "in"} /\ TRUE \in BOOLEAN
    BY DEF Honest
  <1>4. r = [q EXCEPT !.class = "collapsing", !.expanded = TRUE, !.busy = busy, !.ends = ends]
    BY <1>1, <1>2, <1>3 DEF StartShow, PanelObject
  <1>5. /\ ends \in Seq(Callbacks) /\ ends # <<>>
        /\ (\E i \in DOMAIN ends : ends[i].own) <=> OwnEnd(q) \/ own
    BY <1>1, <1>3, OneMore
  <1>6. r \in PanelObject
    BY <1>2, <1>3, <1>4, <1>5 DEF PanelObject
  <1>7. /\ r.class = "collapsing" /\ r.expanded = TRUE /\ r.busy = busy /\ r.ends = ends
        /\ r.made = q.made /\ r.parent = q.parent
    BY <1>3, <1>4 DEF PanelObject
  <1>8. r.busy <=> OwnEnd(r)
    BY <1>2, <1>5, <1>7 DEF OwnEnd, Honest
  <1>9. ~r.made => ~r.busy
    BY <1>2, <1>7 DEF Honest
  <1> QED
    BY <1>1, <1>5, <1>6, <1>7, <1>8, <1>9 DEF Honest

\* The transition of hide(), which is always that of an object of the panel.
LEMMA HideStarts ==
    ASSUME NEW q, Honest(q), q.made, NEW r, r = StartHide(q)
    PROVE  /\ Honest(r) /\ r.class = "collapsing" /\ ~r.expanded
           /\ r.made = q.made /\ r.parent = q.parent
           /\ r.ends = Append(q.ends, [kind |-> "hide", own |-> TRUE])
  <1>1. PICK ends : ends = Append(q.ends, [kind |-> "hide", own |-> TRUE])
    OBVIOUS
  <1>2. /\ q \in PanelObject /\ "collapsing" \in {"collapse", "collapsing", "in"}
        /\ TRUE \in BOOLEAN /\ FALSE \in BOOLEAN
    BY DEF Honest
  <1>3. r = [q EXCEPT !.class = "collapsing", !.expanded = FALSE, !.busy = TRUE, !.ends = ends]
    BY <1>1, <1>2 DEF StartHide, PanelObject
  <1>4. /\ ends \in Seq(Callbacks) /\ ends # <<>> /\ \E i \in DOMAIN ends : ends[i].own
    BY <1>1, <1>2, OneMore
  <1>5. r \in PanelObject
    BY <1>2, <1>3, <1>4 DEF PanelObject
  <1>6. /\ r.class = "collapsing" /\ r.expanded = FALSE /\ r.busy = TRUE /\ r.ends = ends
        /\ r.made = q.made /\ r.parent = q.parent
    BY <1>2, <1>3 DEF PanelObject
  <1>7. OwnEnd(r)
    BY <1>4, <1>6 DEF OwnEnd
  <1> QED
    BY <1>1, <1>4, <1>5, <1>6, <1>7 DEF Honest

\* hide() of the panel's object.
LEMMA Hides ==
    ASSUME NEW q, Honest(q), q.made, NEW r, r = HidePanel(q)
    PROVE  Honest(r)
  <1>1. CASE q.busy \/ q.class # "in"
    BY <1>1 DEF HidePanel
  <1>2. CASE ~(q.busy \/ q.class # "in")
    <2>1. r = StartHide(q)
      BY <1>2 DEF HidePanel
    <2> QED
      BY <2>1, HideStarts
  <1> QED
    BY <1>1, <1>2

\* addAriaAndCollapsedClass
LEMMA Marks ==
    ASSUME NEW q, Honest(q), NEW r, r = Marked(q)
    PROVE  Honest(r) /\ r.class = q.class /\ r.made = q.made
  <1>1. PICK x \in BOOLEAN : x = (q.class = "in")
    OBVIOUS
  <1>2. q \in PanelObject
    BY DEF Honest
  <1>3. r = [q EXCEPT !.expanded = x]
    BY <1>1 DEF Marked
  <1>4. r \in PanelObject
    BY <1>1, <1>2, <1>3 DEF PanelObject
  <1>5. r.class = q.class /\ r.made = q.made /\ r.busy = q.busy /\ r.ends = q.ends
    BY <1>2, <1>3 DEF PanelObject
  <1>6. OwnEnd(r) <=> OwnEnd(q)
    BY <1>5 DEF OwnEnd
  <1> QED
    BY <1>4, <1>5, <1>6 DEF Honest

\* data('bs.collapse', null): no callback is that of an object the panel has.
LEMMA Forgets ==
    ASSUME NEW q, Honest(q), NEW r, r = Forgotten(q)
    PROVE  Honest(r) /\ ~r.busy /\ r.class = q.class /\ ~OwnEnd(r)
  <1>1. PICK ends : ends = [i \in DOMAIN q.ends |-> [q.ends[i] EXCEPT !.own = FALSE]]
    OBVIOUS
  <1>2. q \in PanelObject /\ q.ends \in Seq(Callbacks) /\ FALSE \in BOOLEAN
    BY DEF Honest, PanelObject
  <1>3. ASSUME NEW i \in DOMAIN q.ends
        PROVE  ends[i] \in Callbacks /\ ends[i].own = FALSE
    <2>1. q.ends[i] \in Callbacks
      BY <1>2, <1>3
    <2>2. ends[i] = [q.ends[i] EXCEPT !.own = FALSE]
      BY <1>1
    <2> QED
      BY <1>2, <2>1, <2>2 DEF Callbacks
  <1>4. DOMAIN ends = DOMAIN q.ends /\ DOMAIN q.ends = 1 .. Len(q.ends) /\ Len(q.ends) \in Nat
    BY <1>1, <1>2
  <1>5. ends \in [1 .. Len(q.ends) -> Callbacks]
    BY <1>1, <1>3, <1>4
  <1>6. ends \in Seq(Callbacks) /\ Len(ends) = Len(q.ends)
    BY <1>4, <1>5
  <1>7. ends # <<>> <=> q.ends # <<>>
    BY <1>2, <1>6
  <1>8. r = [q EXCEPT !.made = FALSE, !.busy = FALSE, !.ends = ends]
    BY <1>1 DEF Forgotten
  <1>9. r \in PanelObject
    BY <1>2, <1>6, <1>8 DEF PanelObject
  <1>10. r.class = q.class /\ r.made = FALSE /\ r.busy = FALSE /\ r.ends = ends
    BY <1>2, <1>8 DEF PanelObject
  <1>11. ~OwnEnd(r)
    BY <1>3, <1>4, <1>10 DEF OwnEnd
  <1> QED
    BY <1>7, <1>9, <1>10, <1>11 DEF Honest

\* A new object for a panel none of whose callbacks is its own.
LEMMA Makes ==
    ASSUME NEW q, Honest(q), ~q.busy, NEW parent \in BOOLEAN, NEW r,
           r = [q EXCEPT !.made = TRUE, !.parent = parent, !.busy = FALSE]
    PROVE  Honest(r) /\ r.made /\ r.class = q.class /\ r.ends = q.ends
  <1>1. q \in PanelObject /\ TRUE \in BOOLEAN /\ FALSE \in BOOLEAN /\ ~OwnEnd(q)
    BY DEF Honest
  <1>2. r \in PanelObject
    BY <1>1 DEF PanelObject
  <1>3. r.class = q.class /\ r.made = TRUE /\ r.busy = FALSE /\ r.ends = q.ends
    BY <1>1 DEF PanelObject
  <1>4. ~OwnEnd(r)
    BY <1>1, <1>3 DEF OwnEnd
  <1> QED
    BY <1>2, <1>3, <1>4 DEF Honest

\* Plugin('hide')
LEMMA PluginHides ==
    ASSUME NEW q, Honest(q), NEW r, r = PluginHide(q)
    PROVE  Honest(r)
  <1>1. CASE q.made
    <2>1. r = HidePanel(q)
      BY <1>1 DEF PluginHide
    <2> QED
      BY <1>1, <2>1, Hides
  <1>2. CASE ~q.made
    <2>1. PICK m : m = Marked(q)
      OBVIOUS
    <2>2. Honest(m) /\ m.class = q.class /\ m.made = q.made
      BY <2>1, Marks
    <2>3. ~m.busy
      BY <1>2, <2>2 DEF Honest
    <2>4. PICK new : new = [m EXCEPT !.made = TRUE, !.parent = FALSE, !.busy = FALSE]
      OBVIOUS
    <2>5. FALSE \in BOOLEAN /\ TRUE \in BOOLEAN
      OBVIOUS
    <2>6. Honest(new) /\ new.made
      BY <2>2, <2>3, <2>4, <2>5, Makes
    <2>7. r = IF q.class = "in" THEN StartHide(new) ELSE StartShow(new, TRUE)
      BY <1>2, <2>1, <2>4 DEF PluginHide
    <2> QED
      BY <2>5, <2>6, <2>7, HideStarts, ShowStarts
  <1> QED
    BY <1>1, <1>2

AllHonest(ps) == ps \in [Panels -> PanelObject] /\ \A a \in Panels : Honest(ps[a])

\* A function of honest panels.
LEMMA HonestFunction ==
    ASSUME NEW ps, DOMAIN ps = Panels, ps = [a \in Panels |-> ps[a]],
           \A a \in Panels : Honest(ps[a])
    PROVE  AllHonest(ps)
  <1>1. \A a \in Panels : ps[a] \in PanelObject
    BY DEF Honest
  <1> QED
    BY <1>1 DEF AllHonest

\* The hiding of the active panels.
LEMMA ActivesHide ==
    ASSUME NEW ps, AllHonest(ps), NEW hs, hs = HideActives(ps)
    PROVE  AllHonest(hs) /\ hs = [a \in Panels |-> hs[a]]
  <1>1. PICK known \in BOOLEAN :
            known = (Actives(ps) # {} /\ ps[First(Actives(ps))].made)
    BY DEF AllHonest, Honest, PanelObject
  <1>2. hs = [a \in Panels |->
                IF a \notin Actives(ps) THEN ps[a]
                ELSE IF known THEN PluginHide(ps[a]) ELSE Forgotten(PluginHide(ps[a]))]
    BY <1>1 DEF HideActives
  <1>3. ASSUME NEW a \in Panels PROVE Honest(hs[a])
    <2>1. PICK h : h = PluginHide(ps[a])
      OBVIOUS
    <2>2. Honest(ps[a])
      BY DEF AllHonest
    <2>3. Honest(h)
      BY <2>1, <2>2, PluginHides
    <2>4. hs[a] = IF a \notin Actives(ps) THEN ps[a] ELSE IF known THEN h ELSE Forgotten(h)
      BY <1>2, <2>1
    <2>5. PICK f : f = Forgotten(h)
      OBVIOUS
    <2>6. Honest(f)
      BY <2>3, <2>5, Forgets
    <2> QED
      BY <2>2, <2>3, <2>4, <2>5, <2>6
  <1> QED
    <2>1. DOMAIN hs = Panels /\ hs = [a \in Panels |-> hs[a]]
      BY <1>2
    <2> QED
      BY <1>3, <2>1, HonestFunction

\* One panel is changed, the others stay honest.
LEMMA OneChanges ==
    ASSUME NEW ps, AllHonest(ps), NEW p \in Panels, NEW r, Honest(r),
           NEW rs, rs = [ps EXCEPT ![p] = r]
    PROVE  AllHonest(rs) /\ rs[p] = r /\ \A a \in Panels : a # p => rs[a] = ps[a]
  <1>1. r \in PanelObject
    BY DEF Honest
  <1> QED
    BY <1>1 DEF AllHonest

\* show()
LEMMA PanelShows ==
    ASSUME NEW ps, AllHonest(ps), NEW p \in Panels, NEW parent \in BOOLEAN, ps[p].made,
           NEW rs, rs = ShowPanel(ps, p, parent, TRUE)
    PROVE  AllHonest(rs)
  <1>0. TRUE \in BOOLEAN
    OBVIOUS
  <1>1. CASE ~parent
    <2>1. PICK r : r = StartShow(ps[p], TRUE)
      OBVIOUS
    <2>2. Honest(r)
      BY <1>0, <2>1, ShowStarts DEF AllHonest
    <2>3. rs = [ps EXCEPT ![p] = r]
      BY <1>1, <2>1 DEF ShowPanel, AllHonest
    <2>4. r \in PanelObject
      BY <2>2 DEF Honest
    <2> QED
      BY <2>2, <2>3, <2>4 DEF AllHonest
  <1>2. CASE parent /\ Blocked(ps)
    BY <1>2 DEF ShowPanel
  <1>3. CASE parent /\ ~Blocked(ps)
    <2>1. PICK hs : hs = HideActives(ps)
      OBVIOUS
    <2>2. AllHonest(hs)
      BY <2>1, ActivesHide
    <2>3. PICK own \in BOOLEAN : own = (TRUE /\ hs[p].made)
      BY <2>2 DEF AllHonest, Honest, PanelObject
    <2>4. PICK r : r = StartShow(hs[p], own)
      OBVIOUS
    <2>5. Honest(r)
      BY <2>2, <2>3, <2>4, ShowStarts DEF AllHonest
    <2>6. rs = [hs EXCEPT ![p] = r]
      <3>1. rs = [hs EXCEPT ![p] = StartShow(@, TRUE /\ @.made)]
        BY <1>3, <2>1 DEF ShowPanel
      <3>2. DOMAIN hs = Panels
        BY <2>2 DEF AllHonest
      <3>3. rs = [hs EXCEPT ![p] = StartShow(hs[p], TRUE /\ hs[p].made)]
        BY <3>1, <3>2
      <3> QED
        BY <2>3, <2>4, <3>3
    <2>7. r \in PanelObject
      BY <2>5 DEF Honest
    <2> QED
      BY <2>2, <2>5, <2>6, <2>7 DEF AllHonest
  <1> QED
    BY <1>1, <1>2, <1>3

\* A click, on the trigger of a panel with or without an object.
LEMMA ClickIsHonest ==
    ASSUME NEW ps, AllHonest(ps), NEW p \in Panels,
           NEW rs, rs = IF ps[p].made THEN Toggle(ps, p) ELSE New(ps, p)
    PROVE  AllHonest(rs)
  <1>0. Honest(ps[p]) /\ TRUE \in BOOLEAN
    BY DEF AllHonest
  <1>1. CASE ps[p].made
    <2>1. CASE ps[p].class = "in"
      <3>1. PICK r : r = HidePanel(ps[p])
        OBVIOUS
      <3>2. rs = [ps EXCEPT ![p] = r]
        BY <1>1, <2>1, <3>1 DEF Toggle
      <3>3. Honest(r)
        BY <1>0, <1>1, <3>1, Hides
      <3> QED
        BY <3>2, <3>3, OneChanges
    <2>2. CASE ps[p].class # "in" /\ ps[p].busy
      BY <1>1, <2>2 DEF Toggle
    <2>3. CASE ps[p].class # "in" /\ ~ps[p].busy
      <3>1. PICK parent \in BOOLEAN : parent = ps[p].parent
        BY <1>0 DEF Honest, PanelObject
      <3>2. rs = ShowPanel(ps, p, parent, TRUE)
        BY <1>1, <2>3, <3>1 DEF Toggle
      <3> QED
        BY <1>1, <3>2, PanelShows
    <2> QED
      BY <2>1, <2>2, <2>3
  <1>2. CASE ~ps[p].made
    <2>1. PICK marked : marked = [a \in Panels |-> Marked(ps[a])]
      OBVIOUS
    <2>2. AllHonest(marked)
      <3>1. ASSUME NEW a \in Panels PROVE Honest(marked[a])
        BY <2>1, Marks DEF AllHonest
      <3>2. DOMAIN marked = Panels /\ marked = [a \in Panels |-> marked[a]]
        BY <2>1
      <3> QED
        BY <3>1, <3>2, HonestFunction
    <2>3. ASSUME NEW q, Honest(q), NEW k,
                 k = [Forgotten(q) EXCEPT !.made = TRUE, !.parent = TRUE]
          PROVE  Honest(k) /\ k.made
      <3>1. PICK f : f = Forgotten(q)
        OBVIOUS
      <3>2. Honest(f) /\ ~f.busy
        BY <2>3, <3>1, Forgets
      <3>3. f \in PanelObject /\ f.busy = FALSE
        BY <3>2 DEF Honest, PanelObject
      <3>4. k = [f EXCEPT !.made = TRUE, !.parent = TRUE, !.busy = FALSE]
        BY <2>3, <3>1, <3>3 DEF PanelObject
      <3> QED
        BY <1>0, <3>2, <3>4, Makes
    <2>4. CASE ps[p].class = "in"
      <3>1. PICK k : k = [Forgotten(marked[p]) EXCEPT !.made = TRUE, !.parent = TRUE]
        OBVIOUS
      <3>2. PICK r : r = StartHide(k)
        OBVIOUS
      <3>3. Honest(k) /\ k.made
        BY <2>2, <2>3, <3>1 DEF AllHonest
      <3>4. Honest(r)
        BY <3>2, <3>3, HideStarts
      <3>5. rs = [marked EXCEPT ![p] = r]
        BY <1>2, <2>1, <2>4, <3>1, <3>2 DEF New
      <3> QED
        BY <2>2, <3>4, <3>5, OneChanges
    <2>5. CASE ps[p].class # "in" /\ Blocked(marked)
      <3>1. PICK k : k = [Forgotten(marked[p]) EXCEPT !.made = TRUE, !.parent = TRUE]
        OBVIOUS
      <3>2. Honest(k)
        BY <2>2, <2>3, <3>1 DEF AllHonest
      <3>3. rs = [marked EXCEPT ![p] = k]
        BY <1>2, <2>1, <2>5, <3>1 DEF New
      <3> QED
        BY <2>2, <3>2, <3>3, OneChanges
    <2>6. CASE ps[p].class # "in" /\ ~Blocked(marked)
      <3>1. PICK hs : hs = HideActives(marked)
        OBVIOUS
      <3>2. AllHonest(hs)
        BY <2>2, <3>1, ActivesHide
      <3>3. PICK k : k = [Forgotten(hs[p]) EXCEPT !.made = TRUE, !.parent = TRUE]
        OBVIOUS
      <3>4. Honest(k) /\ k.made
        BY <2>3, <3>2, <3>3 DEF AllHonest
      <3>5. PICK r : r = StartShow(k, TRUE)
        OBVIOUS
      <3>6. Honest(r)
        BY <1>0, <3>4, <3>5, ShowStarts
      <3>7. rs = [hs EXCEPT ![p] = r]
        BY <1>2, <2>1, <2>6, <3>1, <3>2, <3>3, <3>5 DEF New, AllHonest
      <3> QED
        BY <3>2, <3>6, <3>7, OneChanges
    <2> QED
      BY <2>4, <2>5, <2>6
  <1> QED
    BY <1>1, <1>2

\* With objects of all panels: Shut, Opened, Opening and Hiding of Collapse, of a record.
IsShut(q) == q.class = "collapse" /\ ~q.expanded /\ q.ends = <<>>
IsOpened(q) == q.class = "in" /\ q.expanded /\ q.ends = <<>>
IsOpening(q) ==
    q.class = "collapsing" /\ q.expanded /\ q.ends = <<[kind |-> "show", own |-> TRUE]>>
IsHiding(q) ==
    q.class = "collapsing" /\ ~q.expanded /\ q.ends = <<[kind |-> "hide", own |-> TRUE]>>

IsUp(q) == IsOpened(q) \/ IsOpening(q)

Known(q) ==
    /\ Honest(q) /\ q.made /\ q.parent
    /\ IsShut(q) \/ IsOpened(q) \/ IsOpening(q) \/ IsHiding(q)

Orderly(ps) ==
    /\ DOMAIN ps = Panels /\ \A a \in Panels : Known(ps[a])
    /\ \A a, b \in Panels : IsUp(ps[a]) /\ IsUp(ps[b]) => a = b

\* The flag of a panel with its object tells whether it has a transition.
LEMMA BusyMoves ==
    ASSUME NEW q, Known(q)
    PROVE  q.busy <=> IsOpening(q) \/ IsHiding(q)
  <1>1. q.busy <=> OwnEnd(q)
    BY DEF Known, Honest
  <1>2. CASE IsShut(q) \/ IsOpened(q)
    <2>1. q.ends = <<>> /\ q.class # "collapsing"
      BY <1>2 DEF IsShut, IsOpened
    <2>2. ~OwnEnd(q)
      BY <2>1 DEF OwnEnd
    <2> QED
      BY <1>1, <2>1, <2>2 DEF IsOpening, IsHiding
  <1>3. CASE IsOpening(q) \/ IsHiding(q)
    <2>1. PICK k \in {"show", "hide"} : q.ends = <<[kind |-> k, own |-> TRUE]>>
      BY <1>3 DEF IsOpening, IsHiding
    <2>2. 1 \in DOMAIN q.ends /\ q.ends[1].own
      BY <2>1
    <2>3. OwnEnd(q)
      BY <2>2 DEF OwnEnd
    <2> QED
      BY <1>1, <1>3, <2>3
  <1> QED
    BY <1>2, <1>3 DEF Known

\* hide() has an effect on a panel that is open, and on no other.
LEMMA OnlyOpenedHides ==
    ASSUME NEW q, Known(q), NEW r, r = HidePanel(q)
    PROVE  Known(r) /\ (IsOpened(q) => IsHiding(r)) /\ (~IsOpened(q) => r = q)
  <1>1. CASE IsOpened(q)
    <2>1. q.class = "in" /\ q.ends = <<>>
      BY <1>1 DEF IsOpened
    <2>2. ~q.busy
      BY <2>1, BusyMoves DEF IsOpening, IsHiding
    <2>3. r = StartHide(q)
      BY <2>1, <2>2 DEF HidePanel
    <2>4. Honest(q) /\ q.made /\ q.parent
      BY DEF Known
    <2>5. /\ Honest(r) /\ r.class = "collapsing" /\ ~r.expanded
          /\ r.made = q.made /\ r.parent = q.parent
          /\ r.ends = Append(q.ends, [kind |-> "hide", own |-> TRUE])
      BY <2>3, <2>4, HideStarts
    <2>6. Append(<<>>, [kind |-> "hide", own |-> TRUE]) = <<[kind |-> "hide", own |-> TRUE]>>
      OBVIOUS
    <2>7. IsHiding(r)
      BY <2>1, <2>5, <2>6 DEF IsHiding
    <2> QED
      BY <1>1, <2>4, <2>5, <2>7 DEF Known
  <1>2. CASE ~IsOpened(q)
    <2>1. q.class # "in"
      BY <1>2 DEF Known, IsShut, IsOpening, IsHiding
    <2> QED
      BY <1>2, <2>1 DEF HidePanel
  <1> QED
    BY <1>1, <1>2

\* The first active panel is one of them.
LEMMA FirstIsActive ==
    ASSUME NEW ps, Actives(ps) # {}
    PROVE  First(Actives(ps)) \in Actives(ps)
  <1>1. Actives(ps) \in SUBSET Nat
    BY PanelsAssumption DEF Actives, Panels
  <1>2. \E a \in Actives(ps) : \A b \in Actives(ps) : a <= b
    BY <1>1, Least
  <1> QED
    BY <1>2 DEF First

\* What is active and not blocked is hidden or hides already.
LEMMA AllHide ==
    ASSUME NEW ps, Orderly(ps), ~Blocked(ps), NEW hs, hs = HideActives(ps)
    PROVE  DOMAIN hs = Panels /\ \A a \in Panels : Known(hs[a]) /\ ~IsUp(hs[a])
                                                /\ (IsShut(ps[a]) => hs[a] = ps[a])
  <1> SUFFICES ASSUME NEW a \in Panels
               PROVE  Known(hs[a]) /\ ~IsUp(hs[a]) /\ (IsShut(ps[a]) => hs[a] = ps[a])
    BY DEF HideActives
  <1>1. Known(ps[a])
    BY DEF Orderly
  <1>2. CASE a \notin Actives(ps)
    <2>1. hs[a] = ps[a]
      BY <1>2 DEF HideActives
    <2>2. ps[a].class \notin {"in", "collapsing"}
      BY <1>2 DEF Actives
    <2> QED
      BY <1>1, <2>1, <2>2 DEF IsUp, IsOpened, IsOpening
  <1>3. CASE a \in Actives(ps)
    <2>1. PICK f : f = First(Actives(ps))
      OBVIOUS
    <2>2. f \in Actives(ps) /\ f \in Panels
      BY <1>3, <2>1, FirstIsActive DEF Actives
    <2>3. Known(ps[f]) /\ ps[f].made
      BY <2>2 DEF Orderly, Known
    <2>4. ~ps[f].busy
      BY <2>1, <2>2, <2>3 DEF Blocked
    <2>5. IsOpened(ps[f])
      <3>1. ~IsOpening(ps[f]) /\ ~IsHiding(ps[f])
        BY <2>3, <2>4, BusyMoves
      <3>2. ~IsShut(ps[f])
        BY <2>2 DEF Actives, IsShut
      <3> QED
        BY <2>3, <3>1, <3>2 DEF Known
    <2>6. hs[a] = PluginHide(ps[a])
      BY <1>3, <2>1, <2>3 DEF HideActives
    <2>7. hs[a] = HidePanel(ps[a])
      BY <1>1, <2>6 DEF PluginHide, Known
    <2>8. Known(hs[a]) /\ (IsOpened(ps[a]) => IsHiding(hs[a])) /\ (~IsOpened(ps[a]) => hs[a] = ps[a])
      BY <1>1, <2>7, OnlyOpenedHides
    <2>9. ~IsShut(ps[a])
      BY <1>3 DEF Actives, IsShut
    <2>10. CASE IsOpened(ps[a])
      BY <2>8, <2>9, <2>10 DEF IsHiding, IsUp, IsOpened, IsOpening
    <2>11. CASE ~IsOpened(ps[a])
      <3>1. ~IsOpening(ps[a])
        <4>1. ASSUME IsOpening(ps[a]) PROVE a = f
          BY <2>2, <2>5, <4>1 DEF Orderly, IsUp
        <4>2. ASSUME IsOpening(ps[a]) PROVE FALSE
          BY <2>5, <2>11, <4>1, <4>2
        <4> QED
          BY <4>2
      <3> QED
        BY <2>8, <2>9, <2>11, <3>1 DEF IsUp
    <2> QED
      BY <2>10, <2>11
  <1> QED
    BY <1>2, <1>3

\* A click on the trigger of an accordion whose objects exist.
LEMMA ClickIsOrderly ==
    ASSUME NEW ps, Orderly(ps), NEW p \in Panels, NEW rs, rs = Toggle(ps, p)
    PROVE  Orderly(rs)
  <1>1. Known(ps[p]) /\ ps[p].parent = TRUE /\ ps[p].made = TRUE
    BY DEF Orderly, Known, Honest, PanelObject
  <1>2. CASE ps[p].class = "in"
    <2>1. PICK r : r = HidePanel(ps[p])
      OBVIOUS
    <2>2. rs = [ps EXCEPT ![p] = r]
      BY <1>2, <2>1 DEF Toggle
    <2>3. IsOpened(ps[p])
      BY <1>1, <1>2 DEF Known, IsShut, IsOpening, IsHiding
    <2>4. Known(r) /\ IsHiding(r)
      BY <1>1, <2>1, <2>3, OnlyOpenedHides
    <2>5. ~IsUp(r)
      BY <2>4 DEF IsHiding, IsUp, IsOpened, IsOpening
    <2> QED
      BY <2>2, <2>4, <2>5 DEF Orderly
  <1>3. CASE ps[p].class # "in" /\ (ps[p].busy \/ Blocked(ps))
    <2>1. rs = ps
      BY <1>1, <1>3 DEF Toggle, ShowPanel
    <2> QED
      BY <2>1
  <1>4. CASE ps[p].class # "in" /\ ~ps[p].busy /\ ~Blocked(ps)
    <2>1. IsShut(ps[p])
      BY <1>1, <1>4, BusyMoves DEF Known, IsOpened
    <2>2. PICK hs : hs = HideActives(ps)
      OBVIOUS
    <2>3. /\ DOMAIN hs = Panels /\ \A a \in Panels : Known(hs[a]) /\ ~IsUp(hs[a])
          /\ hs[p] = ps[p]
      BY <1>4, <2>1, <2>2, AllHide
    <2>4. PICK r : r = StartShow(ps[p], TRUE)
      OBVIOUS
    <2>5. rs = [hs EXCEPT ![p] = r]
      <3>1. rs = ShowPanel(ps, p, TRUE, TRUE)
        BY <1>1, <1>4 DEF Toggle
      <3>2. rs = [hs EXCEPT ![p] = StartShow(@, TRUE /\ @.made)]
        BY <1>4, <2>2, <3>1 DEF ShowPanel
      <3>3. (TRUE /\ ps[p].made) = TRUE
        BY <1>1
      <3> QED
        BY <2>3, <2>4, <3>2, <3>3
    <2>6. TRUE \in BOOLEAN /\ Honest(ps[p]) /\ ps[p].ends = <<>>
      BY <1>1, <2>1 DEF Known, IsShut
    <2>7. /\ Honest(r) /\ r.class = "collapsing" /\ r.expanded
          /\ r.made = ps[p].made /\ r.parent = ps[p].parent
          /\ r.ends = Append(ps[p].ends, [kind |-> "show", own |-> TRUE])
      BY <1>1, <2>4, <2>6, ShowStarts, ZenonT(60)
    <2>8. Append(<<>>, [kind |-> "show", own |-> TRUE]) = <<[kind |-> "show", own |-> TRUE]>>
      OBVIOUS
    <2>9. IsOpening(r)
      BY <2>6, <2>7, <2>8 DEF IsOpening
    <2>10. Known(r)
      BY <1>1, <2>7, <2>9 DEF Known
    <2> QED
      BY <2>3, <2>5, <2>10 DEF Orderly
  <1> QED
    BY <1>2, <1>3, <1>4

\* PanelIInv in terms of the records.
PanelsHold == AllHonest(panel) /\ created \in BOOLEAN /\ clicks \in 0 .. MaxClicks
              /\ (created => Orderly(panel))

\* The invariant says as much.
LEMMA PanelsHoldThen == PanelsHold => AccordionInv
  <1> SUFFICES ASSUME PanelsHold PROVE AccordionInv
    OBVIOUS
  <1>1. \A p \in Panels : Honest(panel[p])
    BY DEF PanelsHold, AllHonest
  <1>2. PanelTypeOK
    <2>1. panel \in [Panels -> PanelObject]
      BY DEF PanelsHold, AllHonest
    <2> QED
      BY <2>1 DEF PanelsHold, PanelTypeOK, PanelObject, Callbacks
  <1>3. NotStuck /\ \A p \in Panels : ~panel[p].made => ~panel[p].busy
    BY <1>1 DEF NotStuck, Honest, OwnEnd
  <1>4. ASSUME created PROVE Ordered /\ OneOpen /\ TriggerAgrees
    <2>1. Orderly(panel)
      BY <1>4 DEF PanelsHold
    <2>2. Ordered
      BY <2>1 DEF Ordered, Orderly, Known, IsUp, Shut, Opened, Opening, Hiding,
                  IsShut, IsOpened, IsOpening, IsHiding
    <2>3. ASSUME NEW p \in Panels, panel[p].ends = <<>>
          PROVE  IsShut(panel[p]) \/ IsOpened(panel[p])
      <3>1. \A x : <<x>> # <<>>
        OBVIOUS
      <3> QED
        BY <2>1, <2>3, <3>1 DEF Orderly, Known, IsOpening, IsHiding
    <2>4. TriggerAgrees
      BY <2>3 DEF TriggerAgrees, Resting, IsShut, IsOpened
    <2>5. OneOpen
      <3> SUFFICES ASSUME \A p \in Panels : Resting(p)
                   PROVE  Cardinality({p \in Panels : panel[p].class = "in"}) <= 1
        BY DEF OneOpen
      <3>1. PICK S : S = {p \in Panels : panel[p].class = "in"}
        OBVIOUS
      <3>2. \A p \in S : p \in Panels /\ IsUp(panel[p])
        BY <2>3, <3>1 DEF Resting, IsShut, IsUp
      <3>3. \A p, q \in S : p = q
        BY <2>1, <3>2 DEF Orderly
      <3>4. S = {} \/ \E p \in S : S = {p}
        BY <3>3
      <3>5. Cardinality(S) = 0 \/ Cardinality(S) = 1
        BY <3>4, FS_EmptySet, FS_Singleton
      <3> QED
        BY <3>1, <3>5
    <2> QED
      BY <2>2, <2>4, <2>5
  <1> QED
    BY <1>2, <1>3, <1>4 DEF AccordionInv, PanelIInv

\* Of the panels the HTML shows one at most is open.
LEMMA OneOpenAtFirst == \A p, q \in Open : p = q
  <1> SUFFICES ASSUME NEW p \in Open, NEW q \in Open, p # q PROVE FALSE
    OBVIOUS
  <1>1. IsFiniteSet(Open)
    <2>1. IsFiniteSet(1 .. NPanels)
      BY PanelsAssumption, FS_Interval
    <2> QED
      BY <2>1, OpenAssumption, FS_Subset
  <1>2. Cardinality({p}) = 1 /\ IsFiniteSet({p})
    BY FS_Singleton
  <1>3. Cardinality({p} \cup {q}) = 2
    BY <1>2, FS_AddElement
  <1>4. {p} \cup {q} \subseteq Open
    OBVIOUS
  <1>5. Cardinality({p} \cup {q}) <= Cardinality(Open) /\ Cardinality(Open) \in Nat
    BY <1>1, <1>4, FS_Subset, FS_CardinalityType
  <1> QED
    BY <1>3, <1>5, OpenAssumption

\* PanelsHold is inductive, whether the objects exist from the beginning or not.
THEOREM PanelInvariance == PanelSpec => []PanelsHold
  <1>1. PanelInit => PanelsHold
    <2> SUFFICES ASSUME PanelInit PROVE PanelsHold
      OBVIOUS
    <2>1. DOMAIN panel = Panels /\ created \in BOOLEAN /\ clicks \in 0 .. MaxClicks
      BY ClicksAssumption DEF PanelInit
    <2>2. ASSUME NEW p \in Panels
          PROVE  /\ Honest(panel[p]) /\ (created => Known(panel[p]))
                 /\ IsUp(panel[p]) => p \in Open
      <3>0. PICK class : class = IF p \in Open THEN "in" ELSE "collapse"
        OBVIOUS
      <3>1. /\ p \in Open => class = "in"
            /\ p \notin Open => class = "collapse"
            /\ class \in {"collapse", "collapsing", "in"}
        BY <3>0
      <3>2. PICK open \in BOOLEAN : open = (p \in Open)
        BY (p \in Open) \in BOOLEAN
      <3>3. PICK no \in BOOLEAN : no = FALSE
        OBVIOUS
      <3>4. panel[p] = [class |-> class, expanded |-> open, made |-> created, parent |-> created,
                        busy |-> no, ends |-> <<>>]
        BY <3>0, <3>2, <3>3 DEF PanelInit
      <3>5. <<>> \in Seq(Callbacks)
        OBVIOUS
      <3>6. panel[p] \in PanelObject
        BY <2>1, <3>1, <3>2, <3>3, <3>4, <3>5 DEF PanelObject
      <3>7. /\ panel[p].class = class /\ panel[p].expanded = open /\ panel[p].made = created
            /\ panel[p].parent = created /\ panel[p].busy = no /\ panel[p].ends = <<>>
        BY <3>4
      <3>8. ~OwnEnd(panel[p])
        BY <3>7 DEF OwnEnd
      <3>9. Honest(panel[p])
        BY <3>1, <3>3, <3>6, <3>7, <3>8 DEF Honest
      <3>10. IsShut(panel[p]) \/ IsOpened(panel[p])
        BY <3>1, <3>2, <3>7 DEF IsShut, IsOpened
      <3>11. IsUp(panel[p]) => p \in Open
        BY <3>1, <3>7 DEF IsUp, IsOpened, IsOpening
      <3> QED
        BY <3>7, <3>9, <3>10, <3>11 DEF Known
    <2> QED
      <3>1. panel = [p \in Panels |-> panel[p]]
        BY DEF PanelInit
      <3>2. AllHonest(panel)
        BY <2>1, <2>2, <3>1, HonestFunction
      <3>3. created => Orderly(panel)
        BY <2>1, <2>2, OneOpenAtFirst DEF Orderly
      <3> QED
        BY <2>1, <3>2, <3>3 DEF PanelsHold
  <1>2. PanelsHold /\ [PanelNext]_panelVars => PanelsHold'
    <2> SUFFICES ASSUME PanelsHold, [PanelNext]_panelVars PROVE PanelsHold'
      OBVIOUS
    <2>1. AllHonest(panel) /\ created \in BOOLEAN /\ clicks \in 0 .. MaxClicks
          /\ (created => Orderly(panel))
      BY DEF PanelsHold
    <2>2. ASSUME NEW p \in Panels, Click(p) PROVE PanelsHold'
      <3>1. AllHonest(panel')
        BY <2>1, <2>2, ClickIsHonest DEF Click
      <3>2. created' = created /\ clicks' \in 0 .. MaxClicks
        BY <2>1, <2>2, ClicksAssumption DEF Click
      <3>3. ASSUME created PROVE Orderly(panel')
        <4>1. Orderly(panel) /\ panel[p].made
          BY <2>1, <3>3 DEF Orderly, Known
        <4>2. panel' = Toggle(panel, p)
          BY <2>2, <4>1 DEF Click
        <4> QED
          BY <4>1, <4>2, ClickIsOrderly
      <3> QED
        BY <2>1, <3>1, <3>2, <3>3 DEF PanelsHold, AllHonest, Orderly
    <2>3. ASSUME NEW p \in Panels, PanelEnd(p) PROVE PanelsHold'
      <3>1. PICK q : q = panel[p]
        OBVIOUS
      <3>2. PICK kinds : kinds = {q.ends[i].kind : i \in DOMAIN q.ends}
        OBVIOUS
      <3>3. Honest(q) /\ q \in PanelObject
        BY <2>1, <3>1 DEF AllHonest, Honest
      <3>4. PICK class \in {"collapse", "collapsing", "in"} :
                class = IF "show" \in kinds THEN "in" ELSE "collapse"
        OBVIOUS
      <3>5. PICK busy : busy = (q.busy /\ ~\E i \in DOMAIN q.ends : q.ends[i].own)
        OBVIOUS
      <3>6. busy = FALSE
        BY <3>3, <3>5 DEF Honest, OwnEnd
      <3>7. PICK r : r = [q EXCEPT !.class = class, !.busy = FALSE, !.ends = <<>>]
        OBVIOUS
      <3>8. panel' = [panel EXCEPT ![p] = r] /\ created' = created /\ clicks' = clicks
            /\ q.ends # <<>>
        <4>1. panel' = [panel EXCEPT
                 ![p].class = IF "show" \in kinds THEN "in" ELSE "collapse",
                 ![p].busy = @ /\ ~\E i \in DOMAIN q.ends : q.ends[i].own,
                 ![p].ends = <<>>]
          BY <2>3, <3>1, <3>2 DEF PanelEnd
        <4>2. p \in DOMAIN panel
          BY <2>1 DEF AllHonest
        <4>3. panel' = [panel EXCEPT ![p] = [q EXCEPT !.class = class, !.busy = busy, !.ends = <<>>]]
          BY <3>1, <3>3, <3>4, <3>5, <4>1, <4>2 DEF PanelObject
        <4> QED
          BY <2>3, <3>1, <3>6, <3>7, <4>3 DEF PanelEnd
      <3>9. <<>> \in Seq(Callbacks) /\ FALSE \in BOOLEAN
        OBVIOUS
      <3>10. r \in PanelObject
        BY <3>3, <3>4, <3>7, <3>9 DEF PanelObject
      <3>11. /\ r.class = class /\ r.busy = FALSE /\ r.ends = <<>>
             /\ r.expanded = q.expanded /\ r.made = q.made /\ r.parent = q.parent
        BY <3>3, <3>7 DEF PanelObject
      <3>12. ~OwnEnd(r)
        BY <3>11 DEF OwnEnd
      <3>13. Honest(r)
        BY <3>4, <3>10, <3>11, <3>12 DEF Honest
      <3>14. AllHonest(panel')
        BY <2>1, <3>8, <3>13, OneChanges
      <3>15. ASSUME created PROVE Orderly(panel')
        <4>1. Orderly(panel)
          BY <2>1, <3>15
        <4>2. Known(q)
          BY <3>1, <4>1 DEF Orderly
        <4>3. CASE IsOpening(q)
          <5>1. "show" \in kinds
            <6>1. 1 \in DOMAIN q.ends /\ q.ends[1].kind = "show"
              BY <4>3 DEF IsOpening
            <6> QED
              BY <3>2, <6>1
          <5>2. IsOpened(r)
            BY <3>4, <3>11, <4>3, <5>1 DEF IsOpening, IsOpened
          <5>3. Known(r) /\ IsUp(q)
            BY <3>11, <3>13, <4>2, <4>3, <5>2 DEF Known, IsUp
          <5> QED
            BY <3>1, <3>8, <4>1, <5>3 DEF Orderly
        <4>4. CASE IsHiding(q)
          <5>1. "show" \notin kinds
            <6>1. \A i \in DOMAIN q.ends : i = 1
              BY <4>4 DEF IsHiding
            <6>2. q.ends[1].kind = "hide"
              BY <4>4 DEF IsHiding
            <6> QED
              BY <3>2, <6>1, <6>2
          <5>2. IsShut(r)
            BY <3>4, <3>11, <4>4, <5>1 DEF IsHiding, IsShut
          <5>3. Known(r) /\ ~IsUp(r)
            BY <3>11, <3>13, <4>2, <5>2 DEF Known, IsUp, IsShut, IsOpened, IsOpening
          <5> QED
            BY <3>8, <4>1, <5>3 DEF Orderly
        <4> QED
          BY <3>8, <4>2, <4>3, <4>4 DEF Known, IsShut, IsOpened
      <3> QED
        BY <2>1, <3>8, <3>14, <3>15 DEF PanelsHold, AllHonest, Orderly
    <2>4. CASE UNCHANGED panelVars
      BY <2>1, <2>4 DEF panelVars, PanelsHold, AllHonest, Orderly
    <2> QED
      BY <2>2, <2>3, <2>4 DEF PanelNext
  <1> QED
    BY <1>1, <1>2, PTL DEF PanelSpec

\* AccordionInv for every number of panels and clicks.
THEOREM AccordionAgrees == PanelSpec => []AccordionInv
  BY PanelInvariance, PanelsHoldThen, PTL

-----------------------------------------------------------------------------
(* The tooltip.                                                              *)

TipObject ==
    [hoverState : {"null", "in", "out"}, timer : {"none", "show", "hide"}, visible : BOOLEAN,
     in : BOOLEAN, fade : BOOLEAN, described : BOOLEAN,
     ends : Seq({"shown", "hidden", "destroyed"}), alive : BOOLEAN]

HasEnd(s, S) == \E i \in DOMAIN s.ends : s.ends[i] \in S

\* What TipIInv says of a tooltip whatever was asked for.
Basics(s) ==
    /\ s \in TipObject
    /\ s.visible => s.fade = Fades
    /\ ~Fades => ~s.fade /\ s.ends = <<>>
    /\ s.described => s.visible
    /\ s.timer = "show" => ~s.visible
    /\ ~s.visible => ~HasEnd(s, {"shown"})
    /\ s.visible /\ s.in =>
          \A i, j \in DOMAIN s.ends : s.ends[i] = "shown" /\ i < j => s.ends[j] = "shown"

\* Leaves and Stays of Tooltip, of a record.
Left(s) ==
    /\ s.hoverState # "in"
    /\ Fades /\ s.alive /\ s.visible =>
          (s.timer = "hide" /\ s.hoverState = "out") \/ HasEnd(s, Removes)

Stayed(s, quiet) ==
    /\ s.hoverState # "out"
    /\ quiet /\ ~s.visible => s.timer = "show" /\ s.hoverState = "in"
    /\ quiet /\ s.visible => s.in /\ (s.hoverState = "in" \/ ~HasEnd(s, Removes))

\* A note of what was asked for, and a timer, leave the tooltip as it is.
Note(s, h, timer) == [s EXCEPT !.hoverState = h, !.timer = timer]

LEMMA Noted ==
    ASSUME NEW s, Basics(s), NEW h \in {"null", "in", "out"}, NEW timer \in {"none", "show", "hide"},
           timer = "show" => ~s.visible,
           NEW r, r = Note(s, h, timer)
    PROVE  /\ Basics(r) /\ r.hoverState = h /\ r.timer = timer
           /\ r.visible = s.visible /\ r.in = s.in /\ r.fade = s.fade
           /\ r.described = s.described /\ r.ends = s.ends /\ r.alive = s.alive
  <1>1. s \in TipObject
    BY DEF Basics
  <1>2. r \in TipObject
    BY <1>1 DEF TipObject, Note
  <1>3. /\ r.hoverState = h /\ r.timer = timer
        /\ r.visible = s.visible /\ r.in = s.in /\ r.fade = s.fade
        /\ r.described = s.described /\ r.ends = s.ends /\ r.alive = s.alive
    BY <1>1 DEF TipObject, Note
  <1> QED
    BY <1>2, <1>3 DEF Basics, HasEnd

\* A timer that has run out.
LEMMA Untimed ==
    ASSUME NEW s, Basics(s), NEW r, r = [s EXCEPT !.timer = "none"]
    PROVE  /\ Basics(r) /\ r.hoverState = s.hoverState /\ r.timer = "none"
           /\ r.visible = s.visible /\ r.in = s.in /\ r.fade = s.fade
           /\ r.described = s.described /\ r.ends = s.ends /\ r.alive = s.alive
  <1>1. s \in TipObject
    BY DEF Basics
  <1>2. r \in TipObject
    BY <1>1 DEF TipObject
  <1>3. /\ r.hoverState = s.hoverState /\ r.timer = "none"
        /\ r.visible = s.visible /\ r.in = s.in /\ r.fade = s.fade
        /\ r.described = s.described /\ r.ends = s.ends /\ r.alive = s.alive
    BY <1>1 DEF TipObject
  <1> QED
    BY <1>2, <1>3 DEF Basics, HasEnd

\* One callback more.
LEMMA EndAdded ==
    ASSUME NEW ends \in Seq({"shown", "hidden", "destroyed"}),
           NEW name \in {"shown", "hidden", "destroyed"}, NEW more, more = Append(ends, name)
    PROVE  /\ more \in Seq({"shown", "hidden", "destroyed"})
           /\ Len(ends) \in Nat /\ DOMAIN ends = 1 .. Len(ends) /\ DOMAIN more = 1 .. Len(ends) + 1
           /\ more[Len(ends) + 1] = name
           /\ \A i \in DOMAIN ends : i \in DOMAIN more /\ more[i] = ends[i]
           /\ \A i \in DOMAIN more : i \in DOMAIN ends \/ i = Len(ends) + 1
  <1>1. Len(ends) \in Nat /\ DOMAIN ends = 1 .. Len(ends)
    OBVIOUS
  <1>2. /\ more \in Seq({"shown", "hidden", "destroyed"})
        /\ Len(more) = Len(ends) + 1 /\ more[Len(ends) + 1] = name
        /\ \A i \in 1 .. Len(ends) : more[i] = ends[i]
    BY AppendProperties
  <1>3. DOMAIN more = 1 .. Len(ends) + 1
    BY <1>2
  <1> QED
    BY <1>1, <1>2, <1>3

\* complete of hide() and of destroy().
LEMMA Gone ==
    ASSUME NEW s \in TipObject, NEW name, NEW r, r = Hidden(s, name)
    PROVE  /\ r \in TipObject
           /\ r.visible <=> s.visible /\ s.hoverState = "in"
           /\ ~r.described
           /\ r.alive => s.alive
           /\ r.hoverState = s.hoverState /\ r.timer = s.timer /\ r.in = s.in
           /\ r.fade = s.fade /\ r.ends = s.ends
  <1>1. PICK visible : visible = (s.visible /\ s.hoverState = "in")
    OBVIOUS
  <1>2. PICK alive : alive = (s.alive /\ name # "destroyed")
    OBVIOUS
  <1>3. s.visible \in BOOLEAN /\ s.alive \in BOOLEAN /\ FALSE \in BOOLEAN
    BY DEF TipObject
  <1>4. visible \in BOOLEAN /\ alive \in BOOLEAN
    BY <1>1, <1>2, <1>3
  <1>5. r = [s EXCEPT !.visible = visible, !.described = FALSE, !.alive = alive]
    BY <1>1, <1>2 DEF Hidden, TipObject
  <1>6. r \in TipObject
    BY <1>3, <1>4, <1>5 DEF TipObject
  <1>7. /\ r.visible = visible /\ r.described = FALSE /\ r.alive = alive
        /\ r.hoverState = s.hoverState /\ r.timer = s.timer /\ r.in = s.in
        /\ r.fade = s.fade /\ r.ends = s.ends
    BY <1>5 DEF TipObject
  <1>8. r.alive => s.alive
    BY <1>2, <1>7
  <1> QED
    BY <1>1, <1>6, <1>7, <1>8

\* hide(): with a transition the callback waits, without one it is called.
LEMMA HideDoes ==
    ASSUME NEW s \in TipObject, NEW name \in {"hidden", "destroyed"}, NEW r, r = Hide(s, name)
    PROVE  /\ r \in TipObject /\ r.hoverState = "null" /\ r.timer = s.timer
           /\ ~r.in /\ r.fade = s.fade
           /\ Fades /\ s.fade => /\ r.visible = s.visible /\ r.described = s.described
                                 /\ r.alive = s.alive /\ r.ends = Append(s.ends, name)
           /\ ~(Fades /\ s.fade) => /\ r.visible <=> s.visible /\ s.hoverState = "in"
                                    /\ ~r.described
                                    /\ r.alive => s.alive
                                    /\ r.ends = s.ends
  <1>0. FALSE \in BOOLEAN
    OBVIOUS
  <1>1. PICK gone : gone = [s EXCEPT !.in = FALSE]
    OBVIOUS
  <1>2. /\ gone \in TipObject /\ gone.in = FALSE /\ gone.visible = s.visible
        /\ gone.hoverState = s.hoverState /\ gone.timer = s.timer /\ gone.fade = s.fade
        /\ gone.described = s.described /\ gone.ends = s.ends /\ gone.alive = s.alive
    BY <1>0, <1>1 DEF TipObject
  <1>3. CASE Fades /\ s.fade
    <2>1. PICK more : more = Append(s.ends, name)
      OBVIOUS
    <2>2. s.ends \in Seq({"shown", "hidden", "destroyed"})
      BY DEF TipObject
    <2>3. more \in Seq({"shown", "hidden", "destroyed"})
      BY <2>1, <2>2, EndAdded
    <2>4. r = [gone EXCEPT !.ends = more, !.hoverState = "null"]
      BY <1>1, <1>2, <1>3, <2>1 DEF Hide, TipObject
    <2>5. r \in TipObject
      BY <1>2, <2>3, <2>4 DEF TipObject
    <2>6. /\ r.ends = more /\ r.hoverState = "null" /\ r.visible = gone.visible
          /\ r.in = gone.in /\ r.timer = gone.timer /\ r.fade = gone.fade
          /\ r.described = gone.described /\ r.alive = gone.alive
      BY <1>2, <2>4 DEF TipObject
    <2> QED
      BY <1>2, <1>3, <2>1, <2>5, <2>6
  <1>4. CASE ~(Fades /\ s.fade)
    <2>1. PICK h : h = Hidden(gone, name)
      OBVIOUS
    <2>2. /\ h \in TipObject
          /\ h.visible = (gone.visible /\ gone.hoverState = "in") /\ h.described = FALSE
          /\ h.alive => gone.alive
          /\ h.timer = gone.timer /\ h.in = gone.in
          /\ h.fade = gone.fade /\ h.ends = gone.ends
      <3>0. gone \in TipObject
        BY <1>2
      <3>1. h \in TipObject
        BY <2>1, <3>0, Gone
      <3>5. h.described = FALSE
        BY <2>1, <3>0 DEF Hidden, TipObject
      <3>2. h.visible = (gone.visible /\ gone.hoverState = "in")
        BY <1>2, <2>1 DEF Hidden, TipObject
      <3>3. h.alive => gone.alive
        <4>1. h.alive = (gone.alive /\ name # "destroyed")
          BY <1>2, <2>1 DEF Hidden, TipObject
        <4> QED
          BY <4>1
      <3>4. h.timer = gone.timer /\ h.in = gone.in /\ h.fade = gone.fade /\ h.ends = gone.ends
        BY <1>2, <2>1 DEF Hidden, TipObject
      <3> QED
        BY <3>1, <3>2, <3>3, <3>4, <3>5
    <2>3. r = [h EXCEPT !.hoverState = "null"]
      BY <1>1, <1>4, <2>1 DEF Hide
    <2>4. r \in TipObject
      BY <2>2, <2>3 DEF TipObject
    <2>5. /\ r.ends = h.ends /\ r.hoverState = "null" /\ r.visible = h.visible
          /\ r.in = h.in /\ r.timer = h.timer /\ r.fade = h.fade
          /\ r.described = h.described /\ r.alive = h.alive
      BY <2>2, <2>3 DEF TipObject
    <2> QED
      BY <1>2, <1>4, <2>2, <2>4, <2>5
  <1> QED
    BY <1>3, <1>4

\* After hide() the tooltip is on its way out, or gone.
LEMMA HideLeaves ==
    ASSUME NEW s, Basics(s), NEW name \in {"hidden", "destroyed"}, NEW r, r = Hide(s, name)
    PROVE  Basics(r) /\ Left(r) /\ r.timer = s.timer /\ (r.visible => s.visible)
  <1>1. s \in TipObject /\ s.ends \in Seq({"shown", "hidden", "destroyed"})
    BY DEF Basics, TipObject
  <1>2. /\ r \in TipObject /\ r.hoverState = "null" /\ r.timer = s.timer
        /\ ~r.in /\ r.fade = s.fade
        /\ Fades /\ s.fade => /\ r.visible = s.visible /\ r.described = s.described
                              /\ r.alive = s.alive /\ r.ends = Append(s.ends, name)
        /\ ~(Fades /\ s.fade) => /\ r.visible <=> s.visible /\ s.hoverState = "in"
                                 /\ ~r.described
                                 /\ r.alive => s.alive
                                 /\ r.ends = s.ends
    BY <1>1, HideDoes
  <1>3. CASE Fades /\ s.fade
    <2>1. PICK more : more = Append(s.ends, name)
      OBVIOUS
    <2>2. r.ends = more /\ r.visible = s.visible /\ r.described = s.described
      BY <1>2, <1>3, <2>1
    <2>3. name \in {"shown", "hidden", "destroyed"}
      OBVIOUS
    <2>4. /\ DOMAIN more = 1 .. Len(s.ends) + 1 /\ Len(s.ends) \in Nat
          /\ more[Len(s.ends) + 1] = name
          /\ \A i \in DOMAIN s.ends : more[i] = s.ends[i]
          /\ \A i \in DOMAIN more : i \in DOMAIN s.ends \/ i = Len(s.ends) + 1
      BY <1>1, <2>1, <2>3, EndAdded
    <2>5. HasEnd(r, Removes)
      <3>1. Len(s.ends) + 1 \in DOMAIN r.ends /\ r.ends[Len(s.ends) + 1] \in Removes
        BY <2>2, <2>4 DEF Removes
      <3> QED
        BY <3>1 DEF HasEnd
    <2>6. HasEnd(r, {"shown"}) => HasEnd(s, {"shown"})
      BY <2>2, <2>4 DEF HasEnd
    <2>7. Basics(r)
      BY <1>2, <1>3, <2>2, <2>6 DEF Basics
    <2> QED
      BY <1>2, <2>2, <2>5, <2>7 DEF Left
  <1>4. CASE ~(Fades /\ s.fade)
    <2>1. /\ r.visible <=> s.visible /\ s.hoverState = "in"
          /\ ~r.described /\ r.ends = s.ends
      BY <1>2, <1>4
    <2>2. r.visible => s.visible
      BY <2>1
    <2>3. r.visible => ~Fades
      BY <1>4, <2>2 DEF Basics
    <2>4. ~Fades => ~HasEnd(s, {"shown"})
      BY DEF Basics, HasEnd
    <2>5. ~s.visible => ~HasEnd(s, {"shown"})
      BY DEF Basics
    <2>6. HasEnd(r, {"shown"}) => HasEnd(s, {"shown"})
      BY <2>1 DEF HasEnd
    <2>7. s.visible => ~Fades
      <3>1. Fades \in BOOLEAN /\ s.fade \in BOOLEAN
        BY <1>1, OptionsAssumption DEF TipObject
      <3> QED
        BY <1>4, <3>1 DEF Basics
    <2>8. Basics(r)
      BY <1>2, <2>1, <2>2, <2>4, <2>5, <2>6, <2>7 DEF Basics
    <2> QED
      BY <1>2, <2>2, <2>3, <2>8 DEF Left
  <1> QED
    BY <1>3, <1>4

\* leave()
LEMMA LeaveLeaves ==
    ASSUME NEW s, Basics(s), NEW r, r = Leave(s)
    PROVE  /\ Basics(r) /\ Left(r) /\ (r.visible => s.visible)
  <1>0. /\ "out" \in {"null", "in", "out"} /\ "none" \in {"none", "show", "hide"}
        /\ "hide" \in {"none", "show", "hide"} /\ "hidden" \in {"hidden", "destroyed"}
        /\ "none" # "show" /\ "hide" # "show"
    OBVIOUS
  <1>1. PICK out : out = [s EXCEPT !.hoverState = "out", !.timer = "none"]
    OBVIOUS
  <1>2. Basics(out) /\ out.hoverState = "out" /\ out.timer = "none" /\ out.visible = s.visible
    <2>1. out = Note(s, "out", "none")
      BY <1>1 DEF Note
    <2> QED
      BY <1>0, <2>1, Noted
  <1>3. CASE HideDelay
    <2>1. r = Note(s, "out", "hide")
      BY <1>1, <1>3 DEF Leave, Basics, TipObject, Note
    <2>2. Basics(r) /\ r.hoverState = "out" /\ r.timer = "hide" /\ r.visible = s.visible
      BY <1>0, <2>1, Noted
    <2> QED
      BY <2>2 DEF Left
  <1>4. CASE ~HideDelay
    <2>1. r = Hide(out, "hidden")
      BY <1>1, <1>4 DEF Leave
    <2>2. Basics(r) /\ Left(r) /\ (r.visible => out.visible)
      BY <1>0, <1>2, <2>1, HideLeaves
    <2> QED
      BY <1>2, <2>2
  <1> QED
    BY <1>3, <1>4

\* show(), of a tooltip that is not in the document and that is wanted.
LEMMA ShowStays ==
    ASSUME NEW s, Basics(s), ~s.visible, s.hoverState = "in", NEW quiet \in BOOLEAN,
           s.timer = "none", NEW r, r = Show(s)
    PROVE  Basics(r) /\ Stayed(r, quiet)
  <1>0. TRUE \in BOOLEAN /\ Fades \in BOOLEAN
    BY OptionsAssumption
  <1>1. s \in TipObject /\ s.ends \in Seq({"shown", "hidden", "destroyed"})
    BY DEF Basics, TipObject
  <1>2. PICK shown : shown = [s EXCEPT !.visible = TRUE, !.in = TRUE, !.fade = Fades,
                                       !.described = TRUE]
    OBVIOUS
  <1>3. shown \in TipObject
    BY <1>0, <1>1, <1>2 DEF TipObject
  <1>4. /\ shown.visible = TRUE /\ shown.in = TRUE /\ shown.fade = Fades /\ shown.described = TRUE
        /\ shown.hoverState = "in" /\ shown.timer = "none" /\ shown.ends = s.ends
    BY <1>1, <1>2 DEF TipObject
  <1>5. ~HasEnd(s, {"shown"})
    BY DEF Basics
  <1>6. CASE Fades
    <2>1. PICK more : more = Append(s.ends, "shown")
      OBVIOUS
    <2>2. "shown" \in {"shown", "hidden", "destroyed"}
      OBVIOUS
    <2>3. /\ more \in Seq({"shown", "hidden", "destroyed"})
          /\ Len(s.ends) \in Nat /\ DOMAIN s.ends = 1 .. Len(s.ends)
          /\ DOMAIN more = 1 .. Len(s.ends) + 1
          /\ more[Len(s.ends) + 1] = "shown"
          /\ \A i \in DOMAIN s.ends : more[i] = s.ends[i]
          /\ \A i \in DOMAIN more : i \in DOMAIN s.ends \/ i = Len(s.ends) + 1
      BY <1>1, <2>1, <2>2, EndAdded
    <2>4. r = [shown EXCEPT !.ends = more]
      BY <1>2, <1>4, <1>6, <2>1 DEF Show
    <2>5. r \in TipObject
      BY <1>3, <2>3, <2>4 DEF TipObject
    <2>6. /\ r.visible = TRUE /\ r.in = TRUE /\ r.fade = Fades /\ r.described = TRUE
          /\ r.hoverState = "in" /\ r.timer = "none" /\ r.ends = more
      BY <1>3, <1>4, <2>4 DEF TipObject
    <2>7. \A i, j \in DOMAIN r.ends : r.ends[i] = "shown" /\ i < j => r.ends[j] = "shown"
      <3> SUFFICES ASSUME NEW i \in DOMAIN more, NEW j \in DOMAIN more, more[i] = "shown", i < j
                   PROVE  FALSE
        BY <2>6
      <3>1. i \notin DOMAIN s.ends
        BY <1>5, <2>3 DEF HasEnd
      <3>2. i = Len(s.ends) + 1
        BY <2>3, <3>1
      <3> QED
        BY <2>3, <3>2
    <2>8. Basics(r)
      BY <1>6, <2>5, <2>6, <2>7 DEF Basics
    <2> QED
      BY <2>6, <2>8 DEF Stayed
  <1>7. CASE ~Fades
    <2>1. r = [shown EXCEPT !.hoverState = "null"]
      BY <1>2, <1>4, <1>7 DEF Show, Shown
    <2>2. r \in TipObject
      BY <1>3, <2>1 DEF TipObject
    <2>3. /\ r.visible = TRUE /\ r.in = TRUE /\ r.fade = Fades /\ r.described = TRUE
          /\ r.hoverState = "null" /\ r.timer = "none" /\ r.ends = s.ends
      BY <1>3, <1>4, <2>1 DEF TipObject
    <2>4. s.ends = <<>>
      BY <1>7 DEF Basics
    <2>5. ~HasEnd(r, Removes)
      BY <2>3, <2>4 DEF HasEnd
    <2>6. Basics(r)
      BY <1>7, <2>2, <2>3, <2>4 DEF Basics
    <2> QED
      BY <2>3, <2>5, <2>6 DEF Stayed
  <1> QED
    BY <1>6, <1>7

\* enter(), which is calm where the tooltip does not fade out.
LEMMA EnterStays ==
    ASSUME NEW s, Basics(s), NEW quiet \in BOOLEAN, quiet => s.in \/ ~s.visible,
           NEW r, r = Enter(s)
    PROVE  Basics(r) /\ Stayed(r, quiet)
  <1>0. /\ "in" \in {"null", "in", "out"} /\ "none" \in {"none", "show", "hide"}
        /\ "show" \in {"none", "show", "hide"} /\ "none" # "show"
    OBVIOUS
  <1>1. s \in TipObject /\ s.timer \in {"none", "show", "hide"}
    BY DEF Basics, TipObject
  <1>2. CASE s.visible
    <2>1. PICK timer \in {"none", "show", "hide"} : timer = s.timer
      BY <1>1
    <2>2. timer = "show" => ~s.visible
      BY <2>1 DEF Basics
    <2>3. r = Note(s, "in", timer)
      BY <1>1, <1>2, <2>1 DEF Enter, TipObject, Note
    <2>4. timer \in {"none", "show", "hide"}
      BY <2>1
    <2>5. Basics(r) /\ r.hoverState = "in" /\ r.visible = s.visible /\ r.in = s.in
      BY <1>0, <2>2, <2>3, <2>4, Noted
    <2> QED
      BY <1>2, <2>5 DEF Stayed
  <1>3. CASE ~s.visible /\ ShowDelay
    <2>1. r = Note(s, "in", "show")
      BY <1>1, <1>3 DEF Enter, TipObject, Note
    <2>2. Basics(r) /\ r.hoverState = "in" /\ r.timer = "show" /\ r.visible = s.visible
      BY <1>0, <1>3, <2>1, Noted
    <2> QED
      BY <1>3, <2>2 DEF Stayed
  <1>4. CASE ~s.visible /\ ~ShowDelay
    <2>1. PICK in : in = Note(s, "in", "none")
      OBVIOUS
    <2>2. Basics(in) /\ in.hoverState = "in" /\ in.timer = "none" /\ in.visible = s.visible
      BY <1>0, <2>1, Noted
    <2>3. r = Show(in)
      BY <1>4, <2>1 DEF Enter, Note
    <2> QED
      BY <1>4, <2>2, <2>3, ShowStays
  <1> QED
    BY <1>2, <1>3, <1>4

\* The recursive definition of After defines a function.
LEMMA AfterDef ==
    ASSUME NEW s \in TipObject
    PROVE  After(s) = [k \in 0 .. Len(s.ends) |->
                          IF k = 0 THEN [s EXCEPT !.ends = <<>>]
                          ELSE Call(After(s)[k - 1], s.ends[k])]
  <1> DEFINE F(f, m) == [k \in 0 .. m |-> IF k = 0 THEN [s EXCEPT !.ends = <<>>]
                                          ELSE Call(f[k - 1], s.ends[k])]
             S == {m \in Nat : \E f : f = F(f, m)}
  <1>0. Len(s.ends) \in Nat
    BY DEF TipObject
  <1>1. 0 \in S
    <2> DEFINE f == [k \in 0 .. 0 |-> [s EXCEPT !.ends = <<>>]]
    <2>1. f = F(f, 0)
      OBVIOUS
    <2> QED
      BY <2>1
  <1>2. ASSUME NEW m \in Nat, \E f : f = F(f, m) PROVE \E g : g = F(g, m + 1)
    <2>1. PICK f : f = F(f, m)
      BY <1>2
    <2> DEFINE g == [k \in 0 .. m + 1 |-> IF k = m + 1 THEN Call(f[m], s.ends[m + 1]) ELSE f[k]]
    <2>2. \A k \in 0 .. m + 1 : g[k] = IF k = 0 THEN [s EXCEPT !.ends = <<>>]
                                       ELSE Call(g[k - 1], s.ends[k])
      <3> TAKE k \in 0 .. m + 1
      <3>1. CASE k = m + 1
        <4>1. g[k] = Call(f[m], s.ends[m + 1]) /\ k # 0 /\ k - 1 = m
          BY <3>1
        <4>2. g[m] = f[m]
          OBVIOUS
        <4> QED
          BY <4>1, <4>2, <3>1
      <3>2. CASE k # m + 1
        <4>1. k \in 0 .. m /\ g[k] = f[k]
          BY <3>2
        <4>2. f[k] = IF k = 0 THEN [s EXCEPT !.ends = <<>>] ELSE Call(f[k - 1], s.ends[k])
          BY <4>1, <2>1
        <4>3. k # 0 => g[k - 1] = f[k - 1]
          BY <4>1
        <4> QED
          BY <4>1, <4>2, <4>3
      <3> QED
        BY <3>1, <3>2
    <2>3. DOMAIN g = 0 .. m + 1 /\ g = [k \in DOMAIN g |-> g[k]]
      OBVIOUS
    <2> HIDE DEF g
    <2>4. g = F(g, m + 1)
      BY <2>2, <2>3
    <2> QED
      BY <2>4
  <1>3. Len(s.ends) \in S
    <2>1. S \in SUBSET Nat
      OBVIOUS
    <2>2. ASSUME NEW n \in S PROVE n + 1 \in S
      <3> HIDE DEF F
      <3>1. n \in Nat /\ \E f : f = F(f, n)
        OBVIOUS
      <3>2. n + 1 \in Nat /\ \E g : g = F(g, n + 1)
        BY <3>1, <1>2
      <3> QED
        BY <3>2
    <2> HIDE DEF S
    <2> QED
      BY <1>0, <1>1, <2>1, <2>2, Counting
  <1>4. PICK f : f = F(f, Len(s.ends))
    BY <1>3
  <1>5. After(s) = CHOOSE g : g = F(g, Len(s.ends))
    BY DEF After
  <1> QED
    BY <1>4, <1>5

\* What the first k callbacks of a transition have made of the tooltip s.
Via(s, r, k, a, quiet) ==
    /\ r \in TipObject
    /\ \A i \in DOMAIN r.ends : r.ends[i] = "hidden"
    /\ r.fade = s.fade
    /\ r.visible => s.visible
    /\ r.described => r.visible
    /\ r.timer = "show" => s.timer = "show"
    /\ r.alive => s.alive
    /\ a = "out" =>
          /\ r.hoverState # "in"
          /\ r.alive /\ r.visible =>
                \/ r.timer = "hide" /\ r.hoverState = "out"
                \/ HasEnd(r, Removes)
                \/ \E i \in DOMAIN s.ends : i > k /\ s.ends[i] \in Removes
    /\ a = "in" =>
          /\ r.hoverState # "out"
          /\ quiet /\ ~s.visible => r.timer = "show" /\ r.hoverState = "in"
          /\ quiet /\ s.visible =>
                /\ r.visible /\ r.in /\ r.ends = <<>>
                /\ r.hoverState # "in" => \A i \in DOMAIN s.ends : i > k => s.ends[i] \notin Removes

\* complete of show(), while the transition ends.
LEMMA ViaShown ==
    ASSUME NEW s, Basics(s), Fades, NEW a \in {"in", "out"}, NEW quiet \in BOOLEAN,
           a = "in" => Stayed(s, quiet), NEW k \in Nat, k + 1 \in DOMAIN s.ends,
           s.ends[k + 1] = "shown", NEW r, Via(s, r, k, a, quiet), NEW x, x = Shown(r)
    PROVE  Via(s, x, k + 1, a, quiet)
  <1>0. /\ r \in TipObject /\ s \in TipObject /\ "null" \in {"null", "in", "out"}
        /\ r.ends \in Seq({"shown", "hidden", "destroyed"})
    BY DEF Via, Basics, TipObject
  <1>1. s.visible
    BY DEF Basics, HasEnd
  <1>2. PICK shown : shown = [r EXCEPT !.hoverState = "null"]
    OBVIOUS
  <1>3. /\ shown \in TipObject /\ shown.hoverState = "null" /\ shown.timer = r.timer
        /\ shown.visible = r.visible /\ shown.in = r.in /\ shown.fade = r.fade
        /\ shown.described = r.described /\ shown.ends = r.ends /\ shown.alive = r.alive
    BY <1>0, <1>2 DEF TipObject
  <1>4. CASE r.hoverState # "out"
    <2>1. x = shown
      BY <1>2, <1>4 DEF Shown
    <2>2. \A i \in DOMAIN s.ends : i \in Nat /\ (i > k => i = k + 1 \/ i > k + 1)
      BY <1>0 DEF TipObject
    <2>3. \A i \in DOMAIN s.ends : i > k + 1 => i > k
      BY <2>2
    <2>4. "shown" \notin Removes
      BY DEF Removes
    <2>5. ASSUME a = "out", x.alive, x.visible
          PROVE  HasEnd(x, Removes) \/ \E i \in DOMAIN s.ends : i > k + 1 /\ s.ends[i] \in Removes
      <3>1. HasEnd(r, Removes) \/ \E i \in DOMAIN s.ends : i > k /\ s.ends[i] \in Removes
        BY <1>3, <1>4, <2>1, <2>5 DEF Via
      <3>2. HasEnd(r, Removes) => HasEnd(x, Removes)
        BY <1>3, <2>1 DEF HasEnd
      <3>3. ASSUME NEW i \in DOMAIN s.ends, i > k, s.ends[i] \in Removes
            PROVE  i > k + 1
        BY <2>2, <2>4, <3>3
      <3> QED
        BY <3>1, <3>2, <3>3
    <2>6. ASSUME a = "in", quiet
          PROVE  \A i \in DOMAIN s.ends : i > k + 1 => s.ends[i] \notin Removes
      <3>1. s.in
        BY <1>1, <2>6 DEF Stayed
      <3>2. ASSUME NEW i \in DOMAIN s.ends, i > k + 1 PROVE s.ends[i] = "shown"
        <4>1. k + 1 < i
          BY <2>2, <3>2
        <4> QED
          BY <1>1, <3>1, <3>2, <4>1 DEF Basics
      <3> QED
        BY <2>4, <3>2
    <2>7. a = "in" /\ quiet => r.visible /\ r.in /\ r.ends = <<>>
      BY <1>1 DEF Via
    <2> QED
      BY <1>1, <1>3, <2>1, <2>5, <2>6, <2>7 DEF Via
  <1>5. CASE r.hoverState = "out"
    <2>1. a = "out" /\ a # "in"
      BY <1>5 DEF Via
    <2>2. x = Leave(shown)
      BY <1>2, <1>5 DEF Shown
    <2>3. CASE HideDelay
      <3>1. x = [shown EXCEPT !.hoverState = "out", !.timer = "hide"]
        BY <1>3, <2>2, <2>3 DEF Leave, TipObject
      <3>2. /\ x \in TipObject /\ x.hoverState = "out" /\ x.timer = "hide"
            /\ x.visible = shown.visible /\ x.in = shown.in /\ x.fade = shown.fade
            /\ x.described = shown.described /\ x.ends = shown.ends /\ x.alive = shown.alive
        BY <1>3, <3>1 DEF TipObject
      <3> QED
        BY <1>3, <2>1, <3>2 DEF Via
    <2>4. CASE ~HideDelay
      <3>1. PICK out : out = [shown EXCEPT !.hoverState = "out", !.timer = "none"]
        OBVIOUS
      <3>2. /\ out \in TipObject /\ out.hoverState = "out" /\ out.timer = "none"
            /\ out.visible = shown.visible /\ out.in = shown.in /\ out.fade = shown.fade
            /\ out.described = shown.described /\ out.ends = shown.ends /\ out.alive = shown.alive
        BY <1>3, <3>1 DEF TipObject
      <3>3. x = Hide(out, "hidden")
        BY <2>2, <2>4, <3>1 DEF Leave
      <3>4. out.fade /\ "hidden" \in {"hidden", "destroyed"} /\ "hidden" \in {"shown", "hidden", "destroyed"}
        BY <1>1, <1>3, <3>2 DEF Basics, Via
      <3>5. /\ x \in TipObject /\ x.hoverState = "null" /\ x.timer = out.timer /\ x.fade = out.fade
            /\ x.visible = out.visible /\ x.described = out.described
            /\ x.alive = out.alive /\ x.ends = Append(out.ends, "hidden")
        <4>1. out \in TipObject
          BY <3>2
        <4>2. x \in TipObject /\ x.hoverState = "null"
          BY <3>3, <3>4, <4>1, HideDoes
        <4>3. x.timer = out.timer /\ x.fade = out.fade
          <5>1. PICK gone : gone = [out EXCEPT !.in = FALSE]
            OBVIOUS
          <5>2. gone \in TipObject /\ gone.timer = out.timer /\ gone.fade = out.fade
            BY <4>1, <5>1 DEF TipObject
          <5>3. x = [gone EXCEPT !.ends = Append(@, "hidden"), !.hoverState = "null"]
            BY <3>3, <3>4, <5>1, <5>2 DEF Hide, TipObject
          <5> QED
            BY <5>2, <5>3 DEF TipObject
        <4>4. x.visible = out.visible /\ x.described = out.described /\ x.alive = out.alive
          BY <3>3, <3>4, <4>1, HideDoes
        <4>5. x.ends = Append(out.ends, "hidden")
          BY <3>3, <3>4, <4>1, HideDoes
        <4> QED
          BY <4>2, <4>3, <4>4, <4>5
      <3>6. PICK more : more = Append(r.ends, "hidden")
        OBVIOUS
      <3>7. /\ DOMAIN more = 1 .. Len(r.ends) + 1 /\ Len(r.ends) \in Nat
            /\ more[Len(r.ends) + 1] = "hidden"
            /\ \A i \in DOMAIN r.ends : more[i] = r.ends[i]
            /\ \A i \in DOMAIN more : i \in DOMAIN r.ends \/ i = Len(r.ends) + 1
        BY <1>0, <3>4, <3>6, EndAdded
      <3>8. x.ends = more
        BY <1>3, <3>2, <3>5, <3>6
      <3>9. \A i \in DOMAIN x.ends : x.ends[i] = "hidden"
        BY <3>7, <3>8 DEF Via
      <3>10. HasEnd(x, Removes)
        <4>1. Len(r.ends) + 1 \in DOMAIN x.ends /\ x.ends[Len(r.ends) + 1] \in Removes
          BY <3>7, <3>8 DEF Removes
        <4> QED
          BY <4>1 DEF HasEnd
      <3> QED
        BY <1>3, <2>1, <3>2, <3>5, <3>9, <3>10 DEF Via
    <2> QED
      BY <2>3, <2>4
  <1> QED
    BY <1>4, <1>5

\* complete of hide() or destroy(), while the transition ends.
LEMMA ViaHidden ==
    ASSUME NEW s, Basics(s), NEW a \in {"in", "out"}, NEW quiet \in BOOLEAN,
           NEW k \in Nat, k + 1 \in DOMAIN s.ends, s.ends[k + 1] \in Removes,
           NEW name, NEW r, Via(s, r, k, a, quiet), NEW x, x = Hidden(r, name)
    PROVE  Via(s, x, k + 1, a, quiet)
  <1>1. r \in TipObject
    BY DEF Via
  <1>2. /\ x \in TipObject
        /\ x.alive => r.alive
        /\ ~x.described
    BY <1>1, Gone
  <1>3. x.visible <=> r.visible /\ r.hoverState = "in"
    BY <1>1, Gone
  <1>7. /\ x.hoverState = r.hoverState /\ x.timer = r.timer /\ x.in = r.in
        /\ x.fade = r.fade /\ x.ends = r.ends
    BY <1>1 DEF Hidden, TipObject
  <1>4. k + 1 > k /\ \A i \in DOMAIN s.ends : i > k + 1 => i > k
    BY DEF Basics, TipObject
  <1>5. a = "out" => ~x.visible
    BY <1>3 DEF Via
  <1>6. a = "in" /\ quiet /\ s.visible => r.hoverState = "in" /\ x.visible /\ x.in /\ x.ends = <<>>
    BY <1>3, <1>4, <1>7 DEF Via
  <1> QED
    BY <1>2, <1>3, <1>5, <1>6, <1>7 DEF Via

\* The end of a transition, with all callbacks that wait for it.
LEMMA EndsWell ==
    ASSUME NEW s, Basics(s), s.ends # <<>>, NEW a \in {"in", "out"}, NEW quiet \in BOOLEAN,
           a = "out" => Left(s), a = "in" => Stayed(s, quiet),
           NEW r, r = After(s)[Len(s.ends)]
    PROVE  Basics(r) /\ (a = "out" => Left(r)) /\ (a = "in" => Stayed(r, quiet))
  <1>1. /\ s \in TipObject /\ s.ends \in Seq({"shown", "hidden", "destroyed"})
        /\ Len(s.ends) \in Nat /\ DOMAIN s.ends = 1 .. Len(s.ends)
    BY DEF Basics, TipObject
  <1>2. Fades
    BY DEF Basics
  <1>3. PICK f : f = After(s)
    OBVIOUS
  <1>4. f = [k \in 0 .. Len(s.ends) |-> IF k = 0 THEN [s EXCEPT !.ends = <<>>]
                                       ELSE Call(f[k - 1], s.ends[k])]
    BY <1>1, <1>3, AfterDef
  <1>5. Via(s, f[0], 0, a, quiet)
    <2>1. PICK r0 : r0 = [s EXCEPT !.ends = <<>>]
      OBVIOUS
    <2>2. f[0] = r0
      BY <1>1, <1>4, <2>1
    <2>3. <<>> \in Seq({"shown", "hidden", "destroyed"})
      OBVIOUS
    <2>4. /\ r0 \in TipObject /\ r0.ends = <<>> /\ r0.hoverState = s.hoverState
          /\ r0.timer = s.timer /\ r0.visible = s.visible /\ r0.in = s.in
          /\ r0.fade = s.fade /\ r0.described = s.described /\ r0.alive = s.alive
      BY <1>1, <2>1, <2>3 DEF TipObject
    <2>5. \A i \in DOMAIN s.ends : i > 0
      BY <1>1
    <2>6. a = "out" => /\ r0.hoverState # "in"
                       /\ r0.alive /\ r0.visible =>
                             \/ r0.timer = "hide" /\ r0.hoverState = "out"
                             \/ \E i \in DOMAIN s.ends : i > 0 /\ s.ends[i] \in Removes
      BY <1>2, <2>4, <2>5 DEF Left, HasEnd
    <2>7. a = "in" => /\ r0.hoverState # "out"
                      /\ quiet /\ ~s.visible => r0.timer = "show" /\ r0.hoverState = "in"
                      /\ quiet /\ s.visible =>
                            /\ r0.visible /\ r0.in /\ r0.ends = <<>>
                            /\ r0.hoverState # "in" =>
                                  \A i \in DOMAIN s.ends : i > 0 => s.ends[i] \notin Removes
      BY <2>4 DEF Stayed, HasEnd
    <2>8. \A i \in DOMAIN r0.ends : r0.ends[i] = "hidden"
      BY <2>4
    <2>9. Via(s, r0, 0, a, quiet)
      BY <2>4, <2>6, <2>7, <2>8 DEF Via, Basics
    <2> QED
      BY <2>2, <2>9
  <1>6. ASSUME NEW k \in Nat, k + 1 \in DOMAIN s.ends, Via(s, f[k], k, a, quiet)
        PROVE  Via(s, f[k + 1], k + 1, a, quiet)
    <2>1. k + 1 \in 0 .. Len(s.ends) /\ k + 1 # 0 /\ (k + 1) - 1 = k
      BY <1>1, <1>6
    <2>2. f[k + 1] = Call(f[k], s.ends[k + 1])
      BY <1>4, <2>1
    <2>3. s.ends[k + 1] \in {"shown", "hidden", "destroyed"}
      BY <1>1, <1>6
    <2>4. CASE s.ends[k + 1] = "shown"
      <3>1. f[k + 1] = Shown(f[k])
        BY <2>2, <2>4 DEF Call
      <3> QED
        BY <1>2, <1>6, <2>4, <3>1, ViaShown
    <2>5. CASE s.ends[k + 1] # "shown"
      <3>1. f[k + 1] = Hidden(f[k], s.ends[k + 1])
        BY <2>2, <2>5 DEF Call
      <3>2. s.ends[k + 1] \in Removes
        BY <2>3, <2>5 DEF Removes
      <3> QED
        BY <1>6, <3>1, <3>2, ViaHidden
    <2> QED
      BY <2>4, <2>5
  <1>7. Via(s, r, Len(s.ends), a, quiet)
    <2> DEFINE S == {k \in Nat : k \in 0 .. Len(s.ends) => Via(s, f[k], k, a, quiet)}
    <2>1. S \in SUBSET Nat /\ 0 \in S
      BY <1>5
    <2>2. ASSUME NEW k \in S PROVE k + 1 \in S
      <3>1. k \in Nat /\ k + 1 \in Nat
        OBVIOUS
      <3>2. CASE k + 1 \in 0 .. Len(s.ends)
        <4>1. k + 1 \in DOMAIN s.ends /\ k \in 0 .. Len(s.ends)
          BY <1>1, <3>1, <3>2
        <4>2. Via(s, f[k], k, a, quiet)
          BY <2>2, <4>1
        <4> QED
          BY <1>6, <3>1, <4>1, <4>2
      <3>3. CASE k + 1 \notin 0 .. Len(s.ends)
        BY <3>1, <3>3
      <3> QED
        BY <3>2, <3>3
    <2>3. \A k \in Nat : k \in S
      <3> HIDE DEF S
      <3> QED
        BY <2>1, <2>2, Counting
    <2> QED
      BY <1>1, <1>3, <2>3
  <1>8. Basics(r)
    <2>1. r \in TipObject /\ (r.visible => s.visible) /\ r.fade = s.fade
      BY <1>7 DEF Via
    <2>2. "hidden" # "shown" /\ \A i \in DOMAIN r.ends : r.ends[i] = "hidden"
      BY <1>7 DEF Via
    <2>3. ~HasEnd(r, {"shown"})
      BY <2>2 DEF HasEnd
    <2>4. r.timer = "show" => ~r.visible
      BY <1>7 DEF Via, Basics
    <2>5. \A i, j \in DOMAIN r.ends : r.ends[i] = "shown" /\ i < j => r.ends[j] = "shown"
      BY <2>2
    <2>6. (r.visible => r.fade = Fades) /\ (r.described => r.visible)
      BY <1>7 DEF Via, Basics
    <2> QED
      BY <1>2, <2>1, <2>3, <2>4, <2>5, <2>6 DEF Basics
  <1>9. ASSUME a = "out" PROVE Left(r)
    <2>1. ~\E i \in DOMAIN s.ends : i > Len(s.ends)
      BY <1>1
    <2> QED
      BY <1>7, <1>9, <2>1 DEF Via, Left
  <1>10. ASSUME a = "in" PROVE Stayed(r, quiet)
    <2>1. r.ends = <<>> => ~HasEnd(r, Removes)
      BY DEF HasEnd
    <2> QED
      BY <1>7, <1>10, <2>1 DEF Via, Stayed
  <1> QED
    BY <1>8, <1>9, <1>10

\* TipIInv in terms of the record.
TipHolds ==
    /\ Basics(t) /\ calm \in BOOLEAN /\ asked \in {"in", "out"} /\ events \in 0 .. MaxEvents
    /\ asked = "out" => Left(t)
    /\ asked = "in" => Stayed(t, calm)

\* The invariant says as much.
LEMMA TipHoldsThen == TipHolds => TooltipInv
  <1> SUFFICES ASSUME TipHolds PROVE TooltipInv
    OBVIOUS
  <1>1. TipTypeOK
    BY DEF TipHolds, Basics, TipTypeOK, TipObject
  <1>2. Leaves
    BY DEF TipHolds, Leaves, Left, HasEnd, EndsIn
  <1>3. Stays
    BY DEF TipHolds, Stays, Stayed, HasEnd, EndsIn
  <1>4. TipIInv
    BY <1>1, <1>2, <1>3 DEF TipIInv, TipHolds, Basics, HasEnd, EndsIn
  <1>5. DescribedBySomething
    BY DEF TipHolds, Basics, DescribedBySomething
  <1>6. Fades => NoneLeftBehind
    <2> SUFFICES ASSUME Fades, t.timer = "none", t.ends = <<>>, asked = "out", t.alive
                 PROVE  ~t.visible
      BY DEF NoneLeftBehind, Settled
    <2>1. ~HasEnd(t, Removes)
      BY DEF HasEnd
    <2> QED
      BY <2>1 DEF TipHolds, Left
  <1>7. calm => ShownWhileOver
    BY DEF TipHolds, Stayed, ShownWhileOver, Settled
  <1> QED
    BY <1>4, <1>5, <1>6, <1>7 DEF TooltipInv

\* TipHolds is inductive.
THEOREM TipInvariance == TipSpec => []TipHolds
  <1>1. TipInit => TipHolds
    <2> SUFFICES ASSUME TipInit PROVE TipHolds
      OBVIOUS
    <2>1. PICK no \in BOOLEAN, empty \in Seq({"shown", "hidden", "destroyed"}), yes \in BOOLEAN :
              no = FALSE /\ empty = <<>> /\ yes = TRUE
      <3>1. FALSE \in BOOLEAN /\ TRUE \in BOOLEAN
            /\ <<>> \in Seq({"shown", "hidden", "destroyed"})
        OBVIOUS
      <3> QED
        BY <3>1
    <2>2. no \in BOOLEAN /\ empty \in Seq({"shown", "hidden", "destroyed"}) /\ yes \in BOOLEAN
      BY <2>1
    <2>3. t = [hoverState |-> "null", timer |-> "none", visible |-> no, in |-> no,
               fade |-> no, described |-> no, ends |-> empty, alive |-> yes]
      BY <2>1 DEF TipInit
    <2>4. t \in TipObject
      BY <2>2, <2>3 DEF TipObject
    <2>5. /\ t.hoverState = "null" /\ t.timer = "none" /\ ~t.visible /\ ~t.fade /\ ~t.described
          /\ t.ends = <<>>
      BY <2>1, <2>3
    <2>6. ~HasEnd(t, {"shown"})
      BY <2>5 DEF HasEnd
    <2>7. Basics(t)
      BY <2>4, <2>5, <2>6 DEF Basics
    <2>8. calm \in BOOLEAN /\ asked = "out" /\ events = 0
      BY DEF TipInit
    <2> QED
      BY <2>5, <2>7, <2>8, EventsAssumption DEF TipHolds, Left
  <1>2. TipHolds /\ [TipNext]_tipVars => TipHolds'
    <2> SUFFICES ASSUME TipHolds, [TipNext]_tipVars PROVE TipHolds'
      OBVIOUS
    <2>1. /\ Basics(t) /\ calm \in BOOLEAN /\ asked \in {"in", "out"} /\ events \in 0 .. MaxEvents
          /\ asked = "out" => Left(t)
          /\ asked = "in" => Stayed(t, calm)
      BY DEF TipHolds
    <2>2. ASSUME Event PROVE events' \in 0 .. MaxEvents /\ calm' = calm
      BY <2>1, <2>2, EventsAssumption DEF Event
    <2>3. ASSUME NEW r, t' = r, Basics(r), Left(r), asked' = "out",
                 events' \in 0 .. MaxEvents, calm' = calm
          PROVE  TipHolds'
      BY <2>1, <2>3 DEF TipHolds, Basics, Left, HasEnd
    <2>4. ASSUME NEW r, t' = r, Basics(r), Stayed(r, calm), asked' = "in",
                 events' \in 0 .. MaxEvents, calm' = calm
          PROVE  TipHolds'
      BY <2>1, <2>4 DEF TipHolds, Basics, Stayed, HasEnd
    <2>5. CASE UserEnters
      <3>1. PICK r : r = Enter(t)
        OBVIOUS
      <3>2. Basics(r) /\ Stayed(r, calm)
        BY <2>1, <2>5, <3>1, EnterStays DEF UserEnters
      <3> QED
        BY <2>2, <2>4, <2>5, <3>1, <3>2 DEF UserEnters
    <2>6. CASE UserLeaves
      <3>1. PICK r : r = Leave(t)
        OBVIOUS
      <3>2. Basics(r) /\ Left(r)
        BY <2>1, <3>1, LeaveLeaves
      <3> QED
        BY <2>2, <2>3, <2>6, <3>1, <3>2 DEF UserLeaves
    <2>7. CASE CallHide
      <3>1. PICK r : r = Hide(t, "hidden")
        OBVIOUS
      <3>2. Basics(r) /\ Left(r)
        BY <2>1, <3>1, HideLeaves
      <3> QED
        BY <2>2, <2>3, <2>7, <3>1, <3>2 DEF CallHide
    <2>8. CASE CallDestroy
      <3>1. PICK s : s = [t EXCEPT !.timer = "none"]
        OBVIOUS
      <3>2. Basics(s)
        BY <2>1, <3>1, Untimed
      <3>3. PICK r : r = Hide(s, "destroyed")
        OBVIOUS
      <3>4. Basics(r) /\ Left(r)
        BY <3>2, <3>3, HideLeaves
      <3> QED
        BY <2>2, <2>3, <2>8, <3>1, <3>3, <3>4 DEF CallDestroy
    <2>9. CASE Timer
      <3>1. PICK s : s = [t EXCEPT !.timer = "none"]
        OBVIOUS
      <3>2. /\ Basics(s) /\ s.hoverState = t.hoverState /\ s.timer = "none"
            /\ s.visible = t.visible /\ s.in = t.in /\ s.ends = t.ends /\ s.alive = t.alive
        BY <2>1, <3>1, Untimed
      <3>3. /\ t' = IF t.timer = "show" /\ t.hoverState = "in" THEN Show(s)
                    ELSE IF t.timer = "hide" /\ t.hoverState = "out" THEN Hide(s, "hidden")
                    ELSE s
            /\ calm' = calm /\ asked' = asked /\ events' = events /\ t.timer # "none"
        BY <2>9, <3>1 DEF Timer
      <3>4. CASE t.timer = "show" /\ t.hoverState = "in"
        <4>1. ~s.visible /\ asked = "in"
          BY <2>1, <3>2, <3>4 DEF Basics, Left
        <4>2. PICK r : r = Show(s)
          OBVIOUS
        <4>3. Basics(r) /\ Stayed(r, calm)
          BY <2>1, <3>2, <3>4, <4>1, <4>2, ShowStays
        <4> QED
          BY <2>1, <2>4, <3>3, <3>4, <4>1, <4>2, <4>3
      <3>5. CASE t.timer = "hide" /\ t.hoverState = "out"
        <4>1. asked = "out"
          BY <2>1, <3>5 DEF Stayed
        <4>2. PICK r : r = Hide(s, "hidden")
          OBVIOUS
        <4>3. Basics(r) /\ Left(r)
          BY <3>2, <4>2, HideLeaves
        <4> QED
          BY <2>1, <2>3, <3>3, <3>5, <4>1, <4>2, <4>3
      <3>6. CASE ~(t.timer = "show" /\ t.hoverState = "in") /\ ~(t.timer = "hide" /\ t.hoverState = "out")
        <4>1. t' = s
          BY <3>3, <3>6
        <4>2. HasEnd(s, Removes) <=> HasEnd(t, Removes)
          BY <3>2 DEF HasEnd
        <4>3. CASE asked = "out"
          <5>1. Left(s)
            BY <2>1, <3>2, <3>6, <4>2, <4>3 DEF Left
          <5> QED
            BY <2>1, <2>3, <3>2, <3>3, <4>1, <4>3, <5>1
        <4>4. CASE asked = "in"
          <5>1. Stayed(s, calm)
            BY <2>1, <3>2, <3>6, <4>2, <4>4 DEF Stayed
          <5> QED
            BY <2>1, <2>4, <3>2, <3>3, <4>1, <4>4, <5>1
        <4> QED
          BY <2>1, <4>3, <4>4
      <3> QED
        BY <3>4, <3>5, <3>6
    <2>10. CASE TipEnd
      <3>1. PICK r : r = After(t)[Len(t.ends)]
        OBVIOUS
      <3>2. t.ends # <<>> /\ t' = r /\ calm' = calm /\ asked' = asked /\ events' = events
        BY <2>10, <3>1 DEF TipEnd
      <3>3. Basics(r) /\ (asked = "out" => Left(r)) /\ (asked = "in" => Stayed(r, calm))
        BY <2>1, <3>1, <3>2, EndsWell
      <3> QED
        BY <2>1, <2>3, <2>4, <3>2, <3>3
    <2>11. CASE UNCHANGED tipVars
      <3>1. t' = t /\ calm' = calm /\ asked' = asked /\ events' = events
        BY <2>11 DEF tipVars
      <3> QED
        BY <2>1, <2>3, <2>4, <3>1
    <2> QED
      BY <2>5, <2>6, <2>7, <2>8, <2>9, <2>10, <2>11 DEF TipNext
  <1> QED
    BY <1>1, <1>2, PTL DEF TipSpec

\* TooltipInv for every number of events and every choice of the options.
THEOREM TooltipAgrees == TipSpec => []TooltipInv
  BY TipInvariance, TipHoldsThen, PTL
=============================================================================
