------------------------------ MODULE Carousel ------------------------------
(***************************************************************************)
(* The carousel of bootstrap.js, with controls, indicators, an interval    *)
(* and pause: 'hover', in a browser with transitions.  A step is a task of *)
(* the event loop.  A slide is a task that starts a transition, the end of *)
(* the transition, and a timer later the event "slid", for which calls of  *)
(* `to' wait that came during the slide.                                   *)
(***************************************************************************)
EXTENDS Naturals, Sequences, FiniteSets

CONSTANTS
    NItems,     \* the number of items, which are 0 .. NItems - 1
    MaxInputs,  \* bound on the user's inputs
    MaxSlids    \* bound on the timers of "slid" that wait when the interval ticks

ASSUME ItemsAssumption == NItems \in Nat \ {0}
ASSUME MaxInputsAssumption == MaxInputs \in Nat /\ MaxSlids \in Nat

Items == 0 .. NItems - 1

VARIABLES
    slow,    \* options.interval is longer than a slide takes, as by default
    c,       \* the Carousel object and its element, a record
    slids,   \* timers that will trigger "slid"
    hover,   \* the pointer is over the element
    inputs   \* the user's inputs so far

carouselVars == <<slow, c, slids, hover, inputs>>

CarouselObject ==
    [active    : SUBSET Items,    \* items of class active
     moving    : SUBSET [from : SUBSET Items, to : Items],  \* transitions
     sliding   : BOOLEAN,
     indicator : Items,           \* the active indicator
     interval  : BOOLEAN,         \* this.interval holds a timer
     ticking   : Nat,             \* timers of setInterval that run
     paused    : BOOLEAN,
     waiting   : Seq(Items),      \* `to' calls that wait for "slid"
     asked     : BOOLEAN]         \* history: cycle() was asked for since the pointer came

CarouselTypeOK ==
    /\ c \in CarouselObject
    /\ slow \in BOOLEAN /\ slids \in Nat /\ hover \in BOOLEAN /\ inputs \in 0 .. MaxInputs

\* As the page is loaded: data-ride has called pause().cycle().
CarouselInit ==
    /\ c = [active |-> {0}, moving |-> {}, sliding |-> FALSE, indicator |-> 0,
            interval |-> TRUE, ticking |-> 1, paused |-> FALSE, waiting |-> <<>>,
            asked |-> FALSE]
    /\ slow \in BOOLEAN /\ slids = 0 /\ hover = FALSE /\ inputs = 0

-----------------------------------------------------------------------------
\* The running timer of the handle, if it has one.
Own(d) == IF d.interval /\ d.ticking > 0 THEN 1 ELSE 0

\* pause(e): an event does not set the flag.  The cycle(true) of a slide under
\* way starts a timer at most to have it stopped again.
Pause(d, byCall) ==
    [d EXCEPT !.paused = @ \/ byCall, !.interval = FALSE, !.ticking = @ - Own(d)]

\* Mutant of Cycle: the old timer is not stopped.
CycleLeaks(d, byCall) ==
    LET paused == d.paused /\ ~byCall
    IN  [d EXCEPT !.paused = paused, !.interval = @ \/ ~paused,
                  !.ticking = @ + (IF paused THEN 0 ELSE 1)]

\* Mutant of Cycle: the flag is not looked at.
CycleAlways(d, byCall) ==
    [d EXCEPT !.paused = @ /\ ~byCall, !.interval = TRUE, !.ticking = @ - Own(d) + 1]

\* cycle(e): an event does not reset the flag.
Cycle(d, byCall) ==
    LET paused == d.paused /\ ~byCall
    IN  [d EXCEPT !.paused = paused, !.interval = @ \/ ~paused,
                  !.ticking = @ - Own(d) + (IF paused THEN 0 ELSE 1)]

\* Mutant of Slide: the carousel cycles after every slide.
SlideCycles(d, next) ==
    IF next \in d.active THEN [d EXCEPT !.sliding = FALSE]
    ELSE Cycle([Pause(d, TRUE) EXCEPT !.sliding = TRUE, !.indicator = next,
                   !.moving = @ \cup {[from |-> d.active, to |-> next]}], TRUE)

\* Mutant of Slide: the indicators are left to the end.
SlideUnmarked(d, next) ==
    IF next \in d.active THEN [d EXCEPT !.sliding = FALSE]
    ELSE LET started(e) == [e EXCEPT !.sliding = TRUE,
                                !.moving = @ \cup {[from |-> d.active, to |-> next]}]
         IN  IF d.interval THEN Cycle(started(Pause(d, TRUE)), TRUE) ELSE started(d)

\* slide(type, next) to an item.
Slide(d, next) ==
    IF next \in d.active THEN [d EXCEPT !.sliding = FALSE]
    ELSE LET started(e) == [e EXCEPT !.sliding = TRUE, !.indicator = next,
                                !.moving = @ \cup {[from |-> d.active, to |-> next]}]
         IN  IF d.interval THEN Cycle(started(Pause(d, TRUE)), TRUE) ELSE started(d)

\* Mutant of Neighbour: the end is not taken into account.
NeighbourBeyond(d, type) ==
    LET i == CHOOSE k \in d.active : TRUE
    IN  IF type = "next" THEN i + 1 ELSE i + NItems - 1

\* getItemForDirection: the next or the previous item, around the ends.
Neighbour(d, type) ==
    LET i == CHOOSE k \in d.active : TRUE
    IN  IF type = "next" THEN (i + 1) % NItems ELSE (i + NItems - 1) % NItems

\* Mutant of Step: a slide under way is no obstacle.
StepAnyway(d, type) == Slide(d, Neighbour(d, type))

\* next() and prev().
Step(d, type) == IF d.sliding THEN d ELSE Slide(d, Neighbour(d, type))

\* pause().cycle()
Resume(d) == [Cycle(Pause(d, TRUE), TRUE) EXCEPT !.asked = TRUE]

\* to(pos)
To(d, pos) ==
    IF d.sliding THEN [d EXCEPT !.waiting = Append(@, pos)]
    ELSE IF pos \in d.active THEN Resume(d) ELSE Slide(d, pos)

\* The calls that waited for "slid", in turn: those for the item that is active
\* resume, the first of another item slides, and those after it wait anew.
Woken(d) ==
    LET calls == d.waiting
        other == {k \in DOMAIN calls : calls[k] \notin d.active}
        k == IF other = {} THEN Len(calls) + 1 ELSE CHOOSE i \in other : \A j \in other : i <= j
        seen == IF k = 1 THEN d ELSE Resume(d)
    IN  IF d.sliding THEN d
        ELSE IF other = {} THEN [seen EXCEPT !.waiting = <<>>]
        ELSE Slide([seen EXCEPT !.waiting = SubSeq(calls, k + 1, Len(calls))], calls[k])

-----------------------------------------------------------------------------
Input == inputs < MaxInputs /\ inputs' = inputs + 1

\* A control, an arrow key or data[action]().
Turn(type) == Input /\ c' = Step(c, type) /\ UNCHANGED <<slow, slids, hover>>

\* An indicator: data-slide-to calls `to'.
Select(pos) == Input /\ c' = To(c, pos) /\ UNCHANGED <<slow, slids, hover>>

CallPause == Input /\ c' = Pause(c, TRUE) /\ UNCHANGED <<slow, slids, hover>>

CallCycle == Input /\ c' = [Cycle(c, TRUE) EXCEPT !.asked = TRUE] /\ UNCHANGED <<slow, slids, hover>>

MouseEnter ==
    /\ ~hover /\ Input /\ hover' = TRUE
    /\ c' = [Pause(c, FALSE) EXCEPT !.asked = FALSE]
    /\ UNCHANGED <<slow, slids>>

MouseLeave ==
    /\ hover /\ Input /\ hover' = FALSE
    /\ c' = Cycle(c, FALSE)
    /\ UNCHANGED <<slow, slids>>

\* The interval.  It starts anew with every slide, so a slow one comes after it.
Tick ==
    /\ c.ticking > 0 /\ slids < MaxSlids
    /\ slow => c.moving = {} /\ slids = 0
    /\ c' = Step(c, "next")
    /\ UNCHANGED <<slow, slids, hover, inputs>>

\* Mutant of SlideDone: "slid" is not triggered.
SlideDoneSilent ==
    \E t \in c.moving :
        /\ c' = [c EXCEPT !.active = (@ \ t.from) \cup {t.to}, !.moving = @ \ {t},
                          !.sliding = FALSE]
        /\ UNCHANGED <<slow, slids, hover, inputs>>

\* Mutant of SlideDone: the flag is left to the next slide.
SlideDoneStuck ==
    \E t \in c.moving :
        /\ c' = [c EXCEPT !.active = (@ \ t.from) \cup {t.to}, !.moving = @ \ {t}]
        /\ slids' = slids + 1
        /\ UNCHANGED <<slow, hover, inputs>>

\* bsTransitionEnd on the item that leaves, by the browser or emulated.
SlideDone ==
    \E t \in c.moving :
        /\ c' = [c EXCEPT !.active = (@ \ t.from) \cup {t.to}, !.moving = @ \ {t},
                          !.sliding = FALSE]
        /\ slids' = slids + 1
        /\ UNCHANGED <<slow, hover, inputs>>

\* The timer that triggers "slid".
Slid ==
    /\ slids > 0
    /\ slids' = slids - 1
    /\ c' = Woken(c)
    /\ UNCHANGED <<slow, hover, inputs>>

CarouselNext ==
    \/ \E type \in {"next", "prev"} : Turn(type)
    \/ \E pos \in Items : Select(pos)
    \/ CallPause \/ CallCycle \/ MouseEnter \/ MouseLeave
    \/ Tick \/ SlideDone \/ Slid

CarouselSpec == CarouselInit /\ [][CarouselNext]_carouselVars

(* Transitions end (emulateTransitionEnd sees to it) and timers run. *)
CarouselFairness == WF_carouselVars(SlideDone) /\ WF_carouselVars(Slid)

-----------------------------------------------------------------------------
\* One item is active at every moment of any sequence of slides, and one
\* other comes in while the flag says so (slide and its callback).
OneActive ==
    /\ Cardinality(c.active) = 1
    /\ Cardinality(c.moving) = IF c.sliding THEN 1 ELSE 0
    /\ \A t \in c.moving : t.from = c.active /\ t.to \notin c.active

\* The indicator shows the item that is active or comes in (slide).
IndicatorAgrees ==
    {c.indicator} = IF c.sliding THEN {t.to : t \in c.moving} ELSE c.active

\* No timer of setInterval is forgotten: with two of them the carousel would
\* turn twice as fast, and no pause would stop it (cycle, pause).
OneTimer == c.ticking = IF c.interval THEN 1 ELSE 0

\* A carousel that was paused by a call stays at rest until a call resumes it:
\* neither the pointer nor a slide starts the interval (paused in cycle).
PausedRests == c.paused => ~c.interval

\* Under the pointer the carousel turns only when a call, or a click on the
\* indicator of the item that is active, has asked for it (pause: 'hover').
HoverRests == hover /\ ~c.asked => ~c.interval

\* A call of `to' that waits will be carried out: a "slid" will come for it.
WaitsForSlid == c.waiting # <<>> => c.sliding \/ slids > 0

\* One item is active, and while the flag says so one other comes in, which the
\* indicator shows already.
Turns(d) ==
    \E i \in Items :
        /\ d.active = {i}
        /\ \/ ~d.sliding /\ d.moving = {} /\ d.indicator = i
           \/ \E j \in Items \ {i} :
                 d.sliding /\ d.moving = {[from |-> {i}, to |-> j]} /\ d.indicator = j

Timed(d) ==
    /\ d.ticking = IF d.interval THEN 1 ELSE 0
    /\ d.paused => ~d.interval

CarouselIInv == CarouselTypeOK /\ Turns(c) /\ Timed(c) /\ HoverRests /\ WaitsForSlid

\* Through any sequence of slides one item is active and the indicator shows it; one
\* timer runs at most, and none under the pointer or after a pause that nothing has
\* ended; and a call of `to' that waits will be carried out (slide, cycle, pause, to).
CarouselInv == CarouselIInv /\ OneActive /\ IndicatorAgrees /\ OneTimer /\ PausedRests

\* With an interval longer than a slide, no call waits for ever (to).
CallsAreWoken == slow /\ c.waiting # <<>> ~> c.waiting = <<>>

\* Every slide comes to its end.
SlideEnds == c.sliding ~> ~c.sliding
=============================================================================
