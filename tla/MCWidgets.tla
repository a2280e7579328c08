----------------------------- MODULE MCWidgets -----------------------------
(***************************************************************************)
(* The widgets of bootstrap.js for TLC: tooltips, their placement, the     *)
(* carousel and the accordion.  They share no state, so a behaviour        *)
(* follows one of them and leaves the others where they begin.             *)
(***************************************************************************)
EXTENDS TooltipPlacement, Tooltip, Carousel, Collapse

\* Elements at the edges of a viewport and in its middle, tips that keep their
\* size, grow and shrink, and viewports with and without padding and scrolling,
\* one of which does not begin at the left edge of the page.
MCTargets == [left : {0, 3, 7, 9}, top : {0, 4, 9}, width : {1, 4}, height : {1}]
MCTips == [width : {3, 4}, height : {2}, newWidth : {3, 6}, newHeight : {2, 3}]
MCViewports == [left : {0, 2}, top : {0}, width : {8}, height : {10}, scroll : {0, 3},
                padding : {0, 1}]
\* A container that is the viewport, one that begins elsewhere, and one that is
\* scrolled to the left edge of the window.
MCContainers == [left : {0}, top : {0}, width : {8}, height : {10}, client : {0}]
                    \cup [left : {2}, top : {2}, width : {8}, height : {6}, client : {0, 2}]
MCAutoPlaces == BOOLEAN

\* Three items, so that the next and the previous one differ; five inputs let two
\* calls wait for a slide while the pointer comes and goes, and two slides may have
\* ended before their timers run.
\* Three panels: one that hides, one that opens in its place and one that is clicked
\* meanwhile.  Five clicks let each of them be clicked again.
MCOpen == {1}

\* Six events over a tooltip: enter, leave and enter again, with a call between each
\* two.

VARIABLE widget  \* the widget that is followed

-----------------------------------------------------------------------------
WidgetInit ==
    /\ widget \in {"placement", "carousel", "accordion", "tooltip"}
    /\ CarouselInit /\ (widget = "carousel" \/ ~slow)
    /\ PanelInit /\ (widget = "accordion" \/ created)
    /\ TipInit /\ (widget = "tooltip" \/ calm)
    /\ IF widget = "placement" THEN Init
       ELSE /\ el = [left |-> 3, top |-> 4, width |-> 1, height |-> 1]
            /\ tip = [width |-> 3, height |-> 2, newWidth |-> 3, newHeight |-> 2]
            /\ box = [left |-> 0, top |-> 0, width |-> 8, height |-> 10, client |-> 0]
            /\ view = [left |-> 0, top |-> 0, width |-> 8, height |-> 10, scroll |-> 0,
                       padding |-> 0]
            /\ auto = FALSE /\ wished = "top"
            /\ Init

WidgetNext ==
    \/ widget = "placement" /\ Next /\ UNCHANGED <<widget, carouselVars, panelVars, tipVars>>
    \/ widget = "carousel" /\ CarouselNext /\ UNCHANGED <<widget, vars, panelVars, tipVars>>
    \/ widget = "accordion" /\ PanelNext /\ UNCHANGED <<widget, vars, carouselVars, tipVars>>
    \/ widget = "tooltip" /\ TipNext /\ UNCHANGED <<widget, vars, carouselVars, panelVars>>

WidgetSpec == WidgetInit /\ [][WidgetNext]_<<widget, vars, carouselVars, panelVars, tipVars>>

\* Timers run and transitions end; a widget that is not followed has none of them.
WidgetFairSpec == WidgetSpec /\ CarouselFairness /\ PanelFairness /\ TipFairness

-----------------------------------------------------------------------------
\* Every slide and every transition of a panel comes to its end (emulateTransitionEnd).
TransitionsEnd == SlideEnds /\ PanelsRest
=============================================================================
