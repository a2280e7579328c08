------------------------------ MODULE Tooltip ------------------------------
(***************************************************************************)
(* The tooltip of bootstrap.js over one element with the trigger 'hover    *)
(* focus'.  enter and leave note in hoverState what was asked for last;    *)
(* show and hide, at once or after a delay, start transitions, and their   *)
(* callbacks consult hoverState again.  A step is a task of the event      *)
(* loop.  The element has a title and no listener prevents an event.       *)
(***************************************************************************)
EXTENDS Naturals, Sequences

CONSTANTS
    Fades,      \* options.animation, in a browser with transitions
    ShowDelay,  \* options.delay.show is not 0
    HideDelay,  \* options.delay.hide is not 0
    MaxEvents   \* bound on the events of the user

ASSUME OptionsAssumption ==
    Fades \in BOOLEAN /\ ShowDelay \in BOOLEAN /\ HideDelay \in BOOLEAN
ASSUME EventsAssumption == MaxEvents \in Nat

VARIABLES
    calm,    \* nobody comes back while the tooltip fades out
    t,       \* the Tooltip object and its element, a record (see TipTypeOK)
    asked,   \* history: what was asked for last, "in" or "out"
    events   \* events so far

tipVars == <<calm, t, asked, events>>

TipTypeOK ==
    /\ t \in [hoverState : {"null", "in", "out"},
              timer      : {"none", "show", "hide"},  \* what self.timeout will do
              visible    : BOOLEAN,                   \* $tip is in the document
              in         : BOOLEAN,                   \* with the class `in'
              fade       : BOOLEAN,                   \* and the class `fade'
              described  : BOOLEAN,                   \* aria-describedby
              ends       : Seq({"shown", "hidden", "destroyed"}),
                                                      \* callbacks of transitions
              alive      : BOOLEAN]                   \* not destroyed
    /\ calm \in BOOLEAN /\ asked \in {"in", "out"} /\ events \in 0 .. MaxEvents

TipInit ==
    /\ t = [hoverState |-> "null", timer |-> "none", visible |-> FALSE, in |-> FALSE,
            fade |-> FALSE, described |-> FALSE, ends |-> <<>>, alive |-> TRUE]
    /\ calm \in BOOLEAN /\ asked = "out" /\ events = 0

-----------------------------------------------------------------------------
\* Mutant of Hidden: aria-describedby stays.
HiddenDescribed(s, name) ==
    [s EXCEPT !.visible = @ /\ s.hoverState = "in", !.alive = @ /\ name # "destroyed"]

\* complete of hide(); that of destroy() also takes the handlers away.
Hidden(s, name) ==
    [s EXCEPT !.visible = @ /\ s.hoverState = "in", !.described = FALSE,
              !.alive = @ /\ name # "destroyed"]

\* Mutant of Hide: the callback is called whether there is one or not.
HideUnchecked(s, name) ==
    LET gone == [s EXCEPT !.in = FALSE]
        call == IF name = "hidden" THEN "undefined" ELSE name
    IN  [IF Fades /\ s.fade THEN [gone EXCEPT !.ends = Append(@, call)] ELSE Hidden(gone, call)
         EXCEPT !.hoverState = "null"]

\* hide(), whose callback has the given name.
Hide(s, name) ==
    LET gone == [s EXCEPT !.in = FALSE]
    IN  [IF Fades /\ s.fade THEN [gone EXCEPT !.ends = Append(@, name)] ELSE Hidden(gone, name)
         EXCEPT !.hoverState = "null"]

\* leave()
Leave(s) ==
    LET out == [s EXCEPT !.hoverState = "out", !.timer = "none"]
    IN  IF HideDelay THEN [out EXCEPT !.timer = "hide"] ELSE Hide(out, "hidden")

\* Mutant of Shown: what was asked for in the meantime is forgotten.
ShownForgets(s) == [s EXCEPT !.hoverState = "null"]

\* complete of show(): somebody who left in the meantime leaves again.
Shown(s) ==
    LET shown == [s EXCEPT !.hoverState = "null"]
    IN  IF s.hoverState = "out" THEN Leave(shown) ELSE shown

\* Mutant of Show: the class is given by the transition.
ShowUnmarked(s) ==
    LET shown == [s EXCEPT !.visible = TRUE, !.fade = Fades, !.described = TRUE]
    IN  IF Fades THEN [shown EXCEPT !.ends = Append(@, "shown")] ELSE Shown(shown)

\* show()
Show(s) ==
    LET shown == [s EXCEPT !.visible = TRUE, !.in = TRUE, !.fade = Fades, !.described = TRUE]
    IN  IF Fades THEN [shown EXCEPT !.ends = Append(@, "shown")] ELSE Shown(shown)

\* enter(): over a tooltip that is still in the document there is only a note.
Enter(s) ==
    IF s.visible THEN [s EXCEPT !.hoverState = "in"]
    ELSE LET in == [s EXCEPT !.hoverState = "in", !.timer = "none"]
         IN  IF ShowDelay THEN [in EXCEPT !.timer = "show"] ELSE Show(in)

-----------------------------------------------------------------------------
Event == events < MaxEvents /\ events' = events + 1 /\ UNCHANGED calm

\* mouseenter or focusin; they may follow each other.
UserEnters ==
    /\ Event /\ t.alive
    /\ calm => t.in \/ ~t.visible
    /\ t' = Enter(t) /\ asked' = "in"

\* mouseleave or focusout
UserLeaves == Event /\ t.alive /\ t' = Leave(t) /\ asked' = "out"

\* $(element).tooltip('hide')
CallHide == Event /\ t.alive /\ t' = Hide(t, "hidden") /\ asked' = "out"

\* $(element).tooltip('destroy')
CallDestroy ==
    /\ Event /\ t.alive
    /\ t' = Hide([t EXCEPT !.timer = "none"], "destroyed")
    /\ asked' = "out"

\* The delayed show or hide looks at hoverState again.
Timer ==
    /\ t.timer # "none"
    /\ LET s == [t EXCEPT !.timer = "none"]
       IN  t' = IF t.timer = "show" /\ t.hoverState = "in" THEN Show(s)
                ELSE IF t.timer = "hide" /\ t.hoverState = "out" THEN Hide(s, "hidden")
                ELSE s
    /\ UNCHANGED <<calm, asked, events>>

Call(s, name) == IF name = "shown" THEN Shown(s) ELSE Hidden(s, name)

\* What the first k callbacks make of the tooltip, in the order they were bound.
After(s) ==
    LET after[k \in 0 .. Len(s.ends)] ==
            IF k = 0 THEN [s EXCEPT !.ends = <<>>] ELSE Call(after[k - 1], s.ends[k])
    IN  after

\* bsTransitionEnd on $tip, by the browser or emulated, calls what waits for it.
TipEnd ==
    /\ t.ends # <<>>
    /\ t' = After(t)[Len(t.ends)]
    /\ UNCHANGED <<calm, asked, events>>

TipNext == UserEnters \/ UserLeaves \/ CallHide \/ CallDestroy \/ Timer \/ TipEnd

TipSpec == TipInit /\ [][TipNext]_tipVars

(* Timers run, and emulateTransitionEnd ends transitions. *)
TipFairness == WF_tipVars(Timer) /\ WF_tipVars(TipEnd)

-----------------------------------------------------------------------------
Settled == t.timer = "none" /\ t.ends = <<>>

\* However the events fell into delays and transitions: when all has settled
\* after a leave, no tooltip is left behind in the document, visible or not
\* (leave, hide, and the callbacks that consult hoverState).
NoneLeftBehind == Settled /\ asked = "out" /\ t.alive => ~t.visible

\* And when all has settled after an enter, it is there to be seen.
ShownWhileOver == Settled /\ asked = "in" => t.visible /\ t.in

\* The element refers to a tooltip only while that can be found (getUID, hide).
DescribedBySomething == t.described => t.visible

Removes == {"hidden", "destroyed"}
EndsIn(S) == \E i \in DOMAIN t.ends : t.ends[i] \in S

\* A tooltip that is not wanted any more is on its way out.
Leaves ==
    asked = "out" =>
        /\ t.hoverState # "in"
        /\ Fades /\ t.alive /\ t.visible =>
              (t.timer = "hide" /\ t.hoverState = "out") \/ EndsIn(Removes)

\* One that is wanted is there to stay or on its way in, if nobody came back while it
\* faded out: what would remove it comes before what sets hoverState back.
Stays ==
    asked = "in" =>
        /\ t.hoverState # "out"
        /\ calm /\ ~t.visible => t.timer = "show" /\ t.hoverState = "in"
        /\ calm /\ t.visible => t.in /\ (t.hoverState = "in" \/ ~EndsIn(Removes))

TipIInv ==
    /\ TipTypeOK /\ Leaves /\ Stays
    /\ t.visible => t.fade = Fades
    /\ ~Fades => ~t.fade /\ t.ends = <<>>
    /\ t.described => t.visible
    /\ t.timer = "show" => ~t.visible
    /\ ~t.visible => ~EndsIn({"shown"})
    /\ t.visible /\ t.in =>
          \A i, j \in DOMAIN t.ends : t.ends[i] = "shown" /\ i < j => t.ends[j] = "shown"

\* When all has settled after a leave, no tooltip that fades is left behind, and after
\* an enter it is there to be seen, if nobody came back while it faded out; the element
\* is described only by a tooltip that is there (enter, leave, show, hide).
TooltipInv ==
    /\ TipIInv /\ DescribedBySomething
    /\ Fades => NoneLeftBehind
    /\ calm => ShownWhileOver

\* Somebody who left, and stays away, sees the tooltip go.
Disappears == asked = "out" /\ t.alive ~> ~t.visible \/ asked = "in" \/ ~t.alive

\* Somebody who came, and stays, sees it.
Appears == calm /\ asked = "in" ~> t.in \/ asked = "out"

ComesAndGoes == Disappears /\ Appears
=============================================================================
