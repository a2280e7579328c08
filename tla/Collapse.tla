------------------------------ MODULE Collapse ------------------------------
(***************************************************************************)
(* The accordion of bootstrap.js: panels of one parent, each with its      *)
(* trigger, of which at most one is to be open.  A panel gets its Collapse *)
(* object when its trigger is first clicked, or when it is open while      *)
(* another one opens; such an object is thrown away at once, while its     *)
(* transition goes on.  A step is a click or the end of a transition.      *)
(***************************************************************************)
EXTENDS Naturals, Sequences, FiniteSets

CONSTANTS
    NPanels,    \* the number of panels, 1 .. NPanels in document order
    Open,       \* panels that the HTML shows open
    MaxClicks   \* bound on the clicks

ASSUME PanelsAssumption == NPanels \in Nat \ {0}
ASSUME OpenAssumption == Open \subseteq 1 .. NPanels /\ Cardinality(Open) <= 1
ASSUME ClicksAssumption == MaxClicks \in Nat

Panels == 1 .. NPanels

VARIABLES
    created, \* the page creates all objects (toggle: false) when it is loaded
    panel,   \* panel -> its element, its trigger and its object (see PanelTypeOK)
    clicks   \* clicks so far

panelVars == <<created, panel, clicks>>

PanelTypeOK ==
    /\ panel \in [Panels ->
           [class    : {"collapse", "collapsing", "in"},
            expanded : BOOLEAN,   \* the trigger shows the panel as open
            made     : BOOLEAN,   \* data('bs.collapse') holds an object
            parent   : BOOLEAN,   \* that object knows the parent
            busy     : BOOLEAN,   \* its flag transitioning
            ends     : Seq([kind : {"show", "hide"}, own : BOOLEAN])]]
                 \* callbacks of the running transition; own: of that object
    /\ created \in BOOLEAN /\ clicks \in 0 .. MaxClicks

PanelInit ==
    /\ created \in BOOLEAN
    /\ panel = [p \in Panels |->
           [class |-> IF p \in Open THEN "in" ELSE "collapse", expanded |-> p \in Open,
            made |-> created, parent |-> created, busy |-> FALSE, ends |-> <<>>]]
    /\ clicks = 0

-----------------------------------------------------------------------------
\* The transition of show() and of hide(), by the object of the panel or not.
StartShow(q, own) ==
    [q EXCEPT !.class = "collapsing", !.expanded = TRUE, !.busy = @ \/ own,
              !.ends = Append(@, [kind |-> "show", own |-> own])]

\* Mutant of StartHide: the flag is not set.
StartHideIdle(q) ==
    [q EXCEPT !.class = "collapsing", !.expanded = FALSE,
              !.ends = Append(@, [kind |-> "hide", own |-> TRUE])]

\* Mutant of StartHide: the trigger is left as it is.
StartHideSilent(q) ==
    [q EXCEPT !.class = "collapsing", !.busy = TRUE,
              !.ends = Append(@, [kind |-> "hide", own |-> TRUE])]

StartHide(q) ==
    [q EXCEPT !.class = "collapsing", !.expanded = FALSE, !.busy = TRUE,
              !.ends = Append(@, [kind |-> "hide", own |-> TRUE])]

\* hide() of the panel's object.
HidePanel(q) == IF q.busy \/ q.class # "in" THEN q ELSE StartHide(q)

\* addAriaAndCollapsedClass
Marked(q) == [q EXCEPT !.expanded = (q.class = "in")]

\* Plugin('hide') on a panel: the constructor of a new object toggles, so that a
\* panel whose first object was thrown away while it hides is shown again.
PluginHide(q) ==
    IF q.made THEN HidePanel(q)
    ELSE LET new == [Marked(q) EXCEPT !.made = TRUE, !.parent = FALSE, !.busy = FALSE]
         IN  IF q.class = "in" THEN StartHide(new) ELSE StartShow(new, TRUE)

\* data('bs.collapse', null)
Forgotten(q) ==
    [q EXCEPT !.made = FALSE, !.busy = FALSE,
              !.ends = [i \in DOMAIN q.ends |-> [q.ends[i] EXCEPT !.own = FALSE]]]

Actives(ps) == {a \in Panels : ps[a].class \in {"in", "collapsing"}}
First(S) == CHOOSE a \in S : \A b \in S : a <= b

\* Mutant of Blocked: transitions of the other panels are no obstacle.
NeverBlocked(ps) == FALSE

\* The transition of the first active panel keeps another one from opening.
Blocked(ps) ==
    LET actives == Actives(ps)
    IN  actives # {} /\ ps[First(actives)].made /\ ps[First(actives)].busy

\* The active panels are hidden; if the first had no object all objects are thrown away.
HideActives(ps) ==
    LET actives == Actives(ps)
        known == actives # {} /\ ps[First(actives)].made
    IN  [a \in Panels |->
            IF a \notin actives THEN ps[a]
            ELSE IF known THEN PluginHide(ps[a]) ELSE Forgotten(PluginHide(ps[a]))]

\* show() of the panel's object, which is in its data or, in the constructor, not yet.
ShowPanel(ps, p, parent, own) ==
    IF ~parent THEN [ps EXCEPT ![p] = StartShow(@, own)]
    ELSE IF Blocked(ps) THEN ps
    ELSE [HideActives(ps) EXCEPT ![p] = StartShow(@, own /\ @.made)]

\* toggle() of an object the panel has.
Toggle(ps, p) ==
    LET q == ps[p]
    IN  IF q.class = "in" THEN [ps EXCEPT ![p] = HidePanel(q)]
        ELSE IF q.busy THEN ps ELSE ShowPanel(ps, p, q.parent, TRUE)

\* new Collapse(p, {parent}): the triggers of all panels are marked, the object
\* toggles, and only then it is kept.
New(ps, p) ==
    LET marked == [a \in Panels |-> Marked(ps[a])]
        kept(q) == [Forgotten(q) EXCEPT !.made = TRUE, !.parent = TRUE]
    IN  IF ps[p].class = "in"
        THEN [marked EXCEPT ![p] = StartHide(kept(@))]
        ELSE IF Blocked(marked) THEN [marked EXCEPT ![p] = kept(@)]
        ELSE [HideActives(marked) EXCEPT ![p] = StartShow(kept(@), TRUE)]

-----------------------------------------------------------------------------
\* A click on the trigger of p.
Click(p) ==
    /\ clicks < MaxClicks
    /\ clicks' = clicks + 1
    /\ panel' = IF panel[p].made THEN Toggle(panel, p) ELSE New(panel, p)
    /\ UNCHANGED created

\* Mutant of PanelEnd: only the last callback comes.
PanelEndLast(p) ==
    LET q == panel[p]
    IN  /\ q.ends # <<>>
        /\ panel' = [panel EXCEPT ![p].class = IF q.ends[Len(q.ends)].kind = "show" THEN "in"
                                               ELSE "collapse",
                                  ![p].ends = <<>>]
        /\ UNCHANGED <<created, clicks>>

\* Mutant of PanelEnd: the class "collapse" is not given back.
PanelEndBare(p) ==
    LET q == panel[p]
        kinds == {q.ends[i].kind : i \in DOMAIN q.ends}
    IN  /\ q.ends # <<>>
        /\ panel' = [panel EXCEPT ![p].class = IF "show" \in kinds THEN "in" ELSE "none",
                                  ![p].busy = FALSE, ![p].ends = <<>>]
        /\ UNCHANGED <<created, clicks>>

\* The end of the transition, by the browser or emulated, calls every callback
\* that waits for it; complete of hide() takes no class "in" away.
PanelEnd(p) ==
    LET q == panel[p]
        kinds == {q.ends[i].kind : i \in DOMAIN q.ends}
    IN  /\ q.ends # <<>>
        /\ panel' = [panel EXCEPT
               ![p].class = IF "show" \in kinds THEN "in" ELSE "collapse",
               ![p].busy = @ /\ ~\E i \in DOMAIN q.ends : q.ends[i].own,
               ![p].ends = <<>>]
        /\ UNCHANGED <<created, clicks>>

PanelNext == \E p \in Panels : Click(p) \/ PanelEnd(p)

PanelSpec == PanelInit /\ [][PanelNext]_panelVars

(* Transitions end: emulateTransitionEnd sees to it. *)
PanelFairness == \A p \in Panels : WF_panelVars(PanelEnd(p))

-----------------------------------------------------------------------------
\* A panel is "collapsing" exactly while a transition has callbacks, and the
\* flag of an object is set exactly while one of them is its own: no click is
\* refused for ever because a flag stayed set (show, hide, complete).
NotStuck ==
    \A p \in Panels :
        LET q == panel[p]
        IN  /\ q.class = "collapsing" <=> q.ends # <<>>
            /\ q.busy <=> \E i \in DOMAIN q.ends : q.ends[i].own

Resting(p) == panel[p].ends = <<>>

\* Of the panels of an accordion at most one is open when all rest, however the
\* clicks fell into the transitions (show).
OneOpen ==
    (\A p \in Panels : Resting(p)) => Cardinality({p \in Panels : panel[p].class = "in"}) <= 1

\* A trigger shows whether its panel is open, when the panel rests
\* (addAriaAndCollapsedClass, show, hide).
TriggerAgrees ==
    \A p \in Panels : Resting(p) => (panel[p].expanded <=> panel[p].class = "in")

\* With objects of all panels: what a panel is when it rests, opens or hides.
Shut(p) == panel[p].class = "collapse" /\ ~panel[p].expanded /\ panel[p].ends = <<>>
Opened(p) == panel[p].class = "in" /\ panel[p].expanded /\ panel[p].ends = <<>>
Opening(p) == panel[p].class = "collapsing" /\ panel[p].expanded
              /\ panel[p].ends = <<[kind |-> "show", own |-> TRUE]>>
Hiding(p) == panel[p].class = "collapsing" /\ ~panel[p].expanded
             /\ panel[p].ends = <<[kind |-> "hide", own |-> TRUE]>>

\* One panel at most is open or opens; all objects know the accordion.
Ordered ==
    /\ \A p \in Panels :
          /\ panel[p].made /\ panel[p].parent
          /\ Shut(p) \/ Opened(p) \/ Opening(p) \/ Hiding(p)
    /\ \A p, q \in Panels :
          (Opened(p) \/ Opening(p)) /\ (Opened(q) \/ Opening(q)) => p = q

PanelIInv ==
    /\ PanelTypeOK /\ NotStuck
    /\ \A p \in Panels : ~panel[p].made => ~panel[p].busy
    /\ created => Ordered

\* No panel is left with its flag set, whoever made its object; and if the objects
\* exist from the beginning, at most one panel is open when all rest, and the triggers
\* tell which (show, hide).
AccordionInv == PanelIInv /\ (created => OneOpen /\ TriggerAgrees)

\* Every transition comes to its end, and the panel can be clicked again.
PanelsRest == \A p \in Panels : ~Resting(p) ~> Resting(p) /\ ~panel[p].busy
=============================================================================
