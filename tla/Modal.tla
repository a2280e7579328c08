------------------------------- MODULE Modal -------------------------------
(***************************************************************************)
(* The text sharing dialog of the storage page: Modal of bootstrap.js with *)
(* the options of view.html (class `fade', a backdrop, no data-api).       *)
(*                                                                         *)
(* show and hide return at once and leave callbacks behind that run when a *)
(* CSS transition ends.  one('bsTransitionEnd', f).emulateTransitionEnd(n) *)
(* binds f to a DOM node; the event comes from the browser if the node is  *)
(* displayed, or else from a timer after n milliseconds.  Nothing takes    *)
(* these callbacks back when the user changes his mind in between.  The    *)
(* callback that waits for .modal-dialog to slide in only moves the focus  *)
(* and is left out.                                                        *)
(***************************************************************************)
EXTENDS Naturals, Sequences, FiniteSets

CONSTANTS
    Backdrops,      \* backdrop elements, see the bound in ClickShow
    None,           \* $backdrop = null
    BackdropTicks,  \* BACKDROP_TRANSITION_DURATION, 150 ms
    ModalTicks      \* TRANSITION_DURATION, 300 ms

ASSUME ModalAssumption ==
    /\ {None, "element"} \cap Backdrops = {} /\ IsFiniteSet(Backdrops)
    /\ BackdropTicks \in Nat /\ ModalTicks \in Nat /\ BackdropTicks < ModalTicks

VARIABLE m   \* the Modal object and what it changes in the document

Nodes == Backdrops \cup {"element"}
Callbacks == {"opened", "hideModal", "closed", "callbackRemove"}

State ==
    [isShown  : BOOLEAN,
     visible  : BOOLEAN,                   \* the element is displayed
     in       : BOOLEAN,                   \* and has the class `in'
     open     : BOOLEAN,                   \* the body has the class `modal-open'
     padding  : Nat,                       \* scrollbar widths added to the body's padding
     backdrop : Backdrops \cup {None},     \* this.$backdrop
     dom      : SUBSET Backdrops,          \* backdrops inside the element
     trap     : BOOLEAN,                   \* focusin.bs.modal is bound
     pend     : [Nodes -> Seq(Callbacks)], \* callbacks waiting for bsTransitionEnd
     due      : [Nodes -> Nat],            \* ticks to the earliest timer of the node
     \* History, which no step depends on:
     hasty    : BOOLEAN,                   \* it was last opened before all had settled
     left     : SUBSET Backdrops,          \* backdrops of earlier hasty openings
     cut      : BOOLEAN]                   \* it was last closed before it had appeared

-----------------------------------------------------------------------------
\* one('bsTransitionEnd', callback).emulateTransitionEnd(ticks).  All timers of a
\* node have one duration and any end serves all callbacks, so the first counts.
WhenEnded(s, node, callback, ticks) ==
    [s EXCEPT !.pend[node] = Append(@, callback),
              !.due[node] = IF s.pend[node] = <<>> THEN ticks ELSE @]

\* The callback of hideModal, with resetScrollbar.
Closed(s) == [s EXCEPT !.open = FALSE, !.padding = 0]

\* backdrop(callback) when it is shown: a new element takes the place of $backdrop.
AddBackdrop(s, callback) ==
    LET b == CHOOSE x \in Backdrops : x \notin s.dom
    IN  WhenEnded([s EXCEPT !.backdrop = b, !.dom = @ \cup {b}], b, callback, BackdropTicks)

\* backdrop(callback) of hideModal.
DropBackdrop(s) ==
    IF s.isShown
    THEN AddBackdrop(s, "closed")
    ELSE IF s.backdrop # None
         THEN WhenEnded(s, s.backdrop, "callbackRemove", BackdropTicks)
         ELSE Closed(s)

\* jQuery's remove() also unbinds the callbacks of the element it removes.
RemoveBackdrop(s) ==
    IF s.backdrop = None
    THEN s
    ELSE [s EXCEPT !.dom = @ \ {s.backdrop}, !.pend[s.backdrop] = <<>>, !.backdrop = None]

\* The callback of show.  adjustBackdrop throws when there is no backdrop any more.
Opened(s) ==
    IF s.backdrop = None
    THEN [s EXCEPT !.visible = TRUE]
    ELSE [s EXCEPT !.visible = TRUE, !.in = TRUE, !.trap = TRUE]

\* Mutant of HideModal: the backdrop is forgotten.
HideModalOnly(s) == Closed([s EXCEPT !.visible = FALSE])

HideModal(s) == DropBackdrop([s EXCEPT !.visible = FALSE])

Call(s, callback) ==
    CASE callback = "opened"         -> Opened(s)
      [] callback = "hideModal"      -> HideModal(s)
      [] callback = "closed"         -> Closed(s)
      [] callback = "callbackRemove" -> Closed(RemoveBackdrop(s))

\* one unbinds a callback before it runs it.
Unbind(s, node) == [s EXCEPT !.pend[node] = IF @ = <<>> THEN @ ELSE Tail(@)]

(***************************************************************************)
(* bsTransitionEnd on a node: the callbacks that are bound to it run once, *)
(* in order, even those a callback before them unbinds.  The callback of   *)
(* show throws without a backdrop and keeps the callbacks after it from    *)
(* running; they wait for another end, or for the next timer.              *)
(***************************************************************************)
Dispatch(s, node, timer) ==
    LET calls == s.pend[node]
        after[k \in 0 .. Len(calls)] ==
            IF k = 0 THEN s ELSE Call(Unbind(after[k - 1], node), calls[k])
        thrown == {k \in 1 .. Len(calls) : calls[k] = "opened" /\ after[k - 1].backdrop = None}
    IN  IF thrown = {}
        THEN after[Len(calls)]
        ELSE [after[CHOOSE k \in thrown : \A j \in thrown : k <= j] EXCEPT !.due[node] = timer]

\* Mutant of Show: a dialog that is shown is shown again.
ShowAnyway(s) ==
    AddBackdrop([s EXCEPT !.isShown = TRUE, !.open = TRUE, !.padding = @ + 1], "opened")

\* show, on a page that is longer than the window.
Show(s) == IF s.isShown THEN s ELSE ShowAnyway(s)

\* Mutant of Hide: isShown is left to hideModal.
HideLater(s) ==
    IF ~ s.isShown
    THEN s
    ELSE WhenEnded([s EXCEPT !.in = FALSE, !.trap = FALSE],
                   "element", "hideModal", ModalTicks)

Hide(s) ==
    IF ~ s.isShown
    THEN s
    ELSE WhenEnded([s EXCEPT !.isShown = FALSE, !.in = FALSE, !.trap = FALSE,
                             !.cut = ~ s.visible],
                   "element", "hideModal", ModalTicks)

-----------------------------------------------------------------------------
DialogInit ==
    m = [isShown |-> FALSE, visible |-> FALSE, in |-> FALSE, open |-> FALSE, padding |-> 0,
         backdrop |-> None, dom |-> {}, trap |-> FALSE,
         pend |-> [n \in Nodes |-> <<>>], due |-> [n \in Nodes |-> 0],
         hasty |-> FALSE, left |-> {}, cut |-> FALSE]

Moving == {n \in Nodes : m.pend[n] # <<>>}
Quiet == Moving = {}

\* The dialog is off the screen and all that its closing began has ended.
Settled == Quiet /\ ~ m.visible

\* The history that an opening writes.
Noted ==
    IF m.isShown
    THEN m
    ELSE [m EXCEPT !.hasty = ~ Settled, !.left = IF Settled THEN m.dom ELSE @, !.cut = FALSE]

\* #showTextSharingBoxBtn, which the keyboard reaches even behind the dialog.  Each
\* opening may leave two backdrops behind; the model stops opening when they run out.
ClickShow ==
    /\ ~ m.isShown =>
          Cardinality(m.dom) + Len(m.pend["element"]) + 2 <= Cardinality(Backdrops)
    /\ m' = Show(Noted)

\* #closeBtn and #cancelBtn, the backdrop, Esc: all need the dialog on the screen.
ClickClose == m.visible /\ m' = Hide(m)

\* The answer to an earlier shareText/ closes the dialog whenever it comes.
Shared == m' = Hide(m)

\* The browser ends the transition of a node that is displayed.
TransitionEnd(n) ==
    /\ n \in Moving /\ m.visible
    /\ m' = Dispatch(m, n, m.due[n])

\* The timer of emulateTransitionEnd.
Timeout(n) ==
    /\ n \in Moving /\ m.due[n] = 0
    /\ \E timer \in 0 .. BackdropTicks : m' = Dispatch(m, n, timer)

\* Mutant of Tick: a timer that is due can be passed over.
TickBeyond ==
    /\ Moving # {}
    /\ m' = [m EXCEPT !.due = [n \in Nodes |-> IF n \in Moving THEN @[n] - 1 ELSE @[n]]]

\* Time passes, but not beyond a timer that is due.
Tick ==
    /\ Moving # {} /\ \A n \in Moving : m.due[n] > 0
    /\ m' = [m EXCEPT !.due = [n \in Nodes |-> IF n \in Moving THEN @[n] - 1 ELSE @[n]]]

DialogNext ==
    \/ ClickShow \/ ClickClose \/ Shared \/ Tick
    \/ \E n \in Nodes : TransitionEnd(n) \/ Timeout(n)

DialogSpec == DialogInit /\ [][DialogNext]_m

\* Timers run out; nothing is assumed of the user or of the browser's events.
DialogFairness == WF_m(Tick) /\ \A n \in Nodes : WF_m(Timeout(n))

-----------------------------------------------------------------------------
DialogTypeOK == m \in State

(***************************************************************************)
(* However opening and closing were mixed: when nothing moves and the      *)
(* dialog does not count as shown, the page scrolls again.                 *)
(***************************************************************************)
PageFreed == Quiet /\ ~m.isShown => ~m.open /\ m.padding = 0

(***************************************************************************)
(* When nothing moves, the dialog, its flag, its class `in', the focus it  *)
(* keeps, its backdrop and what it does to the page agree, unless the user *)
(* has last opened it before its closing was over.  But a dialog that was  *)
(* closed before it had appeared keeps the class and the focus.            *)
(***************************************************************************)
QuietAgrees ==
    Quiet =>
        /\ m.visible <=> m.isShown
        /\ m.open <=> m.isShown
        /\ m.padding = IF m.isShown THEN 1 ELSE 0
        /\ m.in <=> (m.isShown \/ m.cut)
        /\ m.trap <=> (m.isShown \/ m.cut)
        /\ m.dom = m.left \cup (IF m.isShown THEN {m.backdrop} ELSE {})

\* There is a backdrop as long as the dialog counts as shown, and never a second one
\* but those of hasty openings: the listener of `resize' and the callback of show use
\* $backdrop without a check.
OneBackdrop ==
    /\ Cardinality(m.dom \ m.left) <= 1
    /\ m.isShown => m.backdrop \in m.dom \ m.left

-----------------------------------------------------------------------------
\* A callback is still to come that gives the page back.
Closers == {"hideModal", "closed", "callbackRemove"}
Closes(calls) == \E k \in 1 .. Len(calls) : calls[k] \in Closers
ToClose(s) == \E n \in Nodes : Closes(s.pend[n])

\* A dialog that does not count as shown gives the page back.
Freeing(s) == ~s.isShown => (~s.open /\ s.padding = 0) \/ ToClose(s)

\* Every callback waits on a node of its own kind, and a backdrop is left for each that
\* may add one.
Kind(node) == IF node = "element" THEN {"hideModal"} ELSE Callbacks \ {"hideModal"}
Room(s) ==
    /\ \A n \in Nodes : s.pend[n] \in Seq(Kind(n))
    /\ Cardinality(s.dom) + Len(s.pend["element"]) + (IF s.isShown THEN 1 ELSE 0)
          <= Cardinality(Backdrops)

\* While the backdrop of the dialog is not in the page, the dialog is gone.
Gone ==
    /\ m.dom = m.left /\ ~m.isShown /\ ~m.visible /\ ~m.open /\ m.padding = 0
    /\ (m.in <=> m.cut) /\ (m.trap <=> m.cut)
    /\ \A n \in Nodes : m.pend[n] = <<>>

\* While backdrop b is there, the dialog opens, is open, or closes: before it has
\* appeared, with hideModal still to come, or with only its backdrop left.
Opening(b) ==
    /\ m.isShown /\ ~m.visible /\ m.due[b] <= BackdropTicks
    /\ m.pend[b] = <<"opened">> /\ m.pend["element"] = <<>>
Open(b) ==
    /\ m.isShown /\ m.visible /\ m.in /\ m.trap
    /\ m.pend[b] = <<>> /\ m.pend["element"] = <<>>
CutShort(b) ==
    /\ ~m.isShown /\ ~m.visible /\ m.cut /\ m.due[b] < m.due["element"]
    /\ m.pend[b] = <<"opened">> /\ m.pend["element"] = <<"hideModal">>
Closing(b) ==
    /\ ~m.isShown /\ m.visible /\ (m.in <=> m.cut) /\ (m.trap <=> m.cut)
    /\ m.pend[b] = <<>> /\ m.pend["element"] = <<"hideModal">>
Fading(b) ==
    /\ ~m.isShown /\ ~m.visible /\ (m.in <=> m.cut) /\ (m.trap <=> m.cut)
    /\ m.pend[b] = <<"callbackRemove">> /\ m.pend["element"] = <<>>

Present(b) ==
    /\ b \notin m.left /\ m.dom = m.left \cup {b} /\ m.backdrop = b
    /\ m.open /\ m.padding = 1
    /\ \A n \in Backdrops \ {b} : m.pend[n] = <<>>
    /\ Opening(b) \/ Open(b) \/ CutShort(b) \/ Closing(b) \/ Fading(b)

Phases == Gone \/ \E b \in Backdrops : Present(b)
DialogIInv == DialogTypeOK /\ Freeing(m) /\ Room(m) /\ (~m.hasty => Phases)

\* However opening and closing were mixed, the page scrolls again in the end.  From an
\* opening after all had settled to the next one before that, the dialog and what it
\* does to the page agree, and it has one backdrop (show, hide, backdrop).
DialogInv == DialogIInv /\ PageFreed /\ (~m.hasty => QuietAgrees /\ OneBackdrop)

-----------------------------------------------------------------------------
\* The dialog as its user sees it.
SeenAs ==
    CASE m.isShown /\ m.visible -> "open"
      [] m.isShown /\ ~ m.visible -> "opening"
      [] ~ m.isShown /\ m.open -> "closing"
      [] ~ m.isShown /\ ~ m.open -> "closed"
Seen == INSTANCE Dialog WITH phase <- SeenAs, covers <- m.visible, hasty <- m.hasty
ImplementsDialog == Seen!Spec
=============================================================================
