------------------------------- MODULE MCPage -------------------------------
(***************************************************************************)
(* The parts of the storage page's scripts beside the upload queue, for    *)
(* TLC: the thumbnails, their drawing, the start of the page and the text  *)
(* sharing dialog.  They share no state, so a behaviour follows one part   *)
(* and leaves the others where they begin.                                 *)
(***************************************************************************)
EXTENDS ThumbnailQueue, ThumbnailImage, Startup, Modal

CONSTANTS
    i1, i2, vector, faulty,         \* images
    b1, b2, b3,                     \* elements of class "dropzone"
    d1, d2, d3, d4, d5, d6                \* backdrops

\* Four images, one of them an SVG and one of them broken.
MCImages == {i1, i2, vector, faulty}
MCSvg == {vector}
MCBroken == {faulty}

\* Pictures of up to six by six pixels with every pattern of opaque rows, boxes
\* smaller and larger than they are and boxes with missing sides.
MCSizes == 1 .. 6
MCBoxes == {0, 2, 3, 5}

\* Three boxes, one more than an exception and a box after it need, and browsers
\* with listeners (old ones with doScroll) and without.
MCAreas == <<b1, b2, b3>>
MCBrowsers == {k \in Kinds : k.listeners \/ ~k.capable}

\* A tick stands for 150 ms, so the two durations of bootstrap.js are one and two
\* ticks.  Six backdrops let the user open the dialog too soon and, after two that
\* are left in the page, open it again.
MCBackdrops == {d1, d2, d3, d4, d5, d6}

VARIABLE part  \* the part of the page that is followed

-----------------------------------------------------------------------------
PageInit ==
    /\ part \in {"thumbnails", "drawing", "start", "dialog"}
    /\ Init /\ DialogInit
    /\ IF part = "drawing" THEN DrawInit
       ELSE /\ width = 1 /\ height = 1 /\ boxWidth = 0 /\ boxHeight = 0 /\ opaque = {}
            /\ DrawInit
    /\ IF part = "start" THEN StartInit
       ELSE /\ browser = [listeners |-> TRUE, doScroll |-> FALSE, capable |-> TRUE]
            /\ off = {} /\ noUrl = {}
            /\ StartInit

PageNext ==
    \/ part = "thumbnails" /\ Next /\ UNCHANGED <<part, drawVars, startVars, m>>
    \/ part = "drawing" /\ DrawNext /\ UNCHANGED <<part, vars, startVars, m>>
    \/ part = "start" /\ StartNext /\ UNCHANGED <<part, vars, drawVars, m>>
    \/ part = "dialog" /\ DialogNext /\ UNCHANGED <<part, vars, drawVars, startVars>>

PageSpec == PageInit /\ [][PageNext]_<<part, vars, drawVars, startVars, m>>

\* The fairness of each part; thumbnails and dialog have nothing to do where they begin.
PageFairSpec ==
    /\ PageSpec
    /\ WF_vars(Timer) /\ WF_vars(ReaderLoads) /\ WF_vars(ImageLoads)
    /\ WF_startVars(part = "start" /\ StartNext)
    /\ DialogFairness

=============================================================================
