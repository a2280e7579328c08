------------------------------- MODULE Dialog -------------------------------
(***************************************************************************)
(* A dialog as its user sees it: it opens, is open, closes, and is closed; *)
(* what was begun comes to its end, and a closed dialog covers nothing.    *)
(* A user who opens it while it is closing gets no promise until he finds  *)
(* it closed and opens it again.                                           *)
(***************************************************************************)
VARIABLES phase, covers, hasty

vars == <<phase, covers, hasty>>

Phases == {"closed", "opening", "open", "closing"}

Init == phase = "closed" /\ covers = FALSE /\ hasty = FALSE

Show == phase = "closed" /\ ~covers /\ phase' = "opening" /\ covers' = FALSE /\ hasty' = FALSE

Appear == ~hasty /\ phase = "opening" /\ phase' = "open" /\ covers' = TRUE /\ hasty' = FALSE

\* Closing is possible at any time, even before the dialog has appeared.
Hide ==
    ~hasty /\ phase \in {"opening", "open"} /\ phase' = "closing" /\ UNCHANGED <<covers, hasty>>

\* While it closes the dialog disappears; one that was opening may appear first.
Flash == ~hasty /\ phase = "closing" /\ ~covers /\ covers' = TRUE /\ UNCHANGED <<phase, hasty>>
Vanish == ~hasty /\ phase = "closing" /\ covers /\ covers' = FALSE /\ UNCHANGED <<phase, hasty>>
Finish == ~hasty /\ phase = "closing" /\ phase' = "closed" /\ covers' = FALSE /\ hasty' = FALSE

\* Opening while it closes, and what comes of it.
Rush == (hasty \/ phase = "closing") /\ hasty' = TRUE /\ phase' \in Phases /\ covers' \in BOOLEAN

Next == Show \/ Appear \/ Hide \/ Flash \/ Vanish \/ Finish \/ Rush

\* What was begun is finished, unless the user is hasty.
Fairness == WF_vars(Appear) /\ WF_vars(Finish)
Spec == Init /\ [][Next]_vars /\ Fairness
=============================================================================
