----------------------------- MODULE UploadPool -----------------------------
(***************************************************************************)
(* What an upload queue promises, without lists, timers and documents:     *)
(* files wait in the order they were queued, at most Slots of them are     *)
(* being uploaded, and a file is started only when every file before it is *)
(* started too.  Whenever uploads end, the free slots are filled.          *)
(*                                                                         *)
(* <<f, g>> \in before says that f was queued before g.                    *)
(***************************************************************************)
EXTENDS Naturals, FiniteSets

CONSTANTS Files, Slots
VARIABLES waiting, before, active

vars == <<waiting, before, active>>

Init == waiting = {} /\ before = {} /\ active = {}

\* The files in S still wait, in the order they had.
Keep(S) ==
    /\ waiting' = S
    /\ before' = before \cap (S \X S)

\* A file is queued behind all others.
Admit(f) ==
    /\ f \notin active \cup waiting
    /\ waiting' = waiting \cup {f}
    /\ before' = before \cup (waiting \X {f})
    /\ UNCHANGED active

\* A file is given up before it was started.
Withdraw(f) ==
    /\ f \in waiting
    /\ Keep(waiting \ {f})
    /\ UNCHANGED active

\* Some uploads end and the first waiting files take the free slots, all of them.
Serve(ended) ==
    \E first \in SUBSET waiting :
        /\ \A f \in first : \A g \in waiting : <<g, f>> \in before => g \in first
        /\ Keep(waiting \ first)
        /\ active' = (active \ ended) \cup first
        /\ Cardinality(active') <= Slots
        /\ Cardinality(active') = Slots \/ waiting' = {}

\* The document is replaced.
Drop == Keep({}) /\ active' = {}

Next ==
    \/ \E f \in Files : Admit(f) \/ Withdraw(f)
    \/ \E ended \in SUBSET active : Cardinality(ended) <= 1 /\ Serve(ended)
    \/ Drop

Spec == Init /\ [][Next]_vars
=============================================================================
