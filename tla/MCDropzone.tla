----------------------------- MODULE MCDropzone -----------------------------
(***************************************************************************)
(* The upload queue for TLC: four files, one of them too big and one       *)
(* hidden, and two slots, the library's default and what the page keeps.   *)
(***************************************************************************)
EXTENDS Dropzone

CONSTANTS f1, f2, f3, big
=============================================================================
