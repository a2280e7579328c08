---------------------------- MODULE MCLifecycle ----------------------------
(***************************************************************************)
(* The life of the process for TLC: ports below, within and above what TCP *)
(* has, periods around zero, two requests and two post actions.            *)
(***************************************************************************)
EXTENDS Lifecycle

MCPorts == {0, 8080, 70000}
MCPeriods == {-1, 0, 1}
=============================================================================
