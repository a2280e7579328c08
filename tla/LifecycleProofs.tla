-------------------------- MODULE LifecycleProofs --------------------------
(***************************************************************************)
(* The order in which Run ends things, for any number of requests and post *)
(* actions and every configuration.                                        *)
(***************************************************************************)
EXTENDS Lifecycle, TLAPS

\* What holds in each part of Run.
Stages ==
    /\ pc \in {"setup", "run", "drain", "post"} => Valid
    /\ pc \in {"load", "setup", "exited"} => http = "none" /\ inflight = {}
    /\ pc = "drain" => http \in {"closed", "failed"}
    /\ pc \in {"load", "setup", "run", "drain"} => reason = "none" /\ ran = 0 /\ cut = {}
    /\ pc = "post" => reason \in {"rpc", "timeout", "stopped"} /\ cut = {}

\* An orderly stop has nothing at work.
Stopped == reason = "stopped" => inflight = {} /\ http \in {"closed", "failed", "none"}

IInv == TypeOK /\ Stages /\ Stopped /\ OnlyLateCut /\ ActionsRunOnce

\* IInv holds wherever Run is.
THEOREM Invariance == Spec => []IInv
  <1>1. ASSUME Init PROVE IInv
    <2>1. cfg \in Config
      BY <1>1, ConfigAssumption DEF Init, Config
    <2>2. TypeOK
      BY <1>1, <2>1, ActionsAssumption DEF Init, TypeOK
    <2>3. Stages /\ Stopped
      BY <1>1 DEF Init, Stages, Stopped
    <2>4. OnlyLateCut /\ ActionsRunOnce
      BY <1>1 DEF Init, OnlyLateCut, ActionsRunOnce
    <2> QED
      BY <2>2, <2>3, <2>4 DEF IInv
  <1>2. IInv /\ [Next]_vars => IInv'
    <2> SUFFICES ASSUME IInv, [Next]_vars PROVE IInv'
      OBVIOUS
    <2> USE ActionsAssumption DEF IInv, TypeOK, Stages, Stopped, OnlyLateCut, ActionsRunOnce
    <2>1. CASE LoadConfig
      BY <2>1 DEF LoadConfig, Exit, Valid
    <2>2. CASE Setup
      BY <2>2 DEF Setup, Exit, Valid
    <2>3. CASE Listen
      BY <2>3 DEF Listen, Valid
    <2>4. ASSUME NEW r \in Requests, Arrive(r) PROVE IInv'
      BY <2>4 DEF Arrive, Valid
    <2>5. ASSUME NEW r \in Requests, Answer(r) PROVE IInv'
      BY <2>5 DEF Answer, Valid
    <2>6. CASE RpcStops
      BY <2>6 DEF RpcStops, Valid
    <2>7. CASE RpcFails
      BY <2>7 DEF RpcFails, Valid
    <2>8. CASE Drained
      BY <2>8 DEF Drained, Valid
    <2>9. CASE Deadline
      BY <2>9 DEF Deadline, Valid
    <2>10. CASE PostAction
      BY <2>10 DEF PostAction, Valid
    <2>11. CASE Return
      BY <2>11 DEF Return, Exit, Valid
    <2>12. CASE UNCHANGED vars
      BY <2>12 DEF vars, Valid
    <2> QED
      BY <2>1, <2>2, <2>3, <2>4, <2>5, <2>6, <2>7, <2>8, <2>9, <2>10, <2>11, <2>12 DEF Next
  <1> QED
    BY <1>1, <1>2, PTL DEF Spec

\* The variables of Run keep their types.
THEOREM TypeCorrect == Spec => []TypeOK
  <1>1. IInv => TypeOK
    BY DEF IInv
  <1> QED
    BY <1>1, Invariance, PTL

\* OnlyConfigured for every configuration: validation comes before serving.
THEOREM ServedOnlyConfigured == Spec => []OnlyConfigured
  <1>1. IInv => OnlyConfigured
    BY DEF IInv, TypeOK, Stages, OnlyConfigured, Valid
  <1> QED
    BY <1>1, Invariance, PTL

\* PostActionsLast for any number of post actions and requests.
THEOREM PostActionsComeLast == Spec => []PostActionsLast
  <1>1. IInv => PostActionsLast
    BY DEF IInv, Stopped, PostActionsLast
  <1> QED
    BY <1>1, Invariance, PTL

\* OnlyLateCut for any number of requests: an orderly stop cuts none off.
THEOREM OrderlyStopCutsNothing == Spec => []OnlyLateCut
  <1>1. IInv => OnlyLateCut
    BY DEF IInv
  <1> QED
    BY <1>1, Invariance, PTL

\* ActionsRunOnce for any number of post actions.
THEOREM EachActionOnce == Spec => []ActionsRunOnce
  <1>1. IInv => ActionsRunOnce
    BY DEF IInv
  <1> QED
    BY <1>1, Invariance, PTL

\* StopInv for any number of requests and post actions and every configuration.
THEOREM OrderKept == Spec => []StopInv
  <1>1. TypeOK /\ OnlyConfigured /\ PostActionsLast /\ OnlyLateCut /\ ActionsRunOnce => StopInv
    BY DEF StopInv
  <1> QED
    BY <1>1, TypeCorrect, ServedOnlyConfigured, PostActionsComeLast, OrderlyStopCutsNothing,
       EachActionOnce, PTL
=============================================================================
