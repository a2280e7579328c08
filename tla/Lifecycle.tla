------------------------------ MODULE Lifecycle ------------------------------
(***************************************************************************)
(* The life of the process: service.Run, which reads the configuration,    *)
(* sets the service up, serves HTTP from a goroutine of its own beside the *)
(* rpc service, and when that ends shuts the HTTP server down and runs the *)
(* post actions.  The rpc service and net/http are modelled as Run uses    *)
(* them.  The web service registers no post action, others may.            *)
(***************************************************************************)
EXTENDS Integers, FiniteSets

CONSTANTS
    Requests,   \* requests of browsers
    Ports,      \* values of port in the configuration
    Periods,    \* values of session_expire_period
    Actions,    \* number of post actions that setup registers
    SetupFails  \* whether setup may fail

ASSUME ActionsAssumption == Actions \in Nat /\ SetupFails \in BOOLEAN
ASSUME ConfigAssumption == Ports \subseteq Int /\ Periods \subseteq Int

VARIABLES
    cfg,       \* the configuration file and its contents, a record
    pc,        \* where Run is
    http,      \* the HTTP server and its goroutine
    inflight,  \* requests whose handlers run
    reason,    \* why Run ends
    ran,       \* post actions that have run
    cut        \* history: requests whose handlers died with the process

vars == <<cfg, pc, http, inflight, reason, ran, cut>>

Config == [readable : BOOLEAN, wellFormed : BOOLEAN, host : BOOLEAN, period : Int, port : Int]

TypeOK ==
    /\ cfg \in Config
    /\ pc \in {"load", "setup", "run", "drain", "post", "exited"}
    /\ http \in {"none", "starting", "listening", "failed", "closed"}
    /\ inflight \subseteq Requests /\ cut \subseteq Requests
    /\ reason \in {"none", "config", "setup", "rpc", "timeout", "stopped"}
    /\ ran \in 0 .. Actions

Init ==
    /\ cfg \in [readable : BOOLEAN, wellFormed : BOOLEAN, host : BOOLEAN,
                period : Periods, port : Ports]
    /\ pc = "load" /\ http = "none"
    /\ inflight = {} /\ cut = {}
    /\ reason = "none" /\ ran = 0

-----------------------------------------------------------------------------
\* Mutant of Valid: the period is not looked at.
ValidAnyPeriod == cfg.readable /\ cfg.wellFormed /\ cfg.host /\ cfg.port > 0

\* loadConfig, with the two Validate methods.
Valid == cfg.readable /\ cfg.wellFormed /\ cfg.host /\ cfg.period > 0 /\ cfg.port > 0

\* The process ends, and with it the HTTP server and its handlers.
Exit(why) ==
    /\ pc' = "exited" /\ reason' = why
    /\ http' = "none" /\ inflight' = {} /\ cut' = inflight

LoadConfig ==
    /\ pc = "load"
    /\ IF Valid
       THEN pc' = "setup" /\ UNCHANGED <<http, inflight, reason, cut>>
       ELSE Exit("config")
    /\ UNCHANGED <<cfg, ran>>

\* setup, and the start of the goroutine that listens.
Setup ==
    /\ pc = "setup"
    /\ \/ /\ pc' = "run" /\ http' = "starting"
          /\ UNCHANGED <<inflight, reason, cut>>
       \/ SetupFails /\ Exit("setup")
    /\ UNCHANGED <<cfg, ran>>

\* ListenAndServe.  Its error is logged, and Run does not learn of it.
Listen ==
    /\ http = "starting"
    /\ http' \in IF cfg.port > 65535 THEN {"failed"} ELSE {"listening", "failed"}
    /\ UNCHANGED <<cfg, pc, inflight, reason, ran, cut>>

\* A request counts from its connection on: one that was accepted before Shutdown may
\* still be sent after it.
Arrive(r) ==
    /\ http = "listening"
    /\ inflight' = inflight \cup {r}
    /\ UNCHANGED <<cfg, pc, http, reason, ran, cut>>

Answer(r) ==
    /\ r \in inflight
    /\ inflight' = inflight \ {r}
    /\ UNCHANGED <<cfg, pc, http, reason, ran, cut>>

\* srv.Run returns nil, after a signal: Shutdown closes the listener, or keeps the
\* goroutine from opening one.
RpcStops ==
    /\ pc = "run"
    /\ pc' = "drain"
    /\ http' = IF http = "failed" THEN http ELSE "closed"
    /\ UNCHANGED <<cfg, inflight, reason, ran, cut>>

\* Mutant of RpcFails: the post actions are not deferred.
RpcFailsAtOnce ==
    /\ pc = "run"
    /\ Exit("rpc")
    /\ UNCHANGED <<cfg, ran>>

\* srv.Run returns an error: Run ends without Shutdown.
RpcFails ==
    /\ pc = "run"
    /\ pc' = "post" /\ reason' = "rpc"
    /\ UNCHANGED <<cfg, http, inflight, ran, cut>>

\* Mutant of Drained: the connections are closed as they are.
DrainedAtOnce ==
    /\ pc = "drain"
    /\ pc' = "post" /\ reason' = "stopped"
    /\ UNCHANGED <<cfg, http, inflight, ran, cut>>

\* Shutdown returns nil: no handler runs any more.
Drained ==
    /\ pc = "drain" /\ inflight = {}
    /\ pc' = "post" /\ reason' = "stopped"
    /\ UNCHANGED <<cfg, http, inflight, ran, cut>>

\* Mutant of Deadline: a context without a timeout.
DeadlineNever == FALSE /\ UNCHANGED vars

\* The minute is over and Shutdown returns the error of its context.
Deadline ==
    /\ pc = "drain"
    /\ pc' = "post" /\ reason' = "timeout"
    /\ UNCHANGED <<cfg, http, inflight, ran, cut>>

\* Mutant of PostAction: one too many.
PostActionBeyond ==
    /\ pc = "post" /\ ran <= Actions
    /\ ran' = ran + 1
    /\ UNCHANGED <<cfg, pc, http, inflight, reason, cut>>

\* One turn of the loop of runPostActions, which is deferred once setup is done.
PostAction ==
    /\ pc = "post" /\ ran < Actions
    /\ ran' = ran + 1
    /\ UNCHANGED <<cfg, pc, http, inflight, reason, cut>>

\* Run returns, and main with it.
Return ==
    /\ pc = "post" /\ ran = Actions
    /\ Exit(reason)
    /\ UNCHANGED <<cfg, ran>>

Next ==
    \/ LoadConfig \/ Setup \/ Listen
    \/ \E r \in Requests : Arrive(r) \/ Answer(r)
    \/ RpcStops \/ RpcFails
    \/ Drained \/ Deadline \/ PostAction \/ Return

Spec == Init /\ [][Next]_vars

\* The goroutine of Run goes on where it can, and the minute passes.  Of handlers
\* and of the rpc service nothing is assumed: a handler may wait for the gateway
\* for ever.
FairSpec ==
    /\ Spec
    /\ WF_vars(LoadConfig) /\ WF_vars(Setup)
    /\ WF_vars(Drained) /\ WF_vars(Deadline)
    /\ WF_vars(PostAction) /\ WF_vars(Return)

-----------------------------------------------------------------------------
\* No request is served under a configuration that lacks the gateway, or gives
\* cookies no time to live (config.Validate): validation comes before all
\* listening.
OnlyConfigured == inflight # {} => cfg.host /\ cfg.period > 0 /\ cfg.port > 0

\* After an orderly stop the post actions find no handler at work and no server
\* that could start one: the deferred call comes after Shutdown (Run).
PostActionsLast ==
    ran > 0 /\ reason = "stopped" => inflight = {} /\ http \in {"closed", "failed", "none"}

\* An orderly stop cuts no request off: only a minute's silence of the gateway or
\* a failure of the rpc service does (Run, Shutdown).
OnlyLateCut == cut # {} => reason \in {"timeout", "rpc"}

\* Every way out of Run after setup runs each post action once, and no way out
\* before does (the place of the defer in Run).
ActionsRunOnce ==
    pc = "exited" => ran = IF reason \in {"config", "setup"} THEN 0 ELSE Actions

\* The order of things: typed, configured before served, post actions once and last,
\* and no request cut off without need.
StopInv == TypeOK /\ OnlyConfigured /\ PostActionsLast /\ OnlyLateCut /\ ActionsRunOnce

\* Once the rpc service has ended the process ends, although a handler may wait
\* for the gateway for ever (the timeout of Shutdown's context).
StopsAtLast == pc \in {"drain", "post"} ~> pc = "exited"
=============================================================================
