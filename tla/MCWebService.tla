---------------------------- MODULE MCWebService ----------------------------
(***************************************************************************)
(* WebService with the routes of the route table, for TLC.                  *)
(***************************************************************************)
EXTENDS WebService, TLC

Table == INSTANCE Routes WITH Segment <- STRING

\* The entries of the table that end in one of the handlers, one for each of
\* their methods.
RoutesTo(handlers) ==
  {[handler    |-> Table!RouteTable[i].handler,
    method     |-> m,
    public     |-> Table!RouteTable[i].public,
    permanent  |-> Table!RouteTable[i].permanent,
    hasStorage |-> \E k \in DOMAIN Table!RouteTable[i].pattern.segs :
                     Table!RouteTable[i].pattern.segs[k]
                       = Table!Variable.storage,
    hasFile    |-> \E k \in DOMAIN Table!RouteTable[i].pattern.segs :
                     Table!RouteTable[i].pattern.segs[k]
                       = Table!Variable.file]
     : <<i, m>> \in {<<i, m>> \in (DOMAIN Table!RouteTable) \X Method :
                       /\ Table!RouteTable[i].handler \in handlers
                       /\ m \in Table!RouteTable[i].methods}}

AllRoutes == RoutesTo(Handler)

\* Two requests that move tokens: one hands out a new one, one refreshes it.
SessionRoutes ==
  {route \in RoutesTo({"Login", "View"}) :
     ~route.permanent /\ (route.handler = "Login" => route.method = "POST")}

\* A bound: of the requests under way, one at a time has panicked.
OnePanic ==
  \A r, q \in Req :
    {broke[r], broke[q]} \subseteq {"panic", "swallowed", "early"} => r = q

Interchangeable == Permutations(Browser) \cup Permutations(Storage)
                     \cup Permutations(Token) \cup Permutations(Req)
                     \cup Permutations(File)
=============================================================================
