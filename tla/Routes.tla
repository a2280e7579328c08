------------------------------- MODULE Routes -------------------------------
(***************************************************************************)
(* The route table of the web service and the router that serves it: what  *)
(* internal/router registers on the gorilla/mux router that                *)
(* service.Run creates, how that router picks one entry for a request, and  *)
(* which parameters the entry hands to its handler.                         *)
(*                                                                         *)
(* A path is the sequence of what stands between its slashes together with  *)
(* whether it ends in a slash; the root "/" has no segment and ends in a    *)
(* slash.  Segments are the strings of the table and whatever names an      *)
(* instance adds; what a name is spelled like is left out.                  *)
(***************************************************************************)
EXTENDS Naturals, Sequences, FiniteSets

CONSTANT Segment   \* what may stand between two slashes of a path

Path == [segs : Seq(Segment), slash : BOOLEAN]

Root == [segs |-> <<>>, slash |-> TRUE]

\* The segments that cleaning leaves out or that take one back.
Dots == {"", ".", ".."}

\* The words that the table and the handlers spell out.
Words == {"metrics", "res", "register", "login", "common", "index.html",
          "permanent", "upload", "remove", "shareText"}

ASSUME SegmentAssumption == Dots \cup Words \subseteq Segment

-----------------------------------------------------------------------------
(* The table.                                                              *)

Variable == [storage |-> "{storage}", file |-> "{file}"]

IsVariable(seg) == seg \in {Variable.storage, Variable.file}

\* One entry: a pattern ending in a slash or not, matched as a whole or as a
\* prefix, the methods it serves, its two flags and its handler.
Entry(segs, slash, methods, handler) ==
  [pattern |-> [segs |-> segs, slash |-> slash], prefix |-> FALSE,
   methods |-> methods, public |-> FALSE, permanent |-> FALSE,
   handler |-> handler]

Public(entry) == [entry EXCEPT !.public = TRUE]

Permanent(entry) == [entry EXCEPT !.permanent = TRUE]

AnyMethod == {"GET", "POST"}

\* /metrics/ is registered by service.Run before the service's own routes and
\* with no method restriction.
Metrics == Entry(<<"metrics">>, TRUE, AnyMethod, "Metrics")

\* The service's own routes, in registration order.
RouteTable == LET S == Variable.storage
                  F == Variable.file
              IN
  << Metrics,
     Public(Entry(<<>>, TRUE, {"GET"}, "RedirectToCommon")),
     [Public(Entry(<<"res">>, TRUE, {"GET"}, "Resources"))
        EXCEPT !.prefix = TRUE],
     Public(Entry(<<"register">>, TRUE, AnyMethod, "Register")),
     Public(Entry(<<"login", S>>, TRUE, AnyMethod, "Login")),
     Entry(<<S, "index.html">>, FALSE, {"GET"}, "IndexHTML"),
     Permanent(Entry(<<S, "permanent", "index.html">>, FALSE, {"GET"},
                     "IndexHTML")),
     Permanent(Entry(<<S, "permanent", F>>, TRUE, {"GET"}, "GetFile")),
     Permanent(Entry(<<S, "permanent">>, TRUE, {"GET"}, "View")),
     Entry(<<S, F>>, TRUE, {"GET"}, "GetFile"),
     Entry(<<S>>, TRUE, {"GET"}, "View"),
     Entry(<<S, "upload">>, TRUE, {"POST"}, "Upload"),
     Permanent(Entry(<<S, "permanent", "upload">>, TRUE, {"POST"}, "Upload")),
     Entry(<<S, "remove">>, TRUE, {"POST"}, "Remove"),
     Permanent(Entry(<<S, "permanent", "remove">>, TRUE, {"POST"}, "Remove")),
     Entry(<<S, "shareText">>, TRUE, {"POST"}, "ShareText"),
     Permanent(Entry(<<S, "permanent", "shareText">>, TRUE, {"POST"},
                     "ShareText")) >>

-----------------------------------------------------------------------------
(* Matching.                                                               *)

\* A variable stands for one non-empty segment.  The optional slash the
\* router adds to every whole-path pattern makes the final slash irrelevant
\* here; a prefix pattern demands the slash that ends it.
PathMatches(entry, path) ==
  LET pat == entry.pattern.segs
      fits(n) == \A k \in 1..n : IsVariable(pat[k]) \/ pat[k] = path.segs[k]
  IN  IF entry.prefix
        THEN /\ Len(path.segs) >= Len(pat)
             /\ fits(Len(pat))
             /\ Len(path.segs) > Len(pat) \/ path.slash
        ELSE /\ Len(path.segs) = Len(pat)
             /\ fits(Len(pat))

\* The entries that serve the request.  An entry whose path fits but whose
\* method does not is passed over, and only remembered for the 405 answer.
Serving(method, path) ==
  {i \in DOMAIN RouteTable : /\ PathMatches(RouteTable[i], path)
                             /\ method \in RouteTable[i].methods}

FirstOf(S) == CHOOSE i \in S : \A j \in S : i <= j

NotServed(path) ==
  IF \E i \in DOMAIN RouteTable : PathMatches(RouteTable[i], path)
    THEN "MethodNotAllowed"
    ELSE "NotFound"

\* Mutant of WrongSlash: StrictSlash is not set.
SlashIgnored(entry, path) == FALSE

\* With StrictSlash the chosen entry answers with a redirect when the path
\* and the pattern disagree on the final slash; prefix patterns never do.
WrongSlash(entry, path) ==
  ~entry.prefix /\ entry.pattern.slash # path.slash

\* Mutant of ToggleSlash: a slash is only ever taken away.
SlashDropped(path) == [path EXCEPT !.slash = FALSE]

ToggleSlash(path) == [path EXCEPT !.slash = ~path.slash]

\* What cleaning keeps of the first n segments: empty and "." segments vanish
\* and ".." takes back the one before it.
Kept(segs) ==
  LET back(s) == SubSeq(s, 1, Len(s) - 1)
      kept[n \in 0..Len(segs)] ==
        IF n = 0 THEN <<>>
        ELSE CASE segs[n] \in {"", "."} -> kept[n - 1]
               [] segs[n] = ".."        -> back(kept[n - 1])
               [] OTHER -> Append(kept[n - 1], segs[n])
  IN  kept

\* cleanPath: a final slash is kept, and what is left of nothing is the root.
CleanPath(path) ==
  LET segs == Kept(path.segs)[Len(path.segs)]
  IN  IF segs = <<>> THEN Root ELSE [segs |-> segs, slash |-> path.slash]

-----------------------------------------------------------------------------
(* What the chosen entry is told about the request.                        *)

NoName == ""

VariableValue(entry, path, v) ==
  LET at == {k \in DOMAIN entry.pattern.segs : entry.pattern.segs[k] = v}
  IN  IF at = {} THEN NoName ELSE path.segs[FirstOf(at)]

\* storeRouterParametes: the permanent flag is only stored for entries that
\* name a storage; a missing value is read back as "" or FALSE.
StoredParameters(entry, path) ==
  LET storage == VariableValue(entry, path, Variable.storage)
  IN  [storage   |-> storage,
       public    |-> entry.public,
       permanent |-> storage # NoName /\ entry.permanent,
       file      |-> VariableValue(entry, path, Variable.file)]

\* The router's answer: a redirect to another path, an error page, or a
\* handler with its parameters.
RedirectTo(path) == [kind |-> "redirect", path |-> path]

Dispatch(method, path) ==
  LET clean   == CleanPath(path)
      serving == Serving(method, path)
      entry   == RouteTable[FirstOf(serving)]
  IN  CASE clean # path -> RedirectTo(clean)
        [] clean = path /\ serving = {} -> [kind |-> NotServed(path)]
        [] OTHER ->
             IF WrongSlash(entry, path)
               THEN RedirectTo(ToggleSlash(path))
               ELSE [kind    |-> "handler",
                     handler |-> entry.handler,
                     sp      |-> StoredParameters(entry, path)]
=============================================================================
