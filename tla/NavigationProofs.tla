-------------------------- MODULE NavigationProofs --------------------------
(***************************************************************************)
(* Theorems about Navigation for all names of storages and files and all   *)
(* paths a user may enter.                                                 *)
(***************************************************************************)
EXTENDS Navigation, WellFoundedInduction, SequenceTheorems, TLAPS

-----------------------------------------------------------------------------
(* Cleaning a path.                                                        *)

\* A set of numbers that has 0 and the successor of each of its numbers has all.
LEMMA AllNumbers ==
    ASSUME NEW S \in SUBSET Nat, 0 \in S, \A n \in S : n + 1 \in S
    PROVE  \A n \in Nat : n \in S
  <1> DEFINE U == Nat \ S
             R == OpToRel(<, Nat)
  <1>1. SUFFICES ASSUME U # {} PROVE FALSE
    OBVIOUS
  <1>2. \E m \in U : \A i \in U : ~ (<<i, m>> \in R)
    BY <1>1, WFMin, NatLessThanWellFounded
  <1>3. \A i, m \in Nat : <<i, m>> \in R <=> i < m
    BY DEF OpToRel
  <1> HIDE DEF R
  <1>4. PICK m \in U : \A i \in U : ~ (i < m)
    BY <1>2, <1>3
  <1>5. m \in Nat /\ m # 0 /\ m - 1 \in Nat
    BY <1>4
  <1>6. m - 1 \in S
    BY <1>4, <1>5
  <1>7. (m - 1) + 1 \in S
    BY <1>6
  <1> QED
    BY <1>4, <1>5, <1>7

\* What one more segment makes of the segments that were kept.
Keep(kept, seg) ==
    CASE seg \in {"", "."} -> kept
      [] seg = ".."        -> SubSeq(kept, 1, Len(kept) - 1)
      [] OTHER             -> Append(kept, seg)

\* The recursive definition of Kept defines a function.
LEMMA KeptDef ==
    ASSUME NEW segs \in Seq(Segment)
    PROVE  Kept(segs) =
             [n \in 0..Len(segs) |->
                IF n = 0 THEN <<>> ELSE Keep(Kept(segs)[n - 1], segs[n])]
  <1> DEFINE F(f, m) == [n \in 0..m |-> IF n = 0 THEN <<>> ELSE Keep(f[n - 1], segs[n])]
             S == {m \in Nat : \E f : f = F(f, m)}
  <1>0. Len(segs) \in Nat
    OBVIOUS
  <1>1. 0 \in S
    <2> DEFINE f == [n \in 0..0 |-> <<>>]
    <2>1. f = F(f, 0)
      OBVIOUS
    <2> QED
      BY <2>1
  <1>2. ASSUME NEW m \in Nat, \E f : f = F(f, m) PROVE \E g : g = F(g, m + 1)
    <2>1. PICK f : f = F(f, m)
      BY <1>2
    <2> DEFINE g == [n \in 0..m + 1 |-> IF n = m + 1 THEN Keep(f[m], segs[m + 1]) ELSE f[n]]
    <2>2. \A n \in 0..m + 1 : g[n] = IF n = 0 THEN <<>> ELSE Keep(g[n - 1], segs[n])
      <3> TAKE n \in 0..m + 1
      <3>1. CASE n = m + 1
        <4>1. g[n] = Keep(f[m], segs[m + 1]) /\ n # 0 /\ n - 1 = m
          BY <3>1
        <4>2. g[m] = f[m]
          OBVIOUS
        <4> QED
          BY <4>1, <4>2, <3>1
      <3>2. CASE n # m + 1
        <4>1. n \in 0..m /\ g[n] = f[n]
          BY <3>2
        <4>2. f[n] = IF n = 0 THEN <<>> ELSE Keep(f[n - 1], segs[n])
          BY <4>1, <2>1
        <4>3. n # 0 => g[n - 1] = f[n - 1]
          BY <4>1
        <4> QED
          BY <4>1, <4>2, <4>3
      <3> QED
        BY <3>1, <3>2
    <2>3. DOMAIN g = 0..m + 1 /\ g = [n \in DOMAIN g |-> g[n]]
      OBVIOUS
    <2> HIDE DEF g
    <2>4. g = F(g, m + 1)
      BY <2>2, <2>3
    <2> QED
      BY <2>4
  <1>3. \A n \in Nat : n \in S
    <2>1. S \in SUBSET Nat
      OBVIOUS
    <2>2. ASSUME NEW n \in S PROVE n + 1 \in S
      <3> HIDE DEF F
      <3>1. n \in Nat /\ \E f : f = F(f, n)
        OBVIOUS
      <3>2. n + 1 \in Nat /\ \E g : g = F(g, n + 1)
        BY <3>1, <1>2
      <3> QED
        BY <3>2
    <2> HIDE DEF S
    <2> QED
      BY <1>1, <2>1, <2>2, AllNumbers
  <1>4. PICK f : f = F(f, Len(segs))
    BY <1>3, <1>0
  <1>5. Kept(segs) = CHOOSE g : g = F(g, Len(segs))
    BY DEF Kept, Keep
  <1> QED
    BY <1>4, <1>5

\* The segments a path keeps, and the paths that are clean.
Ordinary == Segment \ Dots

CleanPaths == {path \in [segs : Seq(Ordinary), slash : BOOLEAN] :
                 path.segs = <<>> => path.slash}

LEMMA KeepOrdinary ==
    ASSUME NEW kept \in Seq(Ordinary), NEW seg \in Segment
    PROVE  Keep(kept, seg) \in Seq(Ordinary)
  <1>1. CASE seg \in {"", "."}
    BY <1>1 DEF Keep
  <1>2. CASE seg = ".."
    <2>1. Keep(kept, seg) = SubSeq(kept, 1, Len(kept) - 1)
      BY <1>2 DEF Keep
    <2>2. Len(kept) \in Nat /\ \A i \in 1..Len(kept) : kept[i] \in Ordinary
      OBVIOUS
    <2> QED
      BY <2>1, <2>2, SubSeqProperties
  <1>3. CASE seg \notin Dots
    <2>1. Keep(kept, seg) = Append(kept, seg)
      BY <1>3 DEF Keep, Dots
    <2>2. seg \in Ordinary
      BY <1>3 DEF Ordinary
    <2> HIDE DEF Ordinary
    <2>3. Append(kept, seg) \in Seq(Ordinary)
      BY <2>2, AppendProperties
    <2> QED
      BY <2>1, <2>3
  <1> QED
    BY <1>1, <1>2, <1>3 DEF Dots

\* Whatever is kept is ordinary.
LEMMA KeptOrdinary ==
    ASSUME NEW segs \in Seq(Segment)
    PROVE  \A n \in 0..Len(segs) : Kept(segs)[n] \in Seq(Ordinary)
  <1> DEFINE S == {n \in Nat : n \in 0..Len(segs) => Kept(segs)[n] \in Seq(Ordinary)}
  <1>0. Len(segs) \in Nat
    OBVIOUS
  <1>1. 0 \in S
    <2>1. Kept(segs)[0] = <<>>
      BY KeptDef, <1>0
    <2>2. <<>> \in Seq(Ordinary)
      OBVIOUS
    <2> QED
      BY <2>1, <2>2
  <1>2. ASSUME NEW n \in S PROVE n + 1 \in S
    <2> SUFFICES ASSUME n + 1 \in 0..Len(segs)
                 PROVE  Kept(segs)[n + 1] \in Seq(Ordinary)
      OBVIOUS
    <2>1. Kept(segs)[n] \in Seq(Ordinary)
      BY <1>0
    <2>2. Kept(segs)[n + 1] = Keep(Kept(segs)[n], segs[n + 1])
      BY KeptDef, <1>0
    <2>3. segs[n + 1] \in Segment
      BY <1>0
    <2> QED
      BY <2>1, <2>2, <2>3, KeepOrdinary
  <1>3. S \in SUBSET Nat
    OBVIOUS
  <1>4. \A n \in Nat : n \in S
    <2> HIDE DEF S
    <2> QED
      BY <1>1, <1>2, <1>3, AllNumbers
  <1> QED
    BY <1>0, <1>4

\* Ordinary segments are all kept.
LEMMA KeptAll ==
    ASSUME NEW segs \in Seq(Ordinary)
    PROVE  \A n \in 0..Len(segs) : Kept(segs)[n] = SubSeq(segs, 1, n)
  <1> DEFINE S == {n \in Nat : n \in 0..Len(segs) => Kept(segs)[n] = SubSeq(segs, 1, n)}
  <1>0. Len(segs) \in Nat /\ segs \in Seq(Segment)
    BY DEF Ordinary
  <1>1. 0 \in S
    <2>1. Kept(segs)[0] = <<>>
      BY KeptDef, <1>0
    <2>2. SubSeq(segs, 1, 0) = <<>>
      <3>1. Len(SubSeq(segs, 1, 0)) = 0 /\ SubSeq(segs, 1, 0) \in Seq(Ordinary)
        BY <1>0
      <3> QED
        BY <3>1, EmptySeq
    <2> QED
      BY <2>1, <2>2
  <1>2. ASSUME NEW n \in S PROVE n + 1 \in S
    <2> SUFFICES ASSUME n + 1 \in 0..Len(segs)
                 PROVE  Kept(segs)[n + 1] = SubSeq(segs, 1, n + 1)
      OBVIOUS
    <2>1. Kept(segs)[n] = SubSeq(segs, 1, n)
      BY <1>0
    <2>2. Kept(segs)[n + 1] = Keep(Kept(segs)[n], segs[n + 1])
      BY KeptDef, <1>0
    <2>3. segs[n + 1] \in Ordinary
      BY <1>0
    <2>4. Keep(SubSeq(segs, 1, n), segs[n + 1]) = Append(SubSeq(segs, 1, n), segs[n + 1])
      BY <2>3 DEF Keep, Ordinary, Dots
    <2>5. Append(SubSeq(segs, 1, n), segs[n + 1]) = SubSeq(segs, 1, n + 1)
      BY <1>0
    <2> QED
      BY <2>1, <2>2, <2>4, <2>5
  <1>3. S \in SUBSET Nat
    OBVIOUS
  <1>4. \A n \in Nat : n \in S
    <2> HIDE DEF S
    <2> QED
      BY <1>1, <1>2, <1>3, AllNumbers
  <1> QED
    BY <1>0, <1>4

\* Cleaning yields a clean path and leaves a clean one alone.
LEMMA CleanedIsClean ==
    ASSUME NEW path \in Path
    PROVE  CleanPath(path) \in CleanPaths
  <1>1. path.segs \in Seq(Segment) /\ path.slash \in BOOLEAN
    BY DEF Path
  <1>2. Kept(path.segs)[Len(path.segs)] \in Seq(Ordinary)
    BY <1>1, KeptOrdinary
  <1> QED
    BY <1>1, <1>2 DEF CleanPath, CleanPaths, Root

LEMMA CleanIsKept ==
    ASSUME NEW path \in CleanPaths
    PROVE  CleanPath(path) = path
  <1>1. path \in [segs : Seq(Ordinary), slash : BOOLEAN]
    BY DEF CleanPaths
  <1>2. Kept(path.segs)[Len(path.segs)] = SubSeq(path.segs, 1, Len(path.segs))
    BY <1>1, KeptAll
  <1>3. SubSeq(path.segs, 1, Len(path.segs)) = path.segs
    BY <1>1
  <1>4. path = [segs |-> path.segs, slash |-> path.slash]
    BY <1>1
  <1> QED
    BY <1>2, <1>3, <1>4 DEF CleanPath, CleanPaths, Root

-----------------------------------------------------------------------------
(* The route table.                                                        *)

\* The fields of an entry that is matched as a whole.
Row(entry, segs, slash, methods, permanent, handler) ==
    /\ entry.pattern.segs = segs
    /\ entry.pattern.slash = slash
    /\ ~entry.prefix
    /\ entry.methods = methods
    /\ entry.permanent = permanent
    /\ entry.handler = handler

LEMMA EntryRow ==
    ASSUME NEW segs, NEW slash, NEW methods, NEW handler
    PROVE  /\ Row(Entry(segs, slash, methods, handler),
                  segs, slash, methods, FALSE, handler)
           /\ Row(Public(Entry(segs, slash, methods, handler)),
                  segs, slash, methods, FALSE, handler)
           /\ Row(Permanent(Entry(segs, slash, methods, handler)),
                  segs, slash, methods, TRUE, handler)
  BY DEF Row, Entry, Public, Permanent

\* What is stored at each place of the table.
LEMMA TableRows ==
    LET S == Variable.storage
        F == Variable.file
    IN
    /\ DOMAIN RouteTable = 1..17
    /\ Row(RouteTable[1], <<"metrics">>, TRUE, AnyMethod, FALSE, "Metrics")
    /\ Row(RouteTable[2], <<>>, TRUE, {"GET"}, FALSE, "RedirectToCommon")
    /\ RouteTable[3].prefix /\ RouteTable[3].pattern.segs = <<"res">>
    /\ RouteTable[3].methods = {"GET"} /\ RouteTable[3].handler = "Resources"
    /\ ~RouteTable[3].permanent
    /\ Row(RouteTable[4], <<"register">>, TRUE, AnyMethod, FALSE, "Register")
    /\ Row(RouteTable[5], <<"login", S>>, TRUE, AnyMethod, FALSE, "Login")
    /\ Row(RouteTable[6], <<S, "index.html">>, FALSE, {"GET"}, FALSE,
            "IndexHTML")
    /\ Row(RouteTable[7], <<S, "permanent", "index.html">>, FALSE, {"GET"},
            TRUE, "IndexHTML")
    /\ Row(RouteTable[8], <<S, "permanent", F>>, TRUE, {"GET"}, TRUE,
            "GetFile")
    /\ Row(RouteTable[9], <<S, "permanent">>, TRUE, {"GET"}, TRUE, "View")
    /\ Row(RouteTable[10], <<S, F>>, TRUE, {"GET"}, FALSE, "GetFile")
    /\ Row(RouteTable[11], <<S>>, TRUE, {"GET"}, FALSE, "View")
    /\ Row(RouteTable[12], <<S, "upload">>, TRUE, {"POST"}, FALSE, "Upload")
    /\ Row(RouteTable[13], <<S, "permanent", "upload">>, TRUE, {"POST"}, TRUE,
            "Upload")
    /\ Row(RouteTable[14], <<S, "remove">>, TRUE, {"POST"}, FALSE, "Remove")
    /\ Row(RouteTable[15], <<S, "permanent", "remove">>, TRUE, {"POST"}, TRUE,
            "Remove")
    /\ Row(RouteTable[16], <<S, "shareText">>, TRUE, {"POST"}, FALSE,
            "ShareText")
    /\ Row(RouteTable[17], <<S, "permanent", "shareText">>, TRUE, {"POST"},
            TRUE, "ShareText")
  <1> DEFINE S == Variable.storage
             F == Variable.file
  <1>0. DOMAIN RouteTable = 1..17
    BY DEF RouteTable
  <1>1. Row(RouteTable[1], <<"metrics">>, TRUE, AnyMethod, FALSE, "Metrics")
    <2>1. RouteTable[1] = Metrics
      BY DEF RouteTable
    <2> QED
      BY <2>1, EntryRow DEF Metrics
  <1>2. Row(RouteTable[2], <<>>, TRUE, {"GET"}, FALSE, "RedirectToCommon")
    <2>1. RouteTable[2] = Public(Entry(<<>>, TRUE, {"GET"}, "RedirectToCommon"))
      BY DEF RouteTable
    <2> QED
      BY <2>1, EntryRow
  <1>3. /\ RouteTable[3].prefix /\ RouteTable[3].pattern.segs = <<"res">>
        /\ RouteTable[3].methods = {"GET"} /\ RouteTable[3].handler = "Resources"
        /\ ~RouteTable[3].permanent
    <2>1. RouteTable[3] = [Public(Entry(<<"res">>, TRUE, {"GET"}, "Resources"))
                             EXCEPT !.prefix = TRUE]
      BY DEF RouteTable
    <2> QED
      BY <2>1 DEF Entry, Public
  <1>4. Row(RouteTable[4], <<"register">>, TRUE, AnyMethod, FALSE, "Register")
    <2>1. RouteTable[4] = Public(Entry(<<"register">>, TRUE, AnyMethod,
              "Register"))
      BY DEF RouteTable
    <2> QED
      BY <2>1, EntryRow
  <1>5. Row(RouteTable[5], <<"login", S>>, TRUE, AnyMethod, FALSE, "Login")
    <2>1. RouteTable[5] = Public(Entry(<<"login", S>>, TRUE, AnyMethod,
              "Login"))
      BY DEF RouteTable
    <2> QED
      BY <2>1, EntryRow
  <1>6. Row(RouteTable[6], <<S, "index.html">>, FALSE, {"GET"}, FALSE,
               "IndexHTML")
    <2>1. RouteTable[6] = Entry(<<S, "index.html">>, FALSE, {"GET"},
              "IndexHTML")
      BY DEF RouteTable
    <2> QED
      BY <2>1, EntryRow
  <1>7. Row(RouteTable[7], <<S, "permanent", "index.html">>, FALSE, {"GET"},
               TRUE, "IndexHTML")
    <2>1. RouteTable[7] = Permanent(Entry(<<S, "permanent", "index.html">>,
              FALSE, {"GET"}, "IndexHTML"))
      BY DEF RouteTable
    <2> QED
      BY <2>1, EntryRow
  <1>8. Row(RouteTable[8], <<S, "permanent", F>>, TRUE, {"GET"}, TRUE,
               "GetFile")
    <2>1. RouteTable[8] = Permanent(Entry(<<S, "permanent", F>>, TRUE,
              {"GET"}, "GetFile"))
      BY DEF RouteTable
    <2> QED
      BY <2>1, EntryRow
  <1>9. Row(RouteTable[9], <<S, "permanent">>, TRUE, {"GET"}, TRUE, "View")
    <2>1. RouteTable[9] = Permanent(Entry(<<S, "permanent">>, TRUE, {"GET"},
              "View"))
      BY DEF RouteTable
    <2> QED
      BY <2>1, EntryRow
  <1>10. Row(RouteTable[10], <<S, F>>, TRUE, {"GET"}, FALSE, "GetFile")
    <2>1. RouteTable[10] = Entry(<<S, F>>, TRUE, {"GET"}, "GetFile")
      BY DEF RouteTable
    <2> QED
      BY <2>1, EntryRow
  <1>11. Row(RouteTable[11], <<S>>, TRUE, {"GET"}, FALSE, "View")
    <2>1. RouteTable[11] = Entry(<<S>>, TRUE, {"GET"}, "View")
      BY DEF RouteTable
    <2> QED
      BY <2>1, EntryRow
  <1>12. Row(RouteTable[12], <<S, "upload">>, TRUE, {"POST"}, FALSE, "Upload")
    <2>1. RouteTable[12] = Entry(<<S, "upload">>, TRUE, {"POST"}, "Upload")
      BY DEF RouteTable
    <2> QED
      BY <2>1, EntryRow
  <1>13. Row(RouteTable[13], <<S, "permanent", "upload">>, TRUE, {"POST"},
               TRUE, "Upload")
    <2>1. RouteTable[13] = Permanent(Entry(<<S, "permanent", "upload">>, TRUE,
              {"POST"}, "Upload"))
      BY DEF RouteTable
    <2> QED
      BY <2>1, EntryRow
  <1>14. Row(RouteTable[14], <<S, "remove">>, TRUE, {"POST"}, FALSE, "Remove")
    <2>1. RouteTable[14] = Entry(<<S, "remove">>, TRUE, {"POST"}, "Remove")
      BY DEF RouteTable
    <2> QED
      BY <2>1, EntryRow
  <1>15. Row(RouteTable[15], <<S, "permanent", "remove">>, TRUE, {"POST"},
               TRUE, "Remove")
    <2>1. RouteTable[15] = Permanent(Entry(<<S, "permanent", "remove">>, TRUE,
              {"POST"}, "Remove"))
      BY DEF RouteTable
    <2> QED
      BY <2>1, EntryRow
  <1>16. Row(RouteTable[16], <<S, "shareText">>, TRUE, {"POST"}, FALSE,
               "ShareText")
    <2>1. RouteTable[16] = Entry(<<S, "shareText">>, TRUE, {"POST"},
              "ShareText")
      BY DEF RouteTable
    <2> QED
      BY <2>1, EntryRow
  <1>17. Row(RouteTable[17], <<S, "permanent", "shareText">>, TRUE, {"POST"},
               TRUE, "ShareText")
    <2>1. RouteTable[17] = Permanent(Entry(<<S, "permanent", "shareText">>,
              TRUE, {"POST"}, "ShareText"))
      BY DEF RouteTable
    <2> QED
      BY <2>1, EntryRow
  <1> QED
    BY <1>0, <1>1, <1>2, <1>3, <1>4, <1>5, <1>6, <1>7, <1>8, <1>9,
       <1>10, <1>11, <1>12, <1>13, <1>14, <1>15, <1>16, <1>17

\* When a pattern of up to three segments fits as a whole.
LEMMA WholeMatches ==
    ASSUME NEW entry, ~entry.prefix, NEW path \in Path
    PROVE  /\ entry.pattern.segs = <<>> =>
                (PathMatches(entry, path) <=> Len(path.segs) = 0)
           /\ \A a : entry.pattern.segs = <<a>> =>
                (PathMatches(entry, path) <=>
                   Len(path.segs) = 1 /\ (IsVariable(a) \/ a = path.segs[1]))
           /\ \A a, b : entry.pattern.segs = <<a, b>> =>
                (PathMatches(entry, path) <=>
                   /\ Len(path.segs) = 2
                   /\ IsVariable(a) \/ a = path.segs[1]
                   /\ IsVariable(b) \/ b = path.segs[2])
           /\ \A a, b, c : entry.pattern.segs = <<a, b, c>> =>
                (PathMatches(entry, path) <=>
                   /\ Len(path.segs) = 3
                   /\ IsVariable(a) \/ a = path.segs[1]
                   /\ IsVariable(b) \/ b = path.segs[2]
                   /\ IsVariable(c) \/ c = path.segs[3])
  <1>1. PathMatches(entry, path) <=>
          /\ Len(path.segs) = Len(entry.pattern.segs)
          /\ \A k \in 1..Len(entry.pattern.segs) :
               IsVariable(entry.pattern.segs[k]) \/ entry.pattern.segs[k] = path.segs[k]
    BY DEF PathMatches
  <1>2. Len(<<>>) = 0
    OBVIOUS
  <1>3. \A a : Len(<<a>>) = 1 /\ <<a>>[1] = a
    OBVIOUS
  <1>4. \A a, b : Len(<<a, b>>) = 2 /\ <<a, b>>[1] = a /\ <<a, b>>[2] = b
    OBVIOUS
  <1>5. \A a, b, c : Len(<<a, b, c>>) = 3 /\ <<a, b, c>>[1] = a
                       /\ <<a, b, c>>[2] = b /\ <<a, b, c>>[3] = c
    OBVIOUS
  <1>6. 1..0 = {} /\ 1..1 = {1} /\ 1..2 = {1, 2} /\ 1..3 = {1, 2, 3}
    OBVIOUS
  <1> QED
    <2>1. entry.pattern.segs = <<>> =>
                (PathMatches(entry, path) <=> Len(path.segs) = 0)
      BY <1>1, <1>2, <1>6
    <2>2. ASSUME NEW a, entry.pattern.segs = <<a>>
          PROVE  PathMatches(entry, path) <=>
                   Len(path.segs) = 1 /\ (IsVariable(a) \/ a = path.segs[1])
      BY <2>2, <1>1, <1>3, <1>6
    <2>3. ASSUME NEW a, NEW b, entry.pattern.segs = <<a, b>>
          PROVE  PathMatches(entry, path) <=>
                   /\ Len(path.segs) = 2
                   /\ IsVariable(a) \/ a = path.segs[1]
                   /\ IsVariable(b) \/ b = path.segs[2]
      BY <2>3, <1>1, <1>4, <1>6
    <2>4. ASSUME NEW a, NEW b, NEW c, entry.pattern.segs = <<a, b, c>>
          PROVE  PathMatches(entry, path) <=>
                   /\ Len(path.segs) = 3
                   /\ IsVariable(a) \/ a = path.segs[1]
                   /\ IsVariable(b) \/ b = path.segs[2]
                   /\ IsVariable(c) \/ c = path.segs[3]
      BY <2>4, <1>1, <1>5, <1>6
    <2> QED
      BY <2>1, <2>2, <2>3, <2>4

\* When each entry serves a request.
LEMMA Serves ==
    ASSUME NEW path \in Path, NEW method \in AnyMethod
    PROVE  LET s == path.segs
               served(i) == i \in Serving(method, path)
           IN
    /\ Serving(method, path) \subseteq 1..17
    /\ served(1) <=> Len(s) = 1 /\ s[1] = "metrics"
    /\ served(2) <=> method = "GET" /\ Len(s) = 0
    /\ served(3) <=> method = "GET" /\ Len(s) >= 1 /\ s[1] = "res"
             /\ (Len(s) > 1 \/ path.slash)
    /\ served(4) <=> Len(s) = 1 /\ s[1] = "register"
    /\ served(5) <=> Len(s) = 2 /\ s[1] = "login"
    /\ served(6) <=> method = "GET" /\ Len(s) = 2 /\ s[2] = "index.html"
    /\ served(7) <=> method = "GET" /\ Len(s) = 3 /\ s[2] = "permanent"
             /\ s[3] = "index.html"
    /\ served(8) <=> method = "GET" /\ Len(s) = 3 /\ s[2] = "permanent"
    /\ served(9) <=> method = "GET" /\ Len(s) = 2 /\ s[2] = "permanent"
    /\ served(10) <=> method = "GET" /\ Len(s) = 2
    /\ served(11) <=> method = "GET" /\ Len(s) = 1
    /\ served(12) <=> method = "POST" /\ Len(s) = 2 /\ s[2] = "upload"
    /\ served(13) <=> method = "POST" /\ Len(s) = 3 /\ s[2] = "permanent"
             /\ s[3] = "upload"
    /\ served(14) <=> method = "POST" /\ Len(s) = 2 /\ s[2] = "remove"
    /\ served(15) <=> method = "POST" /\ Len(s) = 3 /\ s[2] = "permanent"
             /\ s[3] = "remove"
    /\ served(16) <=> method = "POST" /\ Len(s) = 2 /\ s[2] = "shareText"
    /\ served(17) <=> method = "POST" /\ Len(s) = 3 /\ s[2] = "permanent"
             /\ s[3] = "shareText"
  <1> DEFINE s == path.segs
             served(i) == i \in Serving(method, path)
  <1>a. Serving(method, path) \subseteq 1..17
    BY TableRows DEF Serving
  <1>b. \A i \in 1..17 : served(i) <=>
          PathMatches(RouteTable[i], path) /\ method \in RouteTable[i].methods
    BY TableRows DEF Serving
  <1>c. /\ IsVariable(Variable.storage) /\ IsVariable(Variable.file)
        /\ \A t \in {"metrics", "register", "login", "index.html", "permanent",
                     "upload", "remove", "shareText"} : ~IsVariable(t)
    BY DEF IsVariable, Variable
  <1>d. method = "GET" \/ method = "POST"
    BY DEF AnyMethod
  <1>1. served(1) <=> Len(s) = 1 /\ s[1] = "metrics"
    <2> DEFINE e == RouteTable[1]
    <2>1. e.methods = AnyMethod /\ ~e.prefix
      BY TableRows DEF Row
    <2>2. e.pattern.segs = <<"metrics">>
      BY TableRows DEF Row
    <2> HIDE DEF e
    <2>3. PathMatches(e, path) <=> Len(s) = 1 /\ s[1] = "metrics"
      BY <2>1, <2>2, <1>c, WholeMatches
    <2> QED
      BY <2>1, <2>3, <1>b, <1>d DEF e, AnyMethod
  <1>2. served(2) <=> method = "GET" /\ Len(s) = 0
    <2> DEFINE e == RouteTable[2]
    <2>1. e.methods = {"GET"} /\ ~e.prefix
      BY TableRows DEF Row
    <2>2. e.pattern.segs = <<>>
      BY TableRows DEF Row
    <2> HIDE DEF e
    <2>3. PathMatches(e, path) <=> Len(s) = 0
      BY <2>1, <2>2, <1>c, WholeMatches
    <2> QED
      BY <2>1, <2>3, <1>b, <1>d DEF e, AnyMethod
  <1>3. served(3) <=> method = "GET" /\ Len(s) >= 1 /\ s[1] = "res"
                         /\ (Len(s) > 1 \/ path.slash)
    <2>1. PathMatches(RouteTable[3], path) <=>
            /\ Len(s) >= 1
            /\ \A k \in 1..1 : IsVariable(<<"res">>[k]) \/ <<"res">>[k] = s[k]
            /\ Len(s) > 1 \/ path.slash
      <3>1. Len(<<"res">>) = 1
        OBVIOUS
      <3> QED
        BY <3>1, TableRows DEF PathMatches
    <2>2. 1..1 = {1} /\ <<"res">>[1] = "res" /\ ~IsVariable("res")
      BY DEF IsVariable, Variable
    <2>3. RouteTable[3].methods = {"GET"}
      BY TableRows
    <2> HIDE DEF served, s
    <2> QED
      BY <2>1, <2>2, <2>3, <1>b, <1>d
  <1>4. served(4) <=> Len(s) = 1 /\ s[1] = "register"
    <2> DEFINE e == RouteTable[4]
    <2>1. e.methods = AnyMethod /\ ~e.prefix
      BY TableRows DEF Row
    <2>2. e.pattern.segs = <<"register">>
      BY TableRows DEF Row
    <2> HIDE DEF e
    <2>3. PathMatches(e, path) <=> Len(s) = 1 /\ s[1] = "register"
      BY <2>1, <2>2, <1>c, WholeMatches
    <2> QED
      BY <2>1, <2>3, <1>b, <1>d DEF e, AnyMethod
  <1>5. served(5) <=> Len(s) = 2 /\ s[1] = "login"
    <2> DEFINE e == RouteTable[5]
    <2>1. e.methods = AnyMethod /\ ~e.prefix
      BY TableRows DEF Row
    <2>2. e.pattern.segs = <<"login", Variable.storage>>
      BY TableRows DEF Row
    <2> HIDE DEF e
    <2>3. PathMatches(e, path) <=> Len(s) = 2 /\ s[1] = "login"
      BY <2>1, <2>2, <1>c, WholeMatches
    <2> QED
      BY <2>1, <2>3, <1>b, <1>d DEF e, AnyMethod
  <1>6. served(6) <=> method = "GET" /\ Len(s) = 2 /\ s[2] = "index.html"
    <2> DEFINE e == RouteTable[6]
    <2>1. e.methods = {"GET"} /\ ~e.prefix
      BY TableRows DEF Row
    <2>2. e.pattern.segs = <<Variable.storage, "index.html">>
      BY TableRows DEF Row
    <2> HIDE DEF e
    <2>3. PathMatches(e, path) <=> Len(s) = 2 /\ s[2] = "index.html"
      BY <2>1, <2>2, <1>c, WholeMatches
    <2> QED
      BY <2>1, <2>3, <1>b, <1>d DEF e, AnyMethod
  <1>7. served(7) <=> method = "GET" /\ Len(s) = 3 /\ s[2] = "permanent"
                         /\ s[3] = "index.html"
    <2> DEFINE e == RouteTable[7]
    <2>1. e.methods = {"GET"} /\ ~e.prefix
      BY TableRows DEF Row
    <2>2. e.pattern.segs = <<Variable.storage, "permanent", "index.html">>
      BY TableRows DEF Row
    <2> HIDE DEF e
    <2>3. PathMatches(e, path) <=> Len(s) = 3 /\ s[2] = "permanent" /\ s[3] = "index.html"
      BY <2>1, <2>2, <1>c, WholeMatches
    <2> QED
      BY <2>1, <2>3, <1>b, <1>d DEF e, AnyMethod
  <1>8. served(8) <=> method = "GET" /\ Len(s) = 3 /\ s[2] = "permanent"
    <2> DEFINE e == RouteTable[8]
    <2>1. e.methods = {"GET"} /\ ~e.prefix
      BY TableRows DEF Row
    <2>2. e.pattern.segs = <<Variable.storage, "permanent", Variable.file>>
      BY TableRows DEF Row
    <2> HIDE DEF e
    <2>3. PathMatches(e, path) <=> Len(s) = 3 /\ s[2] = "permanent"
      BY <2>1, <2>2, <1>c, WholeMatches
    <2> QED
      BY <2>1, <2>3, <1>b, <1>d DEF e, AnyMethod
  <1>9. served(9) <=> method = "GET" /\ Len(s) = 2 /\ s[2] = "permanent"
    <2> DEFINE e == RouteTable[9]
    <2>1. e.methods = {"GET"} /\ ~e.prefix
      BY TableRows DEF Row
    <2>2. e.pattern.segs = <<Variable.storage, "permanent">>
      BY TableRows DEF Row
    <2> HIDE DEF e
    <2>3. PathMatches(e, path) <=> Len(s) = 2 /\ s[2] = "permanent"
      BY <2>1, <2>2, <1>c, WholeMatches
    <2> QED
      BY <2>1, <2>3, <1>b, <1>d DEF e, AnyMethod
  <1>10. served(10) <=> method = "GET" /\ Len(s) = 2
    <2> DEFINE e == RouteTable[10]
    <2>1. e.methods = {"GET"} /\ ~e.prefix
      BY TableRows DEF Row
    <2>2. e.pattern.segs = <<Variable.storage, Variable.file>>
      BY TableRows DEF Row
    <2> HIDE DEF e
    <2>3. PathMatches(e, path) <=> Len(s) = 2
      BY <2>1, <2>2, <1>c, WholeMatches
    <2> QED
      BY <2>1, <2>3, <1>b, <1>d DEF e, AnyMethod
  <1>11. served(11) <=> method = "GET" /\ Len(s) = 1
    <2> DEFINE e == RouteTable[11]
    <2>1. e.methods = {"GET"} /\ ~e.prefix
      BY TableRows DEF Row
    <2>2. e.pattern.segs = <<Variable.storage>>
      BY TableRows DEF Row
    <2> HIDE DEF e
    <2>3. PathMatches(e, path) <=> Len(s) = 1
      BY <2>1, <2>2, <1>c, WholeMatches
    <2> QED
      BY <2>1, <2>3, <1>b, <1>d DEF e, AnyMethod
  <1>12. served(12) <=> method = "POST" /\ Len(s) = 2 /\ s[2] = "upload"
    <2> DEFINE e == RouteTable[12]
    <2>1. e.methods = {"POST"} /\ ~e.prefix
      BY TableRows DEF Row
    <2>2. e.pattern.segs = <<Variable.storage, "upload">>
      BY TableRows DEF Row
    <2> HIDE DEF e
    <2>3. PathMatches(e, path) <=> Len(s) = 2 /\ s[2] = "upload"
      BY <2>1, <2>2, <1>c, WholeMatches
    <2> QED
      BY <2>1, <2>3, <1>b, <1>d DEF e, AnyMethod
  <1>13. served(13) <=> method = "POST" /\ Len(s) = 3 /\ s[2] = "permanent"
                         /\ s[3] = "upload"
    <2> DEFINE e == RouteTable[13]
    <2>1. e.methods = {"POST"} /\ ~e.prefix
      BY TableRows DEF Row
    <2>2. e.pattern.segs = <<Variable.storage, "permanent", "upload">>
      BY TableRows DEF Row
    <2> HIDE DEF e
    <2>3. PathMatches(e, path) <=> Len(s) = 3 /\ s[2] = "permanent" /\ s[3] = "upload"
      BY <2>1, <2>2, <1>c, WholeMatches
    <2> QED
      BY <2>1, <2>3, <1>b, <1>d DEF e, AnyMethod
  <1>14. served(14) <=> method = "POST" /\ Len(s) = 2 /\ s[2] = "remove"
    <2> DEFINE e == RouteTable[14]
    <2>1. e.methods = {"POST"} /\ ~e.prefix
      BY TableRows DEF Row
    <2>2. e.pattern.segs = <<Variable.storage, "remove">>
      BY TableRows DEF Row
    <2> HIDE DEF e
    <2>3. PathMatches(e, path) <=> Len(s) = 2 /\ s[2] = "remove"
      BY <2>1, <2>2, <1>c, WholeMatches
    <2> QED
      BY <2>1, <2>3, <1>b, <1>d DEF e, AnyMethod
  <1>15. served(15) <=> method = "POST" /\ Len(s) = 3 /\ s[2] = "permanent"
                         /\ s[3] = "remove"
    <2> DEFINE e == RouteTable[15]
    <2>1. e.methods = {"POST"} /\ ~e.prefix
      BY TableRows DEF Row
    <2>2. e.pattern.segs = <<Variable.storage, "permanent", "remove">>
      BY TableRows DEF Row
    <2> HIDE DEF e
    <2>3. PathMatches(e, path) <=> Len(s) = 3 /\ s[2] = "permanent" /\ s[3] = "remove"
      BY <2>1, <2>2, <1>c, WholeMatches
    <2> QED
      BY <2>1, <2>3, <1>b, <1>d DEF e, AnyMethod
  <1>16. served(16) <=> method = "POST" /\ Len(s) = 2 /\ s[2] = "shareText"
    <2> DEFINE e == RouteTable[16]
    <2>1. e.methods = {"POST"} /\ ~e.prefix
      BY TableRows DEF Row
    <2>2. e.pattern.segs = <<Variable.storage, "shareText">>
      BY TableRows DEF Row
    <2> HIDE DEF e
    <2>3. PathMatches(e, path) <=> Len(s) = 2 /\ s[2] = "shareText"
      BY <2>1, <2>2, <1>c, WholeMatches
    <2> QED
      BY <2>1, <2>3, <1>b, <1>d DEF e, AnyMethod
  <1>17. served(17) <=> method = "POST" /\ Len(s) = 3 /\ s[2] = "permanent"
                         /\ s[3] = "shareText"
    <2> DEFINE e == RouteTable[17]
    <2>1. e.methods = {"POST"} /\ ~e.prefix
      BY TableRows DEF Row
    <2>2. e.pattern.segs = <<Variable.storage, "permanent", "shareText">>
      BY TableRows DEF Row
    <2> HIDE DEF e
    <2>3. PathMatches(e, path) <=> Len(s) = 3 /\ s[2] = "permanent" /\ s[3] = "shareText"
      BY <2>1, <2>2, <1>c, WholeMatches
    <2> QED
      BY <2>1, <2>3, <1>b, <1>d DEF e, AnyMethod
  <1> HIDE DEF served, s
  <1> QED
    BY <1>a, <1>1, <1>2, <1>3, <1>4, <1>5, <1>6, <1>7, <1>8, <1>9,
       <1>10, <1>11, <1>12, <1>13, <1>14, <1>15, <1>16, <1>17 DEF served, s

\* The place of the entry that serves a request, 0 when none does.
PlaceOfGet(s, slash) ==
    IF Len(s) = 0 THEN 2
    ELSE IF s[1] = "res" /\ (Len(s) > 1 \/ slash) THEN 3
    ELSE IF Len(s) = 1 THEN IF s[1] = "metrics" THEN 1
                            ELSE IF s[1] = "register" THEN 4 ELSE 11
    ELSE IF Len(s) = 2 THEN IF s[1] = "login" THEN 5
                            ELSE IF s[2] = "index.html" THEN 6
                            ELSE IF s[2] = "permanent" THEN 9 ELSE 10
    ELSE IF Len(s) = 3 /\ s[2] = "permanent"
                       THEN IF s[3] = "index.html" THEN 7 ELSE 8
    ELSE 0

PlaceOfPost(s) ==
    IF Len(s) = 1 THEN IF s[1] = "metrics" THEN 1
                       ELSE IF s[1] = "register" THEN 4 ELSE 0
    ELSE IF Len(s) = 2 THEN IF s[1] = "login" THEN 5
                            ELSE IF s[2] = "upload" THEN 12
                            ELSE IF s[2] = "remove" THEN 14
                            ELSE IF s[2] = "shareText" THEN 16 ELSE 0
    ELSE IF Len(s) = 3 /\ s[2] = "permanent"
                       THEN IF s[3] = "upload" THEN 13
                            ELSE IF s[3] = "remove" THEN 15
                            ELSE IF s[3] = "shareText" THEN 17 ELSE 0
    ELSE 0

Place(method, path) ==
    IF method = "GET" THEN PlaceOfGet(path.segs, path.slash)
                      ELSE PlaceOfPost(path.segs)

\* Numbers up to three and beyond.
LEMMA UpToThree ==
    ASSUME NEW n \in Nat
    PROVE  /\ n = 0 \/ n = 1 \/ n = 2 \/ n = 3 \/ n > 3
           /\ n > 3 => n >= 1 /\ n > 1 /\ n \notin {0, 1, 2, 3}
  OBVIOUS

LEMMA Placed ==
    ASSUME NEW path \in Path, NEW method \in AnyMethod
    PROVE  LET i == Place(method, path)
           IN  /\ i \in 0..17
               /\ i = 0 => Serving(method, path) = {}
               /\ i # 0 => /\ i \in Serving(method, path)
                           /\ \A j \in Serving(method, path) : i <= j
  <1> DEFINE s == path.segs
             S == Serving(method, path)
             i == Place(method, path)
  <1> SUFFICES /\ i \in 0..17
               /\ i = 0 => S = {}
               /\ i # 0 => i \in S /\ \A j \in S : i <= j
    OBVIOUS
  <1>1. method \in {"GET", "POST"} /\ Len(s) \in Nat
    BY DEF AnyMethod, Path
  <1>5. /\ Len(s) = 0 \/ Len(s) = 1 \/ Len(s) = 2 \/ Len(s) = 3 \/ Len(s) > 3
        /\ Len(s) > 3 => Len(s) >= 1 /\ Len(s) > 1 /\ Len(s) \notin {0, 1, 2, 3}
    BY <1>1, UpToThree, Zenon
  <1>4. \A j \in S : j \in {1, 2, 3, 4, 5, 6, 7, 8, 9, 10, 11, 12, 13, 14, 15, 16, 17}
    BY Serves
  <1>2. CASE method = "GET"
    <2>1. i = PlaceOfGet(s, path.slash)
      BY <1>2 DEF Place
    <2>2. CASE Len(s) = 0
      <3>1. \A j \in S : j \in {2}
        BY <1>1, <1>5, <1>4, <1>2, <2>2, Serves, SMTT(40)
      <3>2. i \in 0..17 /\ (i # 0 => i \in S)
        BY <1>1, <1>5, <1>2, <2>1, <2>2, Serves, SMTT(40) DEF PlaceOfGet
      <3>3. \A j \in {2} : j \in S => i # 0 /\ i <= j
        BY <1>1, <1>5, <1>2, <2>1, <2>2, Serves, SMTT(40) DEF PlaceOfGet
      <3> QED
        BY <3>1, <3>2, <3>3
    <2>3. CASE Len(s) = 1
      <3>1. \A j \in S : j \in {1, 3, 4, 11}
        BY <1>1, <1>5, <1>4, <1>2, <2>3, Serves, SMTT(40)
      <3>2. i \in 0..17 /\ (i # 0 => i \in S)
        BY <1>1, <1>5, <1>2, <2>1, <2>3, Serves, SMTT(40) DEF PlaceOfGet
      <3>3. /\ 1 \in S => i = 1
            /\ 3 \in S => i = 3
            /\ 4 \in S => i = 4
            /\ i # 0
        BY <1>1, <1>5, <1>2, <2>1, <2>3, Serves, SMTT(40) DEF PlaceOfGet
      <3> HIDE DEF i, S, s
      <3> QED
        BY <3>1, <3>2, <3>3
    <2>4. CASE Len(s) = 2
      <3>1. \A j \in S : j \in {3, 5, 6, 9, 10}
        BY <1>1, <1>5, <1>4, <1>2, <2>4, Serves, SMTT(40)
      <3>2. i \in 0..17 /\ (i # 0 => i \in S)
        BY <1>1, <1>5, <1>2, <2>1, <2>4, Serves, SMTT(40) DEF PlaceOfGet
      <3>3. \A j \in {3, 5, 6, 9, 10} : j \in S => i # 0 /\ i <= j
        BY <1>1, <1>5, <1>2, <2>1, <2>4, Serves, SMTT(40) DEF PlaceOfGet
      <3> QED
        BY <3>1, <3>2, <3>3
    <2>5. CASE Len(s) = 3
      <3>1. \A j \in S : j \in {3, 7, 8}
        BY <1>1, <1>5, <1>4, <1>2, <2>5, Serves, SMTT(40)
      <3>2. i \in 0..17 /\ (i # 0 => i \in S)
        BY <1>1, <1>5, <1>2, <2>1, <2>5, Serves, SMTT(40) DEF PlaceOfGet
      <3>3. \A j \in {3, 7, 8} : j \in S => i # 0 /\ i <= j
        BY <1>1, <1>5, <1>2, <2>1, <2>5, Serves, SMTT(40) DEF PlaceOfGet
      <3> QED
        BY <3>1, <3>2, <3>3
    <2>6. CASE Len(s) > 3
      <3>1. \A j \in S : j \in {3}
        BY <1>1, <1>5, <1>4, <1>2, <2>6, Serves, SMTT(40)
      <3>2. i \in 0..17 /\ (i # 0 => i \in S)
        BY <1>1, <1>5, <1>2, <2>1, <2>6, Serves, SMTT(40) DEF PlaceOfGet
      <3>3. \A j \in {3} : j \in S => i # 0 /\ i <= j
        BY <1>1, <1>5, <1>2, <2>1, <2>6, Serves, SMTT(40) DEF PlaceOfGet
      <3> QED
        BY <3>1, <3>2, <3>3
    <2> HIDE DEF i, S, s
    <2> QED
      BY <1>5, <2>2, <2>3, <2>4, <2>5, <2>6
  <1>3. CASE method = "POST"
    <2>1. i = PlaceOfPost(s)
      BY <1>3 DEF Place
    <2>2. CASE Len(s) = 0 \/ Len(s) > 3
      <3>1. i = 0
        <4>1. Len(s) \notin {1, 2, 3}
          BY <1>5, <2>2
        <4> QED
          BY <2>1, <4>1 DEF PlaceOfPost
      <3>2. ASSUME NEW j \in S PROVE FALSE
        <4>1. j \in {1, 2, 3, 4, 5, 6, 7, 8, 9, 10, 11, 12, 13, 14, 15, 16, 17}
          BY <1>4
        <4>2. Len(s) \notin {1, 2, 3}
          BY <1>5, <2>2
        <4>3. method # "GET"
          BY <1>3
        <4> QED
          BY <4>1, <4>2, <4>3, Serves
      <3> QED
        BY <3>1, <3>2
    <2>3. CASE Len(s) = 1
      <3>1. \A j \in S : j \in {1, 4}
        BY <1>1, <1>5, <1>4, <1>3, <2>3, Serves
      <3>2. i \in 0..17 /\ (i # 0 => i \in S)
        BY <1>1, <1>5, <1>3, <2>1, <2>3, Serves DEF PlaceOfPost
      <3>3. \A j \in {1, 4} : j \in S => i # 0 /\ i <= j
        BY <1>1, <1>5, <1>3, <2>1, <2>3, Serves DEF PlaceOfPost
      <3> QED
        BY <3>1, <3>2, <3>3
    <2>4. CASE Len(s) = 2
      <3>1. \A j \in S : j \in {5, 12, 14, 16}
        BY <1>1, <1>5, <1>4, <1>3, <2>4, Serves
      <3>2. i \in 0..17 /\ (i # 0 => i \in S)
        BY <1>1, <1>5, <1>3, <2>1, <2>4, Serves DEF PlaceOfPost
      <3>3. \A j \in {5, 12, 14, 16} : j \in S => i # 0 /\ i <= j
        BY <1>1, <1>5, <1>3, <2>1, <2>4, Serves DEF PlaceOfPost
      <3> QED
        BY <3>1, <3>2, <3>3
    <2>5. CASE Len(s) = 3
      <3>1. \A j \in S : j \in {13, 15, 17}
        BY <1>1, <1>5, <1>4, <1>3, <2>5, Serves
      <3>2. i \in 0..17 /\ (i # 0 => i \in S)
        BY <1>1, <1>5, <1>3, <2>1, <2>5, Serves DEF PlaceOfPost
      <3>3. \A j \in {13, 15, 17} : j \in S => i # 0 /\ i <= j
        BY <1>1, <1>5, <1>3, <2>1, <2>5, Serves DEF PlaceOfPost
      <3> QED
        BY <3>1, <3>2, <3>3
    <2> HIDE DEF i, S, s
    <2> QED
      BY <1>5, <2>2, <2>3, <2>4, <2>5
  <1> HIDE DEF i, S, s
  <1> QED
    BY <1>1, <1>5, <1>2, <1>3

-----------------------------------------------------------------------------
(* What the chosen entry is told.                                          *)

LEMMA FirstIs ==
    ASSUME NEW S \in SUBSET Nat, NEW i \in S, \A j \in S : i <= j
    PROVE  FirstOf(S) = i
  <1>1. \A k \in S : (\A j \in S : k <= j) => k = i
    OBVIOUS
  <1> QED
    BY <1>1 DEF FirstOf

\* The value of a variable is the segment that stands in its place.
LEMMA Values ==
    ASSUME NEW entry, NEW path, NEW v
    PROVE  /\ entry.pattern.segs = <<>> => VariableValue(entry, path, v) = NoName
           /\ \A a : entry.pattern.segs = <<a>> =>
                VariableValue(entry, path, v) =
                  IF a = v THEN path.segs[1] ELSE NoName
           /\ \A a, b : entry.pattern.segs = <<a, b>> =>
                VariableValue(entry, path, v) =
                  IF a = v THEN path.segs[1]
                  ELSE IF b = v THEN path.segs[2] ELSE NoName
           /\ \A a, b, c : entry.pattern.segs = <<a, b, c>> =>
                VariableValue(entry, path, v) =
                  IF a = v THEN path.segs[1]
                  ELSE IF b = v THEN path.segs[2]
                  ELSE IF c = v THEN path.segs[3] ELSE NoName
  <1> DEFINE at == {k \in DOMAIN entry.pattern.segs : entry.pattern.segs[k] = v}
  <1>1. VariableValue(entry, path, v)
          = IF at = {} THEN NoName ELSE path.segs[FirstOf(at)]
    BY DEF VariableValue
  <1>2. ASSUME entry.pattern.segs = <<>> PROVE VariableValue(entry, path, v) = NoName
    <2>1. DOMAIN entry.pattern.segs = {}
      BY <1>2
    <2> QED
      BY <1>1, <2>1
  <1>3. ASSUME NEW a, entry.pattern.segs = <<a>>
        PROVE  VariableValue(entry, path, v) = IF a = v THEN path.segs[1] ELSE NoName
    <2>1. DOMAIN entry.pattern.segs = {1} /\ entry.pattern.segs[1] = a
      BY <1>3
    <2>2. at \in SUBSET Nat /\ at = IF a = v THEN {1} ELSE {}
      BY <2>1
    <2> HIDE DEF at
    <2>3. a = v => FirstOf(at) = 1
      BY <2>2, FirstIs
    <2> QED
      BY <1>1, <2>2, <2>3
  <1>4. ASSUME NEW a, NEW b, entry.pattern.segs = <<a, b>>
        PROVE  VariableValue(entry, path, v) =
                 IF a = v THEN path.segs[1]
                 ELSE IF b = v THEN path.segs[2] ELSE NoName
    <2>1. /\ DOMAIN entry.pattern.segs = {1, 2}
          /\ entry.pattern.segs[1] = a /\ entry.pattern.segs[2] = b
      BY <1>4
    <2>2. /\ at \in SUBSET Nat /\ at \subseteq {1, 2}
          /\ 1 \in at <=> a = v
          /\ 2 \in at <=> b = v
      BY <2>1
    <2> HIDE DEF at
    <2>3. a = v => FirstOf(at) = 1
      BY <2>2, FirstIs
    <2>4. a # v /\ b = v => FirstOf(at) = 2
      BY <2>2, FirstIs
    <2> QED
      BY <1>1, <2>2, <2>3, <2>4
  <1>5. ASSUME NEW a, NEW b, NEW c, entry.pattern.segs = <<a, b, c>>
        PROVE  VariableValue(entry, path, v) =
                 IF a = v THEN path.segs[1]
                 ELSE IF b = v THEN path.segs[2]
                 ELSE IF c = v THEN path.segs[3] ELSE NoName
    <2>1. /\ DOMAIN entry.pattern.segs = {1, 2, 3}
          /\ entry.pattern.segs[1] = a /\ entry.pattern.segs[2] = b
          /\ entry.pattern.segs[3] = c
      BY <1>5
    <2>2. /\ at \in SUBSET Nat /\ at \subseteq {1, 2, 3}
          /\ 1 \in at <=> a = v
          /\ 2 \in at <=> b = v
          /\ 3 \in at <=> c = v
      BY <2>1
    <2> HIDE DEF at
    <2>3. a = v => FirstOf(at) = 1
      BY <2>2, FirstIs
    <2>4. a # v /\ b = v => FirstOf(at) = 2
      BY <2>2, FirstIs
    <2>5. a # v /\ b # v /\ c = v => FirstOf(at) = 3
      BY <2>2, FirstIs
    <2> QED
      BY <1>1, <2>2, <2>3, <2>4, <2>5
  <1> QED
    BY <1>2, <1>3, <1>4, <1>5

\* The work that the entry at each place stands for.
StorageAt(i, s) == IF i = 5 THEN s[2] ELSE IF i >= 6 THEN s[1] ELSE NoName

FileAt(i, s) == IF i = 8 THEN s[3] ELSE IF i = 10 THEN s[2] ELSE NoName

HandlerAt == [i \in 1..17 |->
    CASE i = 1 -> "Metrics"   [] i = 2 -> "RedirectToCommon"
      [] i = 3 -> "Resources" [] i = 4 -> "Register"
      [] i = 5 -> "Login"     [] i \in {6, 7} -> "IndexHTML"
      [] i \in {8, 10} -> "GetFile"   [] i \in {9, 11} -> "View"
      [] i \in {12, 13} -> "Upload"   [] i \in {14, 15} -> "Remove"
      [] i \in {16, 17} -> "ShareText"]

PermanentAt(i, s) == i \in {7, 8, 9, 13, 15, 17} /\ s[1] # NoName

WorkAt(i, s) == Work(HandlerAt[i], StorageAt(i, s), PermanentAt(i, s), FileAt(i, s))

Told(i, path) == [kind    |-> "handler",
                  handler |-> RouteTable[i].handler,
                  sp      |-> StoredParameters(RouteTable[i], path)]

LEMMA ToldWork ==
    ASSUME NEW path, NEW i \in 1..17
    PROVE  WorkOf(Told(i, path)) = WorkAt(i, path.segs)
  <1> DEFINE e == RouteTable[i]
             s == path.segs
  <1>1. WorkOf(Told(i, path)) =
          Work(e.handler, VariableValue(e, path, Variable.storage),
               VariableValue(e, path, Variable.storage) # NoName /\ e.permanent,
               VariableValue(e, path, Variable.file))
    BY DEF WorkOf, Told, StoredParameters
  <1>2. Variable.storage # Variable.file
        /\ \A t \in {"metrics", "res", "register", "login", "index.html",
                     "permanent", "upload", "remove", "shareText"} :
             t # Variable.storage /\ t # Variable.file
    BY DEF Variable
  <1>3. e.handler = HandlerAt[i] /\ e.permanent = (i \in {7, 8, 9, 13, 15, 17})
    <2>1. \A j \in 1..17 : RouteTable[j].handler = HandlerAt[j]
      <3>1. /\ RouteTable[1].handler = "Metrics" /\ RouteTable[2].handler = "RedirectToCommon"
            /\ RouteTable[3].handler = "Resources" /\ RouteTable[4].handler = "Register"
            /\ RouteTable[5].handler = "Login" /\ RouteTable[6].handler = "IndexHTML"
            /\ RouteTable[7].handler = "IndexHTML" /\ RouteTable[8].handler = "GetFile"
            /\ RouteTable[9].handler = "View" /\ RouteTable[10].handler = "GetFile"
            /\ RouteTable[11].handler = "View" /\ RouteTable[12].handler = "Upload"
            /\ RouteTable[13].handler = "Upload" /\ RouteTable[14].handler = "Remove"
            /\ RouteTable[15].handler = "Remove" /\ RouteTable[16].handler = "ShareText"
            /\ RouteTable[17].handler = "ShareText"
        BY TableRows, SMTT(40) DEF Row
      <3>2. /\ HandlerAt[1] = "Metrics" /\ HandlerAt[2] = "RedirectToCommon"
            /\ HandlerAt[3] = "Resources" /\ HandlerAt[4] = "Register"
            /\ HandlerAt[5] = "Login" /\ HandlerAt[6] = "IndexHTML"
            /\ HandlerAt[7] = "IndexHTML" /\ HandlerAt[8] = "GetFile"
            /\ HandlerAt[9] = "View" /\ HandlerAt[10] = "GetFile"
            /\ HandlerAt[11] = "View" /\ HandlerAt[12] = "Upload"
            /\ HandlerAt[13] = "Upload" /\ HandlerAt[14] = "Remove"
            /\ HandlerAt[15] = "Remove" /\ HandlerAt[16] = "ShareText"
            /\ HandlerAt[17] = "ShareText"
        BY DEF HandlerAt
      <3> QED
        BY <3>1, <3>2
    <2>2. \A j \in {7, 8, 9, 13, 15, 17} : RouteTable[j].permanent = TRUE
      BY TableRows, SMTT(40) DEF Row
    <2>3. \A j \in {1, 2, 3, 4, 5, 6, 10, 11, 12, 14, 16} : RouteTable[j].permanent = FALSE
      BY TableRows, SMTT(40) DEF Row
    <2>4. e.handler = HandlerAt[i]
      BY <2>1
    <2>5. CASE i \in {7, 8, 9, 13, 15, 17}
      <3>1. e.permanent = TRUE
        BY <2>2, <2>5
      <3>2. (i \in {7, 8, 9, 13, 15, 17}) = TRUE
        BY <2>5
      <3> QED
        BY <2>4, <3>1, <3>2
    <2>6. CASE i \notin {7, 8, 9, 13, 15, 17}
      <3>1. i \in {1, 2, 3, 4, 5, 6, 10, 11, 12, 14, 16}
        BY <2>6
      <3>2. e.permanent = FALSE
        BY <2>3, <3>1
      <3>3. (i \in {7, 8, 9, 13, 15, 17}) = FALSE
        BY <2>6
      <3> QED
        BY <2>4, <3>2, <3>3
    <2> QED
      BY <2>5, <2>6
  <1>4. CASE i \in 1..5
    <2>1. /\ VariableValue(e, path, Variable.storage) = StorageAt(i, s)
          /\ VariableValue(e, path, Variable.file) = FileAt(i, s)
      <3>1. CASE i \in {1, 3, 4}
        <4>1. PICK w \in {"metrics", "res", "register"} : e.pattern.segs = <<w>>
          BY <3>1, TableRows DEF Row
        <4>2. w # Variable.storage /\ w # Variable.file
          BY <1>2
        <4>3. StorageAt(i, s) = NoName /\ FileAt(i, s) = NoName
          BY <3>1 DEF StorageAt, FileAt
        <4> HIDE DEF e, s
        <4> QED
          BY <4>1, <4>2, <4>3, Values
      <3>2. CASE i = 2
        <4>1. e.pattern.segs = <<>>
          BY <3>2, TableRows DEF Row
        <4>2. StorageAt(i, s) = NoName /\ FileAt(i, s) = NoName
          BY <3>2 DEF StorageAt, FileAt
        <4> HIDE DEF e, s
        <4> QED
          BY <4>1, <4>2, Values
      <3>3. CASE i = 5
        <4>1. e.pattern.segs = <<"login", Variable.storage>>
          BY <3>3, TableRows DEF Row
        <4>2. StorageAt(i, s) = path.segs[2] /\ FileAt(i, s) = NoName
          BY <3>3 DEF StorageAt, FileAt
        <4>3. "login" # Variable.storage /\ "login" # Variable.file
          BY <1>2
        <4> HIDE DEF e, s
        <4> QED
          BY <1>2, <4>1, <4>2, <4>3, Values
      <3> QED
        BY <1>4, <3>1, <3>2, <3>3
    <2>2. (VariableValue(e, path, Variable.storage) # NoName /\ e.permanent)
            = PermanentAt(i, s)
      <3>1. i \notin {7, 8, 9, 13, 15, 17}
        BY <1>4
      <3>2. e.permanent = FALSE
        BY <1>4, TableRows DEF Row
      <3> QED
        BY <3>1, <3>2 DEF PermanentAt
    <2> HIDE DEF e, s
    <2> QED
      BY <1>1, <1>3, <2>1, <2>2 DEF WorkAt, s
  <1>5. CASE i \in 6..17
    <2>a. /\ VariableValue(e, path, Variable.storage) = s[1]
          /\ VariableValue(e, path, Variable.file) = FileAt(i, s)
      <3>1. CASE i = 11
        <4>1. e.pattern.segs = <<Variable.storage>>
          BY <3>1, TableRows, SMTT(40) DEF Row
        <4>2. FileAt(i, s) = NoName
          BY <3>1 DEF FileAt
        <4> HIDE DEF e
        <4> QED
          BY <1>2, <4>1, <4>2, Values
      <3>2. CASE i = 10
        <4>1. e.pattern.segs = <<Variable.storage, Variable.file>>
          BY <3>2, TableRows, SMTT(40) DEF Row
        <4>2. FileAt(i, s) = s[2]
          BY <3>2 DEF FileAt
        <4> HIDE DEF e
        <4> QED
          BY <1>2, <4>1, <4>2, Values
      <3>3. CASE i = 8
        <4>1. e.pattern.segs = <<Variable.storage, "permanent", Variable.file>>
          BY <3>3, TableRows, SMTT(40) DEF Row
        <4>2. FileAt(i, s) = s[3]
          BY <3>3 DEF FileAt
        <4>3. "permanent" # Variable.storage /\ "permanent" # Variable.file
          BY <1>2
        <4> HIDE DEF e
        <4> QED
          BY <1>2, <4>1, <4>2, <4>3, Values
      <3>4. CASE i \in {6, 9, 12, 14, 16}
        <4>1. PICK w \in {"index.html", "permanent", "upload", "remove", "shareText"} :
                 e.pattern.segs = <<Variable.storage, w>>
          BY <3>4, TableRows, SMTT(40) DEF Row
        <4>2. FileAt(i, s) = NoName
          BY <3>4 DEF FileAt
        <4>3. w # Variable.storage /\ w # Variable.file
          BY <1>2
        <4> HIDE DEF e
        <4> QED
          BY <1>2, <4>1, <4>2, <4>3, Values
      <3>5. CASE i \in {7, 13, 15, 17}
        <4>1. PICK w \in {"index.html", "upload", "remove", "shareText"} :
                 e.pattern.segs = <<Variable.storage, "permanent", w>>
          BY <3>5, TableRows, SMTT(40) DEF Row
        <4>2. FileAt(i, s) = NoName
          BY <3>5 DEF FileAt
        <4>3. /\ w # Variable.storage /\ w # Variable.file
              /\ "permanent" # Variable.storage /\ "permanent" # Variable.file
          BY <1>2
        <4> HIDE DEF e
        <4> QED
          BY <1>2, <4>1, <4>2, <4>3, Values
      <3> QED
        BY <1>5, <3>1, <3>2, <3>3, <3>4, <3>5
    <2>1. VariableValue(e, path, Variable.storage) = s[1]
      BY <2>a
    <2>2. VariableValue(e, path, Variable.file) = FileAt(i, s)
      BY <2>a
    <2>3. (VariableValue(e, path, Variable.storage) # NoName /\ e.permanent)
            = PermanentAt(i, s)
      BY <1>3, <2>1 DEF PermanentAt
    <2>4. StorageAt(i, s) = s[1]
      BY <1>5 DEF StorageAt
    <2> HIDE DEF e, s
    <2> QED
      BY <1>1, <1>3, <2>1, <2>2, <2>3, <2>4 DEF WorkAt, s
  <1> QED
    BY <1>4, <1>5

-----------------------------------------------------------------------------
(* The router's answer.                                                    *)

WrongAt(i, path) == i # 3 /\ (path.slash <=> i \in {6, 7})

LEMMA WrongSlashAt ==
    ASSUME NEW path \in Path, NEW i \in 1..17
    PROVE  WrongSlash(RouteTable[i], path) <=> WrongAt(i, path)
  <1>1. path.slash \in BOOLEAN
    BY DEF Path
  <1>2. CASE i = 3
    <2>1. RouteTable[i].prefix
      BY <1>2, TableRows, SMTT(40)
    <2> QED
      BY <1>2, <2>1 DEF WrongSlash, WrongAt
  <1>3. CASE i \in {6, 7}
    <2>1. ~RouteTable[i].prefix /\ RouteTable[i].pattern.slash = FALSE
      BY <1>3, TableRows, SMTT(40) DEF Row
    <2>2. WrongSlash(RouteTable[i], path) <=> path.slash
      BY <1>1, <2>1, Zenon DEF WrongSlash
    <2>3. WrongAt(i, path) <=> path.slash
      BY <1>1, <1>3 DEF WrongAt
    <2> QED
      BY <2>2, <2>3
  <1>4. CASE i \notin {3, 6, 7}
    <2>1. ~RouteTable[i].prefix /\ RouteTable[i].pattern.slash = TRUE
      BY <1>4, TableRows, SMTT(40) DEF Row
    <2>2. WrongSlash(RouteTable[i], path) <=> ~path.slash
      BY <1>1, <2>1, Zenon DEF WrongSlash
    <2>3. WrongAt(i, path) <=> ~path.slash
      BY <1>1, <1>4 DEF WrongAt
    <2> QED
      BY <2>2, <2>3
  <1> QED
    BY <1>2, <1>3, <1>4

\* A clean path is answered by the entry at its place.
LEMMA CleanAnswer ==
    ASSUME NEW path \in CleanPaths, NEW method \in AnyMethod
    PROVE  LET i == Place(method, path)
               answer == Dispatch(method, path)
           IN  /\ i = 0 => answer = [kind |-> NotServed(path)]
               /\ i # 0 /\ WrongAt(i, path) => answer = RedirectTo(ToggleSlash(path))
               /\ i # 0 /\ ~WrongAt(i, path) => answer = Told(i, path)
  <1> DEFINE i == Place(method, path)
             S == Serving(method, path)
  <1>1. path \in Path /\ CleanPath(path) = path
    BY CleanIsKept DEF CleanPaths, Path, Ordinary
  <1>2. i \in 0..17 /\ (i = 0 => S = {})
        /\ (i # 0 => i \in S /\ \A j \in S : i <= j)
    BY <1>1, Placed
  <1>3. S \in SUBSET Nat
    BY <1>1, Serves
  <1> HIDE DEF i, S
  <1>4. i # 0 => FirstOf(S) = i /\ S # {}
    BY <1>2, <1>3, FirstIs
  <1>5. i # 0 => (WrongSlash(RouteTable[i], path) <=> WrongAt(i, path))
    BY <1>1, <1>2, WrongSlashAt
  <1>6. Dispatch(method, path) =
          IF S = {} THEN [kind |-> NotServed(path)]
          ELSE IF WrongSlash(RouteTable[FirstOf(S)], path)
                 THEN RedirectTo(ToggleSlash(path))
                 ELSE Told(FirstOf(S), path)
    BY <1>1 DEF Dispatch, Told, S
  <1> QED
    BY <1>2, <1>4, <1>5, <1>6 DEF i

\* Any other path is sent to the clean one.
LEMMA UncleanAnswer ==
    ASSUME NEW path \in Path, path \notin CleanPaths, NEW method
    PROVE  Dispatch(method, path) = RedirectTo(CleanPath(path))
  <1>1. CleanPath(path) # path
    BY CleanedIsClean
  <1> QED
    BY <1>1 DEF Dispatch

-----------------------------------------------------------------------------
(* The inductive invariant.                                                *)

Documents == {"Nothing", "NotFound", "MethodNotAllowed", "Metrics", "Resources",
              "Register", "Login", "IndexHTML", "View"}

Handlers == Documents \cup {"RedirectToCommon", "GetFile", "Upload", "Remove", "ShareText"}

Works == [handler : Handlers, storage : Segment, permanent : BOOLEAN, file : Segment]

Folder(storage, permanent) ==
    IF permanent THEN <<storage, "permanent">> ELSE <<storage>>

FileIn(storage, permanent, file) ==
    IF permanent THEN <<storage, "permanent", file>> ELSE <<storage, file>>

FolderPath(storage, permanent) ==
    [segs |-> Folder(storage, permanent), slash |-> TRUE]

LoginPath(storage) == [segs |-> <<"login", storage>>, slash |-> TRUE]

RegisterPath == [segs |-> <<"register">>, slash |-> TRUE]

Actions == [Upload |-> "upload", Remove |-> "remove", ShareText |-> "shareText"]

\* What is shown is what its address stands for.
PageInv ==
    /\ page.path \in Path /\ page.is \in Works
    /\ page.is.handler \in Documents
    /\ page.is.handler = "Login" =>
         page.is.storage \in Ordinary /\ page.path = LoginPath(page.is.storage)
    /\ page.is.handler = "Register" => page.path = RegisterPath
    /\ page.is.handler = "View" =>
         /\ page.is.storage \in Ordinary /\ page.is.file = NoName
         /\ page.path = FolderPath(page.is.storage, page.is.permanent)

\* A request on behalf of a goal that a page offers.
Fetching(request, aim) ==
    /\ request.method = "GET"
    /\ aim.storage \in Ordinary
    /\ \/ /\ aim.handler = "View" /\ aim.file = NoName
          /\ request.path.segs = Folder(aim.storage, aim.permanent)
       \/ /\ aim.handler = "GetFile" /\ aim.file \in Ordinary
          /\ request.path.segs = FileIn(aim.storage, aim.permanent, aim.file)

SigningIn(request, aim) ==
    /\ request.method = "POST"
    /\ aim.storage \in Ordinary
    /\ aim = Work("View", aim.storage, FALSE, NoName)
    /\ request.path \in {LoginPath(aim.storage), RegisterPath}

Posting(request, aim) ==
    /\ request.method = "POST"
    /\ aim.storage \in Ordinary
    /\ aim.handler \in DOMAIN Actions /\ aim.file = NoName
    /\ request.path =
         [segs  |-> FileIn(aim.storage, aim.permanent, Actions[aim.handler]),
          slash |-> TRUE]

Toward(request, aim) ==
    Fetching(request, aim) \/ SigningIn(request, aim) \/ Posting(request, aim)

Requests == [method : AnyMethod, path : Path, script : BOOLEAN]

\* A goal whose names the table takes or an address changes.
Astray(aim) == Shadowed(aim) \/ Misspelt(aim)

\* A form is posted to the page it is on, a script to the folder of its page.
Sound(request, aim) ==
    /\ request.method = "POST" /\ ~request.script =>
         \/ request.path = RegisterPath
         \/ aim.storage \in Ordinary /\ request.path = LoginPath(aim.storage)
    /\ request.script /\ aim.storage \notin ReservedStorage => Posting(request, aim)
    /\ aim # Nothing /\ ~Astray(aim) => Toward(request, aim)

GoingInv ==
    ~Idle => going \in Requests /\ Sound(going, goal)

GoalInv ==
    /\ goal \in Works /\ took \in Works
    /\ Idle /\ goal # Nothing /\ ~Astray(goal) => took = goal

\* The answer to a GET request ends it.
Final(path) ==
    LET answer == Dispatch("GET", path)
    IN  answer.kind # "redirect" /\ WorkOf(answer).handler # "RedirectToCommon"

HopInv ==
    /\ hops \in 0..2
    /\ hops > 0 /\ ~Idle => going.method = "GET" /\ going.path \in CleanPaths
    /\ hops = 2 /\ ~Idle => Final(going.path)

IInv == PageInv /\ GoingInv /\ GoalInv /\ HopInv

-----------------------------------------------------------------------------
(* The answers to what the pages ask for.                                  *)

\* Tuples of up to three ordinary segments are clean paths.
LEMMA Tuples ==
    ASSUME NEW a \in Ordinary, NEW b \in Ordinary, NEW c \in Ordinary,
           NEW slash \in BOOLEAN
    PROVE  /\ [segs |-> <<a>>, slash |-> slash] \in CleanPaths
           /\ [segs |-> <<a, b>>, slash |-> slash] \in CleanPaths
           /\ [segs |-> <<a, b, c>>, slash |-> slash] \in CleanPaths
  <1> HIDE DEF Ordinary
  <1>1. <<a>> \in Seq(Ordinary) /\ <<a, b>> \in Seq(Ordinary)
        /\ <<a, b, c>> \in Seq(Ordinary)
    OBVIOUS
  <1>2. <<a>> # <<>> /\ <<a, b>> # <<>> /\ <<a, b, c>> # <<>>
    OBVIOUS
  <1> QED
    BY <1>1, <1>2 DEF CleanPaths

LEMMA Names ==
    /\ Words \subseteq Ordinary
    /\ \A t \in Ordinary : t \in Segment /\ t \notin {"", ".", ".."}
    /\ NoName \in Segment /\ NoName \notin Ordinary
  BY SegmentAssumption DEF Ordinary, Dots, Words, NoName

LEMMA Lengths ==
    ASSUME NEW a, NEW b, NEW c
    PROVE  /\ Len(<<a>>) = 1 /\ <<a>>[1] = a
           /\ Len(<<a, b>>) = 2 /\ <<a, b>>[1] = a /\ <<a, b>>[2] = b
           /\ Len(<<a, b, c>>) = 3 /\ <<a, b, c>>[1] = a
           /\ <<a, b, c>>[2] = b /\ <<a, b, c>>[3] = c
  OBVIOUS

\* A request that an entry serves whose final slash is right or wrong.
Answers(method, path, work) ==
    LET answer == Dispatch(method, path)
    IN  answer.kind = "handler" /\ WorkOf(answer) = work

LEMMA AnswerAt ==
    ASSUME NEW path \in CleanPaths, NEW method \in AnyMethod,
           Place(method, path) \in 1..17
    PROVE  LET i == Place(method, path)
           IN  IF WrongAt(i, path)
                 THEN Dispatch(method, path) = RedirectTo(ToggleSlash(path))
                 ELSE Answers(method, path, WorkAt(i, path.segs))
  <1> DEFINE i == Place(method, path)
  <1>1. i # 0
    OBVIOUS
  <1>2. CASE WrongAt(i, path)
    BY <1>1, <1>2, CleanAnswer
  <1>3. CASE ~WrongAt(i, path)
    <2>1. Dispatch(method, path) = Told(i, path)
      BY <1>1, <1>3, CleanAnswer
    <2>2. WorkOf(Told(i, path)) = WorkAt(i, path.segs)
      BY ToldWork
    <2>3. Told(i, path).kind = "handler"
      BY DEF Told
    <2> QED
      BY <1>3, <2>1, <2>2, <2>3 DEF Answers
  <1> QED
    BY <1>2, <1>3

\* The page of a folder, but for a temporary one whose name is reserved.
LEMMA FolderAnswer ==
    ASSUME NEW name \in Ordinary, NEW permanent \in BOOLEAN, NEW slash \in BOOLEAN,
           name \notin ReservedStorage
    PROVE  LET path == [segs |-> Folder(name, permanent), slash |-> slash]
           IN  /\ path \in CleanPaths
               /\ IF slash THEN Answers("GET", path, Work("View", name, permanent, NoName))
                           ELSE Dispatch("GET", path) = RedirectTo(ToggleSlash(path))
  <1> DEFINE path == [segs |-> Folder(name, permanent), slash |-> slash]
             i == IF permanent THEN 9 ELSE 11
  <1>1. path \in CleanPaths
    BY Tuples, Names DEF Words, Folder
  <1>2. Place("GET", path) = i
    BY Lengths DEF Place, PlaceOfGet, Folder, ReservedStorage
  <1>3. "GET" \in AnyMethod /\ i \in 1..17
    BY DEF AnyMethod
  <1>4. WrongAt(i, path) <=> ~slash
    BY DEF WrongAt
  <1>5. WorkAt(i, path.segs) = Work("View", name, permanent, NoName)
    <2>1. path.segs[1] = name /\ name # NoName
      BY Lengths, Names DEF Folder
    <2>2. HandlerAt[i] = "View" /\ StorageAt(i, path.segs) = name
          /\ FileAt(i, path.segs) = NoName /\ PermanentAt(i, path.segs) = permanent
      BY <2>1 DEF HandlerAt, StorageAt, FileAt, PermanentAt
    <2> QED
      BY <2>2 DEF WorkAt
  <1> HIDE DEF path, i
  <1>6. IF slash THEN Answers("GET", path, Work("View", name, permanent, NoName))
                 ELSE Dispatch("GET", path) = RedirectTo(ToggleSlash(path))
    BY <1>1, <1>2, <1>3, <1>4, <1>5, AnswerAt
  <1> QED
    BY <1>1, <1>6 DEF path

\* A file of a folder.
LEMMA FileAnswer ==
    ASSUME NEW name \in Ordinary, NEW permanent \in BOOLEAN, NEW file \in Ordinary,
           NEW slash \in BOOLEAN, name \notin ReservedStorage, file # "index.html",
           file = "permanent" => permanent
    PROVE  LET path == [segs |-> FileIn(name, permanent, file), slash |-> slash]
           IN  /\ path \in CleanPaths
               /\ IF slash THEN Answers("GET", path, Work("GetFile", name, permanent, file))
                           ELSE Dispatch("GET", path) = RedirectTo(ToggleSlash(path))
  <1> DEFINE path == [segs |-> FileIn(name, permanent, file), slash |-> slash]
             i == IF permanent THEN 8 ELSE 10
  <1>1. path \in CleanPaths
    BY Tuples, Names DEF Words, FileIn
  <1>2. Place("GET", path) = i
    BY Lengths DEF Place, PlaceOfGet, FileIn, ReservedStorage
  <1>3. "GET" \in AnyMethod /\ i \in 1..17
    BY DEF AnyMethod
  <1>4. WrongAt(i, path) <=> ~slash
    BY DEF WrongAt
  <1>5. WorkAt(i, path.segs) = Work("GetFile", name, permanent, file)
    <2>1. path.segs[1] = name /\ name # NoName
          /\ file = IF permanent THEN path.segs[3] ELSE path.segs[2]
      BY Lengths, Names DEF FileIn
    <2>2. HandlerAt[i] = "GetFile" /\ StorageAt(i, path.segs) = name
          /\ FileAt(i, path.segs) = file /\ PermanentAt(i, path.segs) = permanent
      BY <2>1 DEF HandlerAt, StorageAt, FileAt, PermanentAt
    <2> QED
      BY <2>2 DEF WorkAt
  <1> HIDE DEF path, i
  <1>6. IF slash THEN Answers("GET", path, Work("GetFile", name, permanent, file))
                 ELSE Dispatch("GET", path) = RedirectTo(ToggleSlash(path))
    BY <1>1, <1>2, <1>3, <1>4, <1>5, AnswerAt
  <1> QED
    BY <1>1, <1>6 DEF path

\* What the scripts of a page post.
LEMMA ActionAnswer ==
    ASSUME NEW name \in Ordinary, NEW permanent \in BOOLEAN,
           NEW handler \in DOMAIN Actions, name \notin ReservedStorage
    PROVE  LET path == [segs  |-> FileIn(name, permanent, Actions[handler]),
                        slash |-> TRUE]
           IN  /\ path \in CleanPaths
               /\ Answers("POST", path, Work(handler, name, permanent, NoName))
  <1> DEFINE path == [segs  |-> FileIn(name, permanent, Actions[handler]), slash |-> TRUE]
             i == (CASE handler = "Upload" -> 12 [] handler = "Remove" -> 14
                     [] handler = "ShareText" -> 16) + (IF permanent THEN 1 ELSE 0)
  <1>0. /\ handler \in {"Upload", "Remove", "ShareText"}
        /\ Actions["Upload"] = "upload" /\ Actions["Remove"] = "remove"
        /\ Actions["ShareText"] = "shareText"
    BY DEF Actions
  <1>1. path \in CleanPaths
    BY <1>0, Tuples, Names DEF Words, FileIn
  <1>2. Place("POST", path) = i
    BY <1>0, Lengths DEF Place, PlaceOfPost, FileIn, ReservedStorage
  <1>3. "POST" \in AnyMethod /\ i \in 12..17
    BY <1>0 DEF AnyMethod
  <1>4. ~WrongAt(i, path)
    <2>1. i \notin {3, 6, 7}
      <3> HIDE DEF i
      <3> QED
        BY <1>3
    <2>2. path.slash
      OBVIOUS
    <2> HIDE DEF i, path
    <2> QED
      BY <2>1, <2>2 DEF WrongAt
  <1>5. WorkAt(i, path.segs) = Work(handler, name, permanent, NoName)
    <2>1. path.segs[1] = name /\ name # NoName
      BY Lengths, Names DEF FileIn
    <2>2. HandlerAt[i] = handler /\ StorageAt(i, path.segs) = name
          /\ FileAt(i, path.segs) = NoName /\ PermanentAt(i, path.segs) = permanent
      BY <1>0, <2>1 DEF HandlerAt, StorageAt, FileAt, PermanentAt
    <2> QED
      BY <2>2 DEF WorkAt
  <1> HIDE DEF path, i
  <1>6. Answers("POST", path, Work(handler, name, permanent, NoName))
    BY <1>1, <1>2, <1>3, <1>4, <1>5, AnswerAt
  <1> QED
    BY <1>1, <1>6 DEF path

\* The forms of login.html and register.html.
LEMMA FormAnswer ==
    ASSUME NEW name \in Ordinary
    PROVE  /\ LoginPath(name) \in CleanPaths /\ RegisterPath \in CleanPaths
           /\ Answers("POST", LoginPath(name), Work("Login", name, FALSE, NoName))
           /\ Answers("POST", RegisterPath, Work("Register", NoName, FALSE, NoName))
  <1>1. LoginPath(name) \in CleanPaths /\ RegisterPath \in CleanPaths
    BY Tuples, Names DEF Words, LoginPath, RegisterPath
  <1>2. Place("POST", LoginPath(name)) = 5 /\ Place("POST", RegisterPath) = 4
    BY Lengths DEF Place, PlaceOfPost, LoginPath, RegisterPath
  <1>6. 5 \in 1..17 /\ 4 \in 1..17
    OBVIOUS
  <1>3. "POST" \in AnyMethod /\ ~WrongAt(5, LoginPath(name)) /\ ~WrongAt(4, RegisterPath)
    BY DEF AnyMethod, WrongAt, LoginPath, RegisterPath
  <1>4. WorkAt(5, LoginPath(name).segs) = Work("Login", name, FALSE, NoName)
    <2>1. LoginPath(name).segs[2] = name
      BY Lengths DEF LoginPath
    <2>2. HandlerAt[5] = "Login" /\ StorageAt(5, LoginPath(name).segs) = name
          /\ FileAt(5, LoginPath(name).segs) = NoName
      BY <2>1 DEF HandlerAt, StorageAt, FileAt
    <2>3. PermanentAt(5, LoginPath(name).segs) = FALSE
      BY DEF PermanentAt
    <2> QED
      BY <2>2, <2>3 DEF WorkAt
  <1>5. WorkAt(4, RegisterPath.segs) = Work("Register", NoName, FALSE, NoName)
    <2>2. HandlerAt[4] = "Register" /\ StorageAt(4, RegisterPath.segs) = NoName
          /\ FileAt(4, RegisterPath.segs) = NoName
      BY DEF HandlerAt, StorageAt, FileAt
    <2>3. PermanentAt(4, RegisterPath.segs) = FALSE
      BY DEF PermanentAt
    <2> QED
      BY <2>2, <2>3 DEF WorkAt
  <1> QED
    <2>1. Answers("POST", LoginPath(name), Work("Login", name, FALSE, NoName))
      BY <1>1, <1>2, <1>3, <1>4, <1>6, AnswerAt
    <2>2. Answers("POST", RegisterPath, Work("Register", NoName, FALSE, NoName))
      BY <1>1, <1>2, <1>3, <1>5, <1>6, AnswerAt
    <2> QED
      BY <1>1, <2>1, <2>2

-----------------------------------------------------------------------------
(* The answers to any request.                                             *)

\* What a place says of the path.
LEMMA PlaceLength ==
    ASSUME NEW path \in Path, NEW method \in AnyMethod
    PROVE  LET i == Place(method, path)
               s == path.segs
           IN  /\ i = 2 => Len(s) = 0
               /\ i = 4 => Len(s) = 1 /\ s[1] = "register"
               /\ i = 5 => Len(s) = 2 /\ s[1] = "login"
               /\ i >= 6 => Len(s) >= 1
               /\ i = 8 => Len(s) = 3
               /\ i = 9 => Len(s) = 2 /\ s[2] = "permanent"
               /\ i = 10 => Len(s) = 2
               /\ i = 11 => Len(s) = 1
               /\ method = "GET" => i < 12
               /\ i \in 0..17
  <1>1. Place(method, path) \in 0..17
    BY Placed
  <1>2. Len(path.segs) \in Nat
    BY DEF Path
  <1>3. CASE method = "GET"
    BY <1>1, <1>2, <1>3 DEF Place, PlaceOfGet
  <1>4. CASE method # "GET"
    BY <1>1, <1>2, <1>4 DEF Place, PlaceOfPost
  <1> QED
    BY <1>3, <1>4

LEMMA WorkTypes ==
    ASSUME NEW path \in Path, NEW method \in AnyMethod, Place(method, path) \in 1..17
    PROVE  WorkAt(Place(method, path), path.segs) \in Works
  <1> DEFINE i == Place(method, path)
             s == path.segs
  <1>1. s \in Seq(Segment) /\ Len(s) \in Nat /\ \A k \in 1..Len(s) : s[k] \in Segment
    BY DEF Path
  <1>2. StorageAt(i, s) \in Segment
    <2>1. i = 5 => s[2] \in Segment
      BY <1>1, PlaceLength
    <2>2. i >= 6 => s[1] \in Segment
      BY <1>1, PlaceLength
    <2> HIDE DEF i, s
    <2> QED
      BY <2>1, <2>2, Names DEF StorageAt
  <1>3. FileAt(i, s) \in Segment
    <2>1. i = 8 => s[3] \in Segment
      BY <1>1, PlaceLength
    <2>2. i = 10 => s[2] \in Segment
      BY <1>1, PlaceLength
    <2> HIDE DEF i, s
    <2> QED
      BY <2>1, <2>2, Names DEF FileAt
  <1>4. PermanentAt(i, s) \in BOOLEAN
    BY DEF PermanentAt
  <1>5. HandlerAt[i] \in Handlers
    BY DEF HandlerAt, Handlers, Documents
  <1> HIDE DEF i, s
  <1>6. WorkAt(i, s) \in Works
    BY <1>2, <1>3, <1>4, <1>5 DEF WorkAt, Works, Work
  <1> QED
    BY <1>6 DEF i, s

\* The root is always where it should be, so that a toggled path is clean.
LEMMA ToggledClean ==
    ASSUME NEW path \in CleanPaths, NEW method \in AnyMethod,
           Place(method, path) \in 1..17, WrongAt(Place(method, path), path)
    PROVE  ToggleSlash(path) \in CleanPaths
  <1>1. path \in Path /\ path \in [segs : Seq(Ordinary), slash : BOOLEAN]
    BY DEF CleanPaths, Path, Ordinary
  <1>2. path.segs # <<>>
    <2> SUFFICES ASSUME path.segs = <<>> PROVE FALSE
      OBVIOUS
    <2>1. path.slash /\ Len(path.segs) = 0
      BY DEF CleanPaths
    <2>2. Place(method, path) \in {0, 2}
      BY <2>1 DEF Place, PlaceOfGet, PlaceOfPost
    <2> QED
      BY <2>1, <2>2 DEF WrongAt
  <1>3. ToggleSlash(path) = [segs |-> path.segs, slash |-> ~path.slash]
    BY <1>1 DEF ToggleSlash
  <1> QED
    BY <1>1, <1>2, <1>3 DEF CleanPaths

\* A path whose slash was put right is not redirected again.
LEMMA ToggleFinal ==
    ASSUME NEW path \in CleanPaths,
           Place("GET", path) \in 1..17, WrongAt(Place("GET", path), path)
    PROVE  Final(ToggleSlash(path))
  <1> DEFINE q == ToggleSlash(path)
             i == Place("GET", path)
             j == Place("GET", q)
  <1>1. path \in Path /\ path \in [segs : Seq(Ordinary), slash : BOOLEAN]
    BY DEF CleanPaths, Path, Ordinary
  <1>2. q.segs = path.segs /\ q.slash = ~path.slash
    BY <1>1 DEF ToggleSlash
  <1>3. "GET" \in AnyMethod
    BY DEF AnyMethod
  <1>4. q \in CleanPaths /\ q \in Path
    BY <1>3, ToggledClean DEF CleanPaths, Path, Ordinary
  <1>5. i # 3 /\ i # 2
    <2>1. i = 2 => path.segs = <<>>
      BY <1>1, <1>3, PlaceLength
    <2>2. i = 2 => path.slash
      BY <2>1 DEF CleanPaths
    <2> QED
      BY <2>2 DEF WrongAt
  <1>6. j = i \/ j = 3
    <2>1. i = PlaceOfGet(path.segs, path.slash) /\ j = PlaceOfGet(path.segs, ~path.slash)
      BY <1>2 DEF Place
    <2> HIDE DEF i, j
    <2> QED
      BY <1>5, <2>1 DEF PlaceOfGet
  <1>7. j \in 1..17 /\ HandlerAt[j] # "RedirectToCommon"
    BY <1>5, <1>6 DEF HandlerAt
  <1>8. ~WrongAt(j, q)
    BY <1>1, <1>2, <1>5, <1>6 DEF WrongAt
  <1> HIDE DEF q, i, j
  <1>9. Answers("GET", q, WorkAt(j, q.segs))
    BY <1>3, <1>4, <1>7, <1>8, AnswerAt DEF j
  <1>10. WorkAt(j, q.segs).handler # "RedirectToCommon"
    BY <1>7 DEF WorkAt, Work
  <1> QED
    BY <1>9, <1>10 DEF Final, Answers, q

\* Whatever is asked is redirected to a clean path, refused, or handled by the
\* entry at its place.
Redirects(method, path) ==
    /\ Dispatch(method, path).kind = "redirect"
    /\ Dispatch(method, path).path \in CleanPaths
    /\ path \in CleanPaths /\ method = "GET" => Final(Dispatch(method, path).path)

Refuses(method, path) ==
    /\ Dispatch(method, path).kind \in {"NotFound", "MethodNotAllowed"}
    /\ WorkOf(Dispatch(method, path)) =
         Work(Dispatch(method, path).kind, NoName, FALSE, NoName)

Handles(method, path) ==
    LET i == Place(method, path)
    IN  /\ path \in CleanPaths
        /\ i \in 1..17 /\ ~WrongAt(i, path)
        /\ Answers(method, path, WorkAt(i, path.segs))

LEMMA AnswerKinds ==
    ASSUME NEW path \in Path, NEW method \in AnyMethod
    PROVE  Redirects(method, path) \/ Refuses(method, path) \/ Handles(method, path)
  <1> DEFINE answer == Dispatch(method, path)
             i == Place(method, path)
  <1>0. \A q : RedirectTo(q).kind = "redirect" /\ RedirectTo(q).path = q
    BY DEF RedirectTo
  <1>1. CASE path \notin CleanPaths
    <2>1. answer = RedirectTo(CleanPath(path)) /\ CleanPath(path) \in CleanPaths
      BY <1>1, UncleanAnswer, CleanedIsClean
    <2> QED
      BY <1>0, <1>1, <2>1 DEF Redirects
  <1>2. CASE path \in CleanPaths /\ i = 0
    <2>1. answer = [kind |-> NotServed(path)]
      BY <1>2, CleanAnswer
    <2>2. NotServed(path) \in {"NotFound", "MethodNotAllowed"}
      BY DEF NotServed
    <2>3. answer.kind = NotServed(path)
      BY <2>1
    <2> HIDE DEF answer
    <2>4. answer.kind # "handler"
      BY <2>2, <2>3
    <2>5. WorkOf(answer) = Work(answer.kind, NoName, FALSE, NoName)
      BY <2>4 DEF WorkOf
    <2> QED
      BY <2>2, <2>3, <2>5 DEF Refuses, answer
  <1>3. CASE path \in CleanPaths /\ i # 0 /\ WrongAt(i, path)
    <2>1. i \in 1..17
      BY <1>3, PlaceLength
    <2>2. answer = RedirectTo(ToggleSlash(path))
      BY <1>3, <2>1, AnswerAt
    <2>3. ToggleSlash(path) \in CleanPaths
      BY <1>3, <2>1, ToggledClean
    <2>4. method = "GET" => Final(ToggleSlash(path))
      BY <1>3, <2>1, ToggleFinal
    <2> QED
      BY <1>0, <2>2, <2>3, <2>4 DEF Redirects
  <1>4. CASE path \in CleanPaths /\ i # 0 /\ ~WrongAt(i, path)
    <2>1. i \in 1..17
      BY <1>4, PlaceLength
    <2> QED
      BY <1>4, <2>1, AnswerAt DEF Handles
  <1> QED
    BY <1>1, <1>2, <1>3, <1>4

\* What is shown at a path is what the path stands for.
LEMMA ShownPage ==
    ASSUME NEW path \in CleanPaths, NEW method \in AnyMethod, Handles(method, path)
    PROVE  LET work == WorkAt(Place(method, path), path.segs)
           IN  /\ work \in Works
               /\ work.handler = "Login" =>
                    work.storage \in Ordinary /\ path = LoginPath(work.storage)
               /\ work.handler = "Register" => path = RegisterPath
               /\ work.handler = "View" =>
                    /\ work.storage \in Ordinary /\ work.file = NoName
                    /\ path = FolderPath(work.storage, work.permanent)
               /\ method = "GET" =>
                    work.handler \in Documents \cup {"RedirectToCommon", "GetFile"}
  <1> DEFINE i == Place(method, path)
             s == path.segs
             work == WorkAt(i, s)
  <1>1. path \in Path /\ s \in Seq(Ordinary) /\ path.slash \in BOOLEAN
        /\ path = [segs |-> s, slash |-> path.slash]
        /\ \A k \in 1..Len(s) : s[k] \in Ordinary
    BY DEF CleanPaths, Path, Ordinary
  <1>2. i \in 1..17 /\ ~WrongAt(i, path)
    BY DEF Handles
  <1>3. /\ work.handler = HandlerAt[i] /\ work.storage = StorageAt(i, s)
        /\ work.permanent = PermanentAt(i, s) /\ work.file = FileAt(i, s)
    BY DEF WorkAt, Work
  <1>4. work \in Works
    BY <1>1, <1>2, WorkTypes
  <1>5. i \notin {3, 6, 7} => path.slash
    BY <1>1, <1>2 DEF WrongAt
  <1>6. /\ HandlerAt[i] = "Login" => i = 5
        /\ HandlerAt[i] = "Register" => i = 4
        /\ HandlerAt[i] = "View" => i \in {9, 11}
        /\ i < 12 => HandlerAt[i] \in Documents \cup {"RedirectToCommon", "GetFile"}
    BY <1>2 DEF HandlerAt, Documents
  <1>7. ASSUME i = 5
        PROVE  StorageAt(i, s) \in Ordinary /\ path = LoginPath(StorageAt(i, s))
    <2>1. Len(s) = 2 /\ s[1] = "login"
      BY <1>1, <1>7, PlaceLength
    <2>2. s = <<"login", s[2]>> /\ s[2] \in Ordinary
      BY <1>1, <2>1
    <2>3. path = [segs |-> s, slash |-> TRUE] /\ StorageAt(i, s) = s[2]
      BY <1>1, <1>5, <1>7 DEF StorageAt
    <2> HIDE DEF i, s
    <2> QED
      BY <2>2, <2>3 DEF LoginPath
  <1>8. ASSUME i = 4 PROVE path = RegisterPath
    <2>1. Len(s) = 1 /\ s[1] = "register"
      BY <1>1, <1>8, PlaceLength
    <2>2. s = <<"register">>
      BY <1>1, <2>1
    <2> QED
      BY <1>1, <1>5, <1>8, <2>2 DEF RegisterPath
  <1>9. ASSUME i \in {9, 11}
        PROVE  /\ StorageAt(i, s) \in Ordinary /\ FileAt(i, s) = NoName
               /\ path = FolderPath(StorageAt(i, s), PermanentAt(i, s))
    <2>1. StorageAt(i, s) = s[1] /\ FileAt(i, s) = NoName
      BY <1>9 DEF StorageAt, FileAt
    <2>2. CASE i = 9
      <3>1. Len(s) = 2 /\ s[2] = "permanent"
        BY <1>1, <2>2, PlaceLength
      <3>2. s = <<s[1], "permanent">> /\ s[1] \in Ordinary
        BY <1>1, <3>1
      <3>3. PermanentAt(i, s)
        BY <2>2, <3>2, Names DEF PermanentAt
      <3>4. s = Folder(s[1], PermanentAt(i, s))
        BY <3>2, <3>3 DEF Folder
      <3> HIDE DEF i, s
      <3> QED
        BY <1>1, <1>5, <2>1, <2>2, <3>2, <3>4 DEF FolderPath
    <2>3. CASE i = 11
      <3>1. Len(s) = 1
        BY <1>1, <2>3, PlaceLength
      <3>2. s = <<s[1]>> /\ s[1] \in Ordinary
        BY <1>1, <3>1
      <3>3. ~PermanentAt(i, s)
        BY <2>3 DEF PermanentAt
      <3>4. s = Folder(s[1], PermanentAt(i, s))
        BY <3>2, <3>3 DEF Folder
      <3> HIDE DEF i, s
      <3> QED
        BY <1>1, <1>5, <2>1, <2>3, <3>2, <3>4 DEF FolderPath
    <2> QED
      BY <1>9, <2>2, <2>3
  <1>10. method = "GET" => i < 12
    BY <1>1, PlaceLength
  <1> HIDE DEF i, s, work
  <1>11. /\ work.handler = "Login" =>
              work.storage \in Ordinary /\ path = LoginPath(work.storage)
         /\ work.handler = "Register" => path = RegisterPath
         /\ work.handler = "View" =>
              /\ work.storage \in Ordinary /\ work.file = NoName
              /\ path = FolderPath(work.storage, work.permanent)
         /\ method = "GET" =>
              work.handler \in Documents \cup {"RedirectToCommon", "GetFile"}
    BY <1>3, <1>6, <1>7, <1>8, <1>9, <1>10
  <1> QED
    BY <1>4, <1>11 DEF i, s, work

-----------------------------------------------------------------------------
(* The steps.                                                              *)

LEMMA NothingIsWork == Nothing \in Works /\ Nothing.handler = "Nothing" /\ Root \in Path
  <1>1. Nothing \in Works /\ Nothing.handler = "Nothing"
    BY Names DEF Nothing, Work, Works, Handlers, Documents
  <1>2. <<>> \in Seq(Segment)
    OBVIOUS
  <1> QED
    BY <1>1, <1>2 DEF Root, Path

LEMMA InitIInv == Init => IInv
  <1> SUFFICES ASSUME Init PROVE IInv
    OBVIOUS
  <1>1. Idle
    BY DEF Init, Idle
  <1>2. PageInv
    BY NothingIsWork DEF Init, PageInv, NewTab, Documents
  <1>3. GoalInv
    BY NothingIsWork DEF Init, GoalInv
  <1> QED
    BY <1>1, <1>2, <1>3 DEF IInv, GoingInv, HopInv, Init

\* A user's action that asks for what it says.
LEMMA GoIInv ==
    ASSUME IInv, NEW request \in Requests, NEW aim \in Works, Go(request, aim),
           Sound(request, aim)
    PROVE  IInv'
  <1>1. ~Idle'
    BY DEF Go, Idle, NotGoing, Requests, AnyMethod
  <1>2. PageInv'
    BY DEF Go, IInv, PageInv
  <1>3. GoingInv'
    BY <1>1 DEF Go, GoingInv
  <1>4. GoalInv'
    BY <1>1 DEF Go, IInv, GoalInv
  <1>5. HopInv'
    BY DEF Go, HopInv
  <1> QED
    BY <1>2, <1>3, <1>4, <1>5 DEF IInv

\* What the user's actions on a page of a folder ask for.
LEMMA ViewedPage ==
    ASSUME IInv, OnView
    PROVE  /\ page.is = Work("View", page.is.storage, page.is.permanent, NoName)
           /\ page.is.storage \in Ordinary /\ page.is.storage \in Segment
           /\ page.is.permanent \in BOOLEAN
           /\ page.path = FolderPath(page.is.storage, page.is.permanent)
           /\ page.path \in Path
  <1>1. page.is \in Works /\ page.path \in Path
    BY DEF IInv, PageInv
  <1>2. /\ page.is.handler = "View"
        /\ page.is.storage \in Ordinary /\ page.is.file = NoName
        /\ page.path = FolderPath(page.is.storage, page.is.permanent)
    BY DEF OnView, IInv, PageInv
  <1>3. page.is = Work("View", page.is.storage, page.is.permanent, NoName)
    BY <1>1, <1>2 DEF Works, Work
  <1> QED
    BY <1>1, <1>2, <1>3 DEF Works

\* One segment more.
LEMMA OneMore ==
    ASSUME NEW S, NEW a \in S, NEW b \in S, NEW c \in S
    PROVE  <<a>> \o <<c>> = <<a, c>> /\ <<a, b>> \o <<c>> = <<a, b, c>>
  <1>1. /\ <<a>> \in Seq(S) /\ <<c>> \in Seq(S) /\ <<a, b>> \in Seq(S)
        /\ <<a, c>> \in Seq(S) /\ <<a, b, c>> \in Seq(S)
    OBVIOUS
  <1>2. Len(<<c>>) = 1 /\ <<c>>[1] = c
    OBVIOUS
  <1>3. <<a>> \o <<c>> = <<a, c>>
    <2> DEFINE t == <<a>> \o <<c>>
               u == <<a, c>>
    <2>1. t \in Seq(S) /\ Len(t) = 2 /\ t[1] = a /\ t[2] = c
      BY <1>1, <1>2, ConcatProperties, Lengths
    <2>2. u \in Seq(S) /\ Len(u) = 2 /\ u[1] = a /\ u[2] = c
      BY <1>1, Lengths
    <2> HIDE DEF t, u
    <2>3. \A i \in 1..2 : t[i] = u[i]
      BY <2>1, <2>2
    <2>4. t = u
      BY <2>1, <2>2, <2>3, SeqEqual
    <2> QED
      BY <2>4 DEF t, u
  <1>4. <<a, b>> \o <<c>> = <<a, b, c>>
    <2> DEFINE t == <<a, b>> \o <<c>>
               u == <<a, b, c>>
    <2>1. t \in Seq(S) /\ Len(t) = 3 /\ t[1] = a /\ t[2] = b /\ t[3] = c
      BY <1>1, <1>2, ConcatProperties, Lengths
    <2>2. u \in Seq(S) /\ Len(u) = 3 /\ u[1] = a /\ u[2] = b /\ u[3] = c
      BY <1>1, Lengths
    <2> HIDE DEF t, u
    <2>3. \A i \in 1..3 : t[i] = u[i]
      BY <2>1, <2>2
    <2>4. t = u
      BY <2>1, <2>2, <2>3, SeqEqual
    <2> QED
      BY <2>4 DEF t, u
  <1> QED
    BY <1>3, <1>4

\* A relative address on the page of a folder.
LEMMA Resolved ==
    ASSUME IInv, OnView, NEW name \in Segment, NEW slash \in BOOLEAN
    PROVE  /\ Resolve(page.path, <<name>>, slash) =
                [segs  |-> FileIn(page.is.storage, page.is.permanent, name),
                 slash |-> slash]
           /\ Resolve(page.path, <<name>>, slash) \in Path
  <1> DEFINE s == page.is.storage
  <1>1. page.path.slash /\ page.path.segs = Folder(s, page.is.permanent)
        /\ s \in Segment /\ page.is.permanent \in BOOLEAN
    BY ViewedPage DEF FolderPath
  <1>2. Resolve(page.path, <<name>>, slash) =
          [segs |-> Folder(s, page.is.permanent) \o <<name>>, slash |-> slash]
    BY <1>1 DEF Resolve
  <1>3. "permanent" \in Segment
    BY Names DEF Words
  <1>4. Folder(s, page.is.permanent) \o <<name>> = FileIn(s, page.is.permanent, name)
    <2> HIDE DEF s
    <2>1. CASE page.is.permanent
      <3>1. <<s, "permanent">> \o <<name>> = <<s, "permanent", name>>
        BY <1>1, <1>3, OneMore
      <3> QED
        BY <2>1, <3>1 DEF Folder, FileIn
    <2>2. CASE ~page.is.permanent
      <3>1. <<s>> \o <<name>> = <<s, name>>
        BY <1>1, <1>3, OneMore
      <3> QED
        BY <2>2, <3>1 DEF Folder, FileIn
    <2> QED
      BY <2>1, <2>2
  <1>5. FileIn(s, page.is.permanent, name) \in Seq(Segment)
    <2> HIDE DEF s
    <2>1. <<s, "permanent", name>> \in Seq(Segment) /\ <<s, name>> \in Seq(Segment)
      BY <1>1, <1>3
    <2> QED
      BY <2>1 DEF FileIn
  <1>6. Resolve(page.path, <<name>>, slash) =
          [segs |-> FileIn(s, page.is.permanent, name), slash |-> slash]
    BY <1>2, <1>4
  <1>7. [segs |-> FileIn(s, page.is.permanent, name), slash |-> slash] \in Path
    <2> DEFINE f == FileIn(s, page.is.permanent, name)
    <2>1. f \in Seq(Segment) /\ f = FileIn(s, page.is.permanent, name)
      BY <1>5
    <2> HIDE DEF f
    <2>2. [segs |-> f, slash |-> slash] \in Path
      BY <2>1 DEF Path
    <2> QED
      BY <2>1, <2>2
  <1> QED
    BY <1>6, <1>7

\* Any other relative address.
LEMMA ResolvedPath ==
    ASSUME NEW path \in Path, NEW link \in Path
    PROVE  Resolve(path, link.segs, link.slash) \in Path
  <1> DEFINE s == path.segs
             base == IF path.slash THEN s ELSE SubSeq(s, 1, Len(s) - 1)
             t == base \o link.segs
  <1>1. s \in Seq(Segment) /\ link.segs \in Seq(Segment) /\ link.slash \in BOOLEAN
    BY DEF Path
  <1>2. SubSeq(s, 1, Len(s) - 1) \in Seq(Segment)
    BY <1>1
  <1>3. base \in Seq(Segment)
    BY <1>1, <1>2
  <1> HIDE DEF base
  <1>4. t \in Seq(Segment)
    BY <1>1, <1>3
  <1>5. Resolve(path, link.segs, link.slash) = [segs |-> t, slash |-> link.slash]
    BY DEF Resolve, base
  <1> HIDE DEF t
  <1> QED
    BY <1>1, <1>4, <1>5 DEF Path

\* The links, forms and scripts of the pages.
LEMMA UserIInv ==
    ASSUME IInv,
           \/ OpenTab \/ Enter \/ OpenPermanent
           \/ \E name \in FileName : OpenFile(name) \/ OpenNothing(name)
           \/ UploadFile \/ RemoveFile \/ ShareText \/ Reload \/ SubmitLogin
           \/ \E name \in StorageName : SubmitRegister(name)
    PROVE  IInv'
  <1>a. ASSUME NEW path \in Path PROVE Get(path) \in Requests /\ Post(path) \in Requests
                                      /\ Ajax(path) \in Requests
    BY DEF Get, Post, Ajax, Requests, AnyMethod
  <1>b. \A path : /\ Get(path).method = "GET" /\ ~Get(path).script /\ Get(path).path = path
                  /\ Post(path).method = "POST" /\ ~Post(path).script
                  /\ Post(path).path = path
                  /\ Ajax(path).method = "POST" /\ Ajax(path).script
                  /\ Ajax(path).path = path
    BY DEF Get, Post, Ajax
  <1>c. \A handler, storage, permanent, file :
          LET work == Work(handler, storage, permanent, file)
          IN  /\ work.handler = handler /\ work.storage = storage
              /\ work.permanent = permanent /\ work.file = file
    BY DEF Work
  <1>d. \A handler \in Handlers, storage \in Segment, permanent \in BOOLEAN,
           file \in Segment : Work(handler, storage, permanent, file) \in Works
    BY DEF Work, Works
  <1>e. {"View", "GetFile", "Upload", "Remove", "ShareText"} \subseteq Handlers
        /\ NoName \in Segment
    BY Names DEF Handlers, Documents
  <1>1. CASE OpenTab
    <2>1. Idle /\ Idle'
      BY <1>1 DEF OpenTab, Idle
    <2>2. PageInv'
      BY <1>1, NothingIsWork DEF OpenTab, PageInv, NewTab, Documents
    <2>3. GoalInv'
      BY <1>1, NothingIsWork DEF OpenTab, GoalInv
    <2>4. HopInv'
      BY <1>1 DEF OpenTab, HopInv
    <2> QED
      BY <2>1, <2>2, <2>3, <2>4 DEF IInv, GoingInv
  <1>2. CASE Enter
    <2>1. PICK path \in Typed : Go(Get(path), Nothing)
      BY <1>2 DEF Enter
    <2>2. Get(path) \in Requests
      BY <1>a, TypedAssumption
    <2>3. Sound(Get(path), Nothing)
      BY <1>b DEF Sound
    <2> QED
      BY <2>1, <2>2, <2>3, NothingIsWork, GoIInv
  <1>3. CASE OpenPermanent
    <2> DEFINE s == page.is.storage
               path == Resolve(page.path, <<"permanent">>, FALSE)
               aim == Work("View", s, TRUE, NoName)
    <2>1. OnView /\ ~page.is.permanent /\ Go(Get(path), aim)
      BY <1>3 DEF OpenPermanent
    <2>2. s \in Ordinary /\ s \in Segment
      BY <2>1, ViewedPage
    <2>3. path = [segs |-> <<s, "permanent">>, slash |-> FALSE] /\ path \in Path
      <3>1. "permanent" \in Segment
        BY Names DEF Words
      <3> QED
        BY <2>1, <3>1, Resolved DEF FileIn
    <2> HIDE DEF s, path
    <2>4. Fetching(Get(path), aim)
      <3>1. /\ aim.handler = "View" /\ aim.storage = s
            /\ aim.permanent = TRUE /\ aim.file = NoName
        BY DEF Work
      <3>2. path.segs = Folder(s, TRUE)
        BY <2>3 DEF Folder
      <3> HIDE DEF aim
      <3> QED
        BY <1>b, <2>2, <3>1, <3>2 DEF Fetching
    <2> HIDE DEF aim
    <2>5. Sound(Get(path), aim)
      BY <1>b, <2>4 DEF Sound, Toward
    <2>6. aim \in Works
      BY <1>d, <1>e, <2>2 DEF aim
    <2> QED
      BY <1>a, <2>1, <2>3, <2>5, <2>6, GoIInv
  <1>4. CASE \E name \in FileName : OpenFile(name)
    <2>1. PICK name \in FileName : OpenFile(name)
      BY <1>4
    <2> DEFINE s == page.is.storage
               path == Resolve(page.path, Link(name).segs, Link(name).slash)
               aim == Work("GetFile", s, page.is.permanent, name)
    <2>2. OnView /\ Go(Get(path), aim) /\ name \notin Inert
      BY <2>1 DEF OpenFile, FileWork
    <2>3. s \in Ordinary /\ s \in Segment /\ page.is.permanent \in BOOLEAN
      BY <2>2, ViewedPage
    <2>4. name \in Segment /\ name # ""
      BY NamesAssumption DEF NoName
    <2>5. path \in Path
      <3>1. page.path \in Path
        BY <2>2, ViewedPage
      <3>2. Link(name) \in Path
        BY <2>4, AddressAssumption
      <3> QED
        BY <3>1, <3>2, ResolvedPath
    <2>6. ItselfIn(Link(name), name) =>
            path = [segs |-> FileIn(s, page.is.permanent, name), slash |-> FALSE]
      <3> SUFFICES ASSUME ItselfIn(Link(name), name)
                   PROVE  path = [segs  |-> FileIn(s, page.is.permanent, name),
                                  slash |-> FALSE]
        OBVIOUS
      <3>1. Link(name).segs = <<name>> /\ Link(name).slash = FALSE
        BY DEF ItselfIn
      <3>2. path = Resolve(page.path, <<name>>, FALSE)
        BY <3>1
      <3> QED
        BY <2>2, <2>4, <3>2, Resolved
    <2>7. name \notin {".", ".."} => name \in Ordinary
      BY <2>4 DEF Ordinary, Dots
    <2>8. aim.handler = "GetFile" /\ aim.file = name /\ aim.storage = s
          /\ aim.permanent = page.is.permanent
      BY DEF Work
    <2> HIDE DEF s, path, aim
    <2>9. ASSUME ~Astray(aim) PROVE Fetching(Get(path), aim)
      <3>1. ItselfIn(Link(name), name)
        BY <2>8, <2>9 DEF Astray, Misspelt
      <3>2. path.segs = FileIn(s, page.is.permanent, name)
        BY <2>6, <3>1
      <3>3. name \in Ordinary
        BY <2>7, <2>8, <2>9 DEF Astray, Shadowed
      <3> QED
        BY <1>b, <2>3, <2>8, <3>2, <3>3 DEF Fetching
    <2>10. Sound(Get(path), aim)
      BY <1>b, <2>9 DEF Sound, Toward
    <2>11. aim \in Works
      BY <1>d, <1>e, <2>3, <2>4 DEF aim
    <2> QED
      BY <1>a, <2>2, <2>5, <2>10, <2>11, GoIInv
  <1>10. CASE \E name \in FileName : OpenNothing(name)
    <2>1. PICK name \in FileName : OpenNothing(name)
      BY <1>10
    <2> DEFINE aim == Work("GetFile", page.is.storage, page.is.permanent, name)
    <2>2. /\ OnView /\ Idle /\ name \in Inert
          /\ page' \in {page, NewTab}
          /\ goal' = aim /\ took' = Nothing /\ hops' = 0 /\ going' = going
      BY <2>1 DEF OpenNothing, FileWork
    <2>3. aim.handler = "GetFile" /\ aim.file = name
      BY DEF Work
    <2>4. aim \in Works
      <3>1. /\ page.is.storage \in Segment /\ page.is.permanent \in BOOLEAN
            /\ name \in Segment
        BY <2>2, ViewedPage, NamesAssumption
      <3> QED
        BY <1>d, <1>e, <3>1
    <2> HIDE DEF aim
    <2>5. Astray(aim)
      BY <2>2, <2>3 DEF Astray, Misspelt
    <2>6. Idle'
      BY <2>2 DEF Idle
    <2>7. PageInv'
      <3>1. PageInv /\ (page' = page \/ page' = NewTab)
        BY <2>2 DEF IInv
      <3> QED
        BY <3>1, NothingIsWork DEF PageInv, NewTab, Documents
    <2>8. GoalInv'
      BY <2>2, <2>4, <2>5, NothingIsWork DEF GoalInv
    <2>9. HopInv'
      BY <2>2, <2>6 DEF HopInv
    <2> QED
      BY <2>6, <2>7, <2>8, <2>9 DEF IInv, GoingInv
  <1>5. ASSUME NEW handler \in DOMAIN Actions, PageAction(Actions[handler], handler)
        PROVE  IInv'
    <2> DEFINE s == page.is.storage
               path == Resolve(page.path, <<Actions[handler]>>, TRUE)
               aim == Work(handler, s, page.is.permanent, NoName)
    <2>1. OnView /\ Go(Ajax(path), aim)
      BY <1>5 DEF PageAction
    <2>2. s \in Ordinary /\ s \in Segment /\ page.is.permanent \in BOOLEAN
      BY <2>1, ViewedPage
    <2>3. Actions[handler] \in Segment /\ handler \in Handlers
      <3>1. {"upload", "remove", "shareText"} \subseteq Segment
        BY Names DEF Words
      <3> QED
        BY <3>1, <1>e DEF Actions
    <2>4. path = [segs |-> FileIn(s, page.is.permanent, Actions[handler]), slash |-> TRUE]
          /\ path \in Path
      BY <2>1, <2>3, Resolved
    <2> HIDE DEF s, path
    <2>5. Posting(Ajax(path), aim)
      <3>1. /\ aim.handler = handler /\ aim.storage = s
            /\ aim.permanent = page.is.permanent /\ aim.file = NoName
        BY DEF Work
      <3> HIDE DEF aim
      <3> QED
        BY <1>b, <2>2, <2>4, <3>1 DEF Posting
    <2> HIDE DEF aim
    <2>6. Sound(Ajax(path), aim)
      BY <1>b, <2>5 DEF Sound, Toward
    <2>7. aim \in Works
      BY <1>d, <1>e, <2>2, <2>3 DEF aim
    <2> QED
      BY <1>a, <2>1, <2>4, <2>6, <2>7, GoIInv
  <1>6. CASE UploadFile \/ RemoveFile \/ ShareText
    <2>1. /\ {"Upload", "Remove", "ShareText"} \subseteq DOMAIN Actions
          /\ Actions["Upload"] = "upload" /\ Actions["Remove"] = "remove"
          /\ Actions["ShareText"] = "shareText"
      BY DEF Actions
    <2> QED
      BY <1>5, <1>6, <2>1 DEF UploadFile, RemoveFile, ShareText
  <1>7. CASE Reload
    <2>1. OnView /\ Go(Get(page.path), page.is)
      BY <1>7 DEF Reload
    <2>2. Fetching(Get(page.path), page.is)
      <3>1. page.path.segs = Folder(page.is.storage, page.is.permanent)
        BY <2>1, ViewedPage DEF FolderPath
      <3>2. page.is.handler = "View" /\ page.is.file = NoName
        BY <2>1 DEF OnView, IInv, PageInv
      <3> QED
        BY <1>b, <2>1, <3>1, <3>2, ViewedPage DEF Fetching
    <2>3. Sound(Get(page.path), page.is)
      BY <1>b, <2>2 DEF Sound, Toward
    <2>4. page.path \in Path /\ page.is \in Works
      BY DEF IInv, PageInv
    <2> QED
      BY <1>a, <2>1, <2>3, <2>4, GoIInv
  <1>8. CASE SubmitLogin
    <2> DEFINE aim == Work("View", page.is.storage, FALSE, NoName)
    <2>1. page.is.handler = "Login" /\ Go(Post(page.path), aim)
      BY <1>8 DEF SubmitLogin
    <2>2. page.is.storage \in Ordinary /\ page.path = LoginPath(page.is.storage)
          /\ page.path \in Path
      BY <2>1 DEF IInv, PageInv
    <2>3. aim.storage = page.is.storage /\ SigningIn(Post(page.path), aim)
      <3>1. aim.storage = page.is.storage
            /\ aim = Work("View", page.is.storage, FALSE, NoName)
        BY DEF Work
      <3> HIDE DEF aim
      <3> QED
        BY <1>b, <2>2, <3>1 DEF SigningIn
    <2>4. aim \in Works
      BY <1>d, <1>e, <2>2, Names
    <2> HIDE DEF aim
    <2>5. Sound(Post(page.path), aim)
      BY <1>b, <2>2, <2>3 DEF Sound, Toward
    <2> QED
      BY <1>a, <2>1, <2>2, <2>4, <2>5, GoIInv
  <1>9. CASE \E name \in StorageName : SubmitRegister(name)
    <2>1. PICK name \in StorageName : SubmitRegister(name)
      BY <1>9
    <2> DEFINE aim == Work("View", name, FALSE, NoName)
    <2>2. page.is.handler = "Register" /\ Go(Post(page.path), aim)
      BY <2>1 DEF SubmitRegister
    <2>3. page.path = RegisterPath /\ page.path \in Path
      BY <2>2 DEF IInv, PageInv
    <2>4. name \in Segment /\ name # ""
      BY NamesAssumption DEF NoName
    <2>5. name \notin {".", ".."} => name \in Ordinary
      BY <2>4 DEF Ordinary, Dots
    <2>6. ~Astray(aim) => SigningIn(Post(page.path), aim)
      <3>1. aim.storage = name /\ aim = Work("View", name, FALSE, NoName)
        BY DEF Work
      <3> HIDE DEF aim
      <3> QED
        BY <1>b, <2>3, <2>5, <3>1 DEF SigningIn, Astray, Shadowed
    <2>7. aim \in Works
      BY <1>d, <1>e, <2>4
    <2> HIDE DEF aim
    <2>8. Sound(Post(page.path), aim)
      BY <1>b, <2>3, <2>6 DEF Sound, Toward
    <2> QED
      BY <1>a, <2>2, <2>3, <2>7, <2>8, GoIInv
  <1> QED
    BY <1>1, <1>2, <1>3, <1>4, <1>6, <1>7, <1>8, <1>9, <1>10

\* The answer to a request on behalf of a goal: its own work, a redirect to the
\* same address with its slash put right, or the sign-in it goes through.
LEMMA GoalAnswer ==
    ASSUME NEW request \in Requests, NEW aim \in Works,
           Toward(request, aim), ~Astray(aim)
    PROVE  LET answer == Dispatch(request.method, request.path)
           IN  \/ /\ Fetching(request, aim)
                  /\ answer = RedirectTo(ToggleSlash(request.path))
               \/ /\ Answers(request.method, request.path, aim)
                  /\ aim.handler \notin {"Login", "Register", "RedirectToCommon"}
               \/ /\ SigningIn(request, aim)
                  /\ \/ Answers("POST", request.path, Work("Login", aim.storage, FALSE, NoName))
                     \/ Answers("POST", request.path, Work("Register", NoName, FALSE, NoName))
  <1> DEFINE s == aim.storage
  <1>1. /\ s \notin ReservedStorage /\ aim.permanent \in BOOLEAN
        /\ request.path.slash \in BOOLEAN
        /\ request.path = [segs |-> request.path.segs, slash |-> request.path.slash]
        /\ aim.file # "index.html" /\ (aim.file = "permanent" => aim.permanent)
        /\ aim = Work(aim.handler, s, aim.permanent, aim.file)
    BY DEF Astray, Shadowed, Works, Work, Requests, Path
  <1>2. CASE Fetching(request, aim) /\ aim.handler = "View"
    <2>1. s \in Ordinary /\ aim.file = NoName /\ request.method = "GET"
          /\ request.path.segs = Folder(s, aim.permanent)
      BY <1>2 DEF Fetching
    <2>2. request.path = [segs |-> Folder(s, aim.permanent), slash |-> request.path.slash]
      BY <1>1, <2>1
    <2>3. CASE request.path.slash
      <3>1. Answers("GET", request.path, aim)
        BY <1>1, <1>2, <2>1, <2>2, <2>3, FolderAnswer
      <3> QED
        BY <1>2, <2>1, <3>1
    <2>4. CASE ~request.path.slash
      <3>1. Dispatch("GET", request.path) = RedirectTo(ToggleSlash(request.path))
        BY <1>1, <1>2, <2>1, <2>2, <2>4, FolderAnswer
      <3> QED
        BY <1>2, <2>1, <3>1
    <2> QED
      BY <2>3, <2>4
  <1>3. CASE Fetching(request, aim) /\ aim.handler # "View"
    <2>1. s \in Ordinary /\ aim.file \in Ordinary /\ request.method = "GET"
          /\ aim.handler = "GetFile"
          /\ request.path.segs = FileIn(s, aim.permanent, aim.file)
      BY <1>3 DEF Fetching
    <2>2. request.path = [segs |-> FileIn(s, aim.permanent, aim.file), slash |-> request.path.slash]
      BY <1>1, <2>1
    <2>3. CASE request.path.slash
      <3>1. Answers("GET", request.path, aim)
        BY <1>1, <2>1, <2>2, <2>3, FileAnswer
      <3> QED
        BY <2>1, <3>1
    <2>4. CASE ~request.path.slash
      <3>1. Dispatch("GET", request.path) = RedirectTo(ToggleSlash(request.path))
        BY <1>1, <2>1, <2>2, <2>4, FileAnswer
      <3> QED
        BY <1>3, <2>1, <3>1
    <2> QED
      BY <2>3, <2>4
  <1>4. CASE SigningIn(request, aim)
    <2>1. s \in Ordinary /\ request.path \in {LoginPath(s), RegisterPath}
          /\ request.method = "POST"
      BY <1>4 DEF SigningIn
    <2> QED
      BY <1>4, <2>1, FormAnswer
  <1>5. CASE Posting(request, aim)
    <2>1. /\ s \in Ordinary /\ aim.file = NoName /\ aim.handler \in DOMAIN Actions
          /\ request.method = "POST"
          /\ request.path = [segs  |-> FileIn(s, aim.permanent, Actions[aim.handler]),
                             slash |-> TRUE]
      BY <1>5 DEF Posting
    <2>2. Answers("POST", request.path, Work(aim.handler, s, aim.permanent, NoName))
      BY <1>1, <2>1, ActionAnswer
    <2>3. aim.handler \notin {"Login", "Register", "RedirectToCommon"}
      BY <2>1 DEF Actions
    <2> QED
      BY <1>1, <2>1, <2>2, <2>3
  <1> QED
    BY <1>2, <1>3, <1>4, <1>5 DEF Toward

\* The answer to a script of a page is its own work.
LEMMA ScriptAnswer ==
    ASSUME NEW request \in Requests, NEW aim \in Works,
           Posting(request, aim), aim.storage \notin ReservedStorage
    PROVE  /\ Answers(request.method, request.path, aim)
           /\ aim.handler \notin {"Login", "Register", "RedirectToCommon"}
  <1>1. /\ aim.permanent \in BOOLEAN
        /\ aim = Work(aim.handler, aim.storage, aim.permanent, aim.file)
    BY DEF Works, Work
  <1>2. /\ aim.storage \in Ordinary /\ aim.file = NoName /\ aim.handler \in DOMAIN Actions
        /\ request.method = "POST"
        /\ request.path = [segs  |-> FileIn(aim.storage, aim.permanent, Actions[aim.handler]),
                           slash |-> TRUE]
    BY DEF Posting
  <1>3. Answers("POST", request.path, Work(aim.handler, aim.storage, aim.permanent, NoName))
    BY <1>1, <1>2, ActionAnswer
  <1>4. aim.handler \notin {"Login", "Register", "RedirectToCommon"}
    BY <1>2 DEF Actions
  <1> QED
    BY <1>1, <1>2, <1>3, <1>4

\* A redirect is followed.
LEMMA RedirectedIInv ==
    ASSUME IInv, ~Idle, NEW path \in CleanPaths, Redirected(path),
           hops < 2, hops = 1 => Final(path),
           going.script => goal.storage \in ReservedStorage,
           goal # Nothing /\ ~Astray(goal) => Fetching(Get(path), goal)
    PROVE  IInv'
  <1>1. path \in Path
    BY DEF CleanPaths, Path, Ordinary
  <1>2. going \in Requests
    BY DEF IInv, GoingInv
  <1>3. /\ going' \in Requests /\ going'.method = "GET" /\ going'.path = path
        /\ going'.script = going.script
    BY <1>1, <1>2 DEF Redirected, Get, Requests, AnyMethod
  <1>4. ~Idle'
    BY <1>3 DEF Idle, NotGoing
  <1>5. Get(path).method = "GET" /\ Get(path).path = path
    BY DEF Get
  <1>6. UNCHANGED <<page, goal, took>>
    BY DEF Redirected
  <1>7. GoingInv'
    <2>1. goal # Nothing /\ ~Astray(goal) => Fetching(going', goal)
      BY <1>3, <1>5 DEF Fetching
    <2>2. Sound(going', goal)
      BY <1>3, <2>1 DEF Sound, Toward
    <2> QED
      BY <1>3, <1>6, <2>2 DEF GoingInv
  <1>8. PageInv' /\ GoalInv'
    BY <1>4, <1>6 DEF IInv, PageInv, GoalInv
  <1>9. HopInv'
    <2>1. hops \in 0..1 /\ hops' = hops + 1
      BY DEF IInv, HopInv, Redirected
    <2> QED
      BY <1>3, <2>1 DEF HopInv
  <1> QED
    BY <1>7, <1>8, <1>9 DEF IInv

\* An answer is shown, or not.
LEMMA AnsweredIInv ==
    ASSUME IInv, ~Idle, NEW work \in Works, NEW document, Answered(work, document),
           ~going.script =>
              /\ document.path \in Path /\ document.is \in Works
              /\ document.is.handler \in Documents
              /\ document.is.handler = "Login" =>
                   document.is.storage \in Ordinary
                   /\ document.path = LoginPath(document.is.storage)
              /\ document.is.handler = "Register" => document.path = RegisterPath
              /\ document.is.handler = "View" =>
                   /\ document.is.storage \in Ordinary /\ document.is.file = NoName
                   /\ document.path = FolderPath(document.is.storage, document.is.permanent),
           goal' = goal \/ goal' = Nothing,
           goal' # Nothing /\ ~Astray(goal') => work = goal'
    PROVE  IInv'
  <1>1. Idle' /\ took' = work /\ hops' = hops
    BY DEF Answered, Idle
  <1>2. PageInv'
    <2>1. page' = IF going.script THEN page ELSE document
      BY DEF Answered
    <2> QED
      BY <2>1 DEF IInv, PageInv
  <1>3. GoalInv'
    BY <1>1, NothingIsWork DEF IInv, GoalInv
  <1> QED
    BY <1>1, <1>2, <1>3 DEF IInv, GoingInv, HopInv

\* The service answers.
LEMMA ServeIInv ==
    ASSUME IInv, Serve
    PROVE  IInv'
  <1> DEFINE answer == Dispatch(going.method, going.path)
             i == Place(going.method, going.path)
             work == WorkOf(answer)
  <1>1. /\ ~Idle /\ going \in Requests /\ Sound(going, goal)
        /\ going.method \in {"GET", "POST"} /\ going.path \in Path
        /\ goal \in Works /\ took \in Works
    BY DEF Serve, IInv, GoingInv, GoalInv, Requests, AnyMethod
  <1>2. \/ Redirects(going.method, going.path)
        \/ Refuses(going.method, going.path)
        \/ Handles(going.method, going.path)
    BY <1>1, AnswerKinds DEF AnyMethod
  <1>3. ASSUME goal # Nothing, ~Astray(goal)
        PROVE  \/ Fetching(going, goal) /\ answer = RedirectTo(ToggleSlash(going.path))
               \/ /\ Answers(going.method, going.path, goal)
                  /\ goal.handler \notin {"Login", "Register", "RedirectToCommon"}
               \/ /\ SigningIn(going, goal)
                  /\ \/ Answers("POST", going.path, Work("Login", goal.storage, FALSE, NoName))
                     \/ Answers("POST", going.path, Work("Register", NoName, FALSE, NoName))
    <2>1. Toward(going, goal)
      BY <1>1, <1>3 DEF Sound
    <2> QED
      BY <1>1, <1>3, <2>1, GoalAnswer
  <1>4. ASSUME going.script, goal.storage \notin ReservedStorage
        PROVE  /\ Answers(going.method, going.path, goal)
               /\ goal.handler \notin {"Login", "Register", "RedirectToCommon"}
    <2>1. Posting(going, goal)
      BY <1>1, <1>4 DEF Sound
    <2> QED
      BY <1>1, <1>4, <2>1, ScriptAnswer
  <1>5. /\ hops \in 0..2
        /\ hops > 0 => going.method = "GET" /\ going.path \in CleanPaths
        /\ hops = 2 => /\ Dispatch("GET", going.path).kind # "redirect"
                       /\ WorkOf(Dispatch("GET", going.path)).handler # "RedirectToCommon"
    BY <1>1 DEF IInv, HopInv, Final
  <1>7. \A q : RedirectTo(q).kind = "redirect" /\ RedirectTo(q).path = q
    BY DEF RedirectTo
  <1>8. ASSUME answer.kind = "redirect" PROVE Redirects(going.method, going.path)
    BY <1>2, <1>8 DEF Refuses, Handles, Answers
  <1>9. ASSUME answer.kind # "redirect"
        PROVE  /\ work \in Works
               /\ \/ Handles(going.method, going.path) /\ work = WorkAt(i, going.path.segs)
                  \/ work.handler \in {"NotFound", "MethodNotAllowed"}
    <2>1. CASE Handles(going.method, going.path)
      <3>1. work = WorkAt(i, going.path.segs)
        BY <2>1 DEF Handles, Answers
      <3>2. WorkAt(i, going.path.segs) \in Works
        BY <1>1, <2>1, WorkTypes DEF Handles, AnyMethod
      <3> QED
        BY <2>1, <3>1, <3>2
    <2>2. CASE Refuses(going.method, going.path)
      <3>1. answer.kind \in {"NotFound", "MethodNotAllowed"}
            /\ work = Work(answer.kind, NoName, FALSE, NoName)
        BY <2>2 DEF Refuses
      <3>2. work.handler \in {"NotFound", "MethodNotAllowed"}
        BY <3>1 DEF Work
      <3>3. work \in Works
        <4>1. answer.kind \in Handlers /\ NoName \in Segment
          BY <3>1, Names DEF Handlers, Documents
        <4> HIDE DEF answer, work
        <4> QED
          BY <3>1, <4>1 DEF Works, Work
      <3> QED
        BY <3>2, <3>3
    <2> QED
      BY <1>2, <1>9, <2>1, <2>2 DEF Redirects
  <1>10. CASE RouterRedirects(answer)
    <2>1. answer.kind = "redirect" /\ Redirected(answer.path)
      BY <1>10 DEF RouterRedirects
    <2>2. Redirects(going.method, going.path)
      BY <1>8, <2>1
    <2>3. answer.path \in CleanPaths
      BY <2>2 DEF Redirects
    <2>4. hops < 2 /\ (hops = 1 => Final(answer.path))
      BY <1>5, <2>1, <2>2 DEF Redirects
    <2>5. going.script => goal.storage \in ReservedStorage
      BY <1>4, <2>1 DEF Answers
    <2>6. ASSUME goal # Nothing, ~Astray(goal) PROVE Fetching(Get(answer.path), goal)
      <3>1. Fetching(going, goal) /\ answer = RedirectTo(ToggleSlash(going.path))
        <4>1. SigningIn(going, goal) => going.method = "POST"
          BY DEF SigningIn
        <4> QED
          BY <1>3, <2>1, <2>6, <4>1 DEF Answers
      <3>2. answer.path.segs = going.path.segs
        <4>1. answer.path = ToggleSlash(going.path)
          BY <1>7, <3>1
        <4>2. ToggleSlash(going.path).segs = going.path.segs
          BY <1>1 DEF ToggleSlash, Path
        <4> QED
          BY <4>1, <4>2
      <3>3. Get(answer.path).method = "GET" /\ Get(answer.path).path = answer.path
        BY DEF Get
      <3> HIDE DEF answer
      <3> QED
        BY <3>1, <3>2, <3>3 DEF Fetching
    <2> QED
      BY <1>1, <2>1, <2>3, <2>4, <2>5, <2>6, RedirectedIInv
  <1>11. CASE RootRedirects(answer)
    <2>1. work.handler = "RedirectToCommon" /\ Redirected(CommonPath)
      BY <1>11 DEF RootRedirects
    <2>2. CommonPath \in CleanPaths /\ Final(CommonPath)
      <3>1. /\ "common" \in Ordinary /\ "common" \notin ReservedStorage
            /\ FALSE \in BOOLEAN /\ TRUE \in BOOLEAN
        BY Names DEF Words, ReservedStorage
      <3>2. CommonPath = [segs |-> Folder("common", FALSE), slash |-> TRUE]
        BY DEF CommonPath, Folder
      <3>3. CommonPath \in CleanPaths
            /\ Answers("GET", CommonPath, Work("View", "common", FALSE, NoName))
        BY <3>1, <3>2, FolderAnswer
      <3> QED
        BY <3>3 DEF Final, Answers, Work
    <2>3. hops < 2
      BY <1>5, <2>1
    <2>4. going.script => goal.storage \in ReservedStorage
      BY <1>4, <2>1 DEF Answers
    <2>5. answer.kind # "redirect"
      <3>1. answer.kind = "redirect" => work = Work(answer.kind, NoName, FALSE, NoName)
        BY DEF WorkOf
      <3> HIDE DEF answer, work
      <3> QED
        BY <2>1, <3>1 DEF Work
    <2>6. goal # Nothing => Astray(goal)
      <3>1. SigningIn(going, goal) => going.method = "POST"
        BY DEF SigningIn
      <3> QED
        BY <1>3, <1>7, <2>1, <2>5, <3>1 DEF Answers, Work
    <2> QED
      BY <1>1, <2>1, <2>2, <2>3, <2>4, <2>6, RedirectedIInv
  <1>12. CASE SignedIn(answer)
    <2>1. going.method = "POST" /\ hops = 0
      BY <1>5, <1>12 DEF SignedIn, SignsIn
    <2> DEFINE name == IF work.handler = "Login" THEN work.storage ELSE goal.storage
    <2>2. work.handler \in {"Login", "Register"} /\ Redirected(StoragePath(name))
      BY <1>12 DEF SignedIn, SignsIn, SignedInto
    <2>3. answer.kind # "redirect"
      <3>1. answer.kind = "redirect" => work = Work(answer.kind, NoName, FALSE, NoName)
        BY DEF WorkOf
      <3> HIDE DEF answer, work
      <3> QED
        BY <2>2, <3>1 DEF Work
    <2>4. name \in Segment
      BY <1>1, <1>9, <2>3 DEF Works
    <2> HIDE DEF name
    <2>5. StoragePath(name) \in CleanPaths
      <3>1. Location(name) \in Path
        BY <2>4, AddressAssumption
      <3> QED
        BY <3>1, CleanedIsClean DEF StoragePath
    <2>6. going.script => goal.storage \in ReservedStorage
      BY <1>4, <2>2 DEF Answers
    <2>7. ASSUME goal # Nothing, ~Astray(goal)
          PROVE  Fetching(Get(StoragePath(name)), goal)
      <3>1. /\ SigningIn(going, goal)
            /\ \/ Answers("POST", going.path, Work("Login", goal.storage, FALSE, NoName))
               \/ Answers("POST", going.path, Work("Register", NoName, FALSE, NoName))
        BY <1>3, <2>1, <2>2, <2>7 DEF Answers, Fetching
      <3>2. goal.storage \in Ordinary /\ goal = Work("View", goal.storage, FALSE, NoName)
        BY <3>1 DEF SigningIn
      <3>3. name = goal.storage
        BY <2>1, <3>1 DEF name, Answers, Work
      <3>4. StoragePath(name) = [segs |-> <<name>>, slash |-> FALSE]
        <4>1. FALSE \in BOOLEAN
          OBVIOUS
        <4>2. [segs |-> <<name>>, slash |-> FALSE] \in CleanPaths
          BY <3>2, <3>3, <4>1, Tuples
        <4>3. Location(name) = [segs |-> <<name>>, slash |-> FALSE]
          <5>1. goal.handler = "View" /\ goal.permanent = FALSE
            BY <3>2 DEF Work
          <5> QED
            BY <2>7, <3>3, <5>1 DEF Astray, Misspelt, ItselfIn
        <4> QED
          BY <4>2, <4>3, CleanIsKept DEF StoragePath
      <3>5. Get(StoragePath(name)).method = "GET"
            /\ Get(StoragePath(name)).path = StoragePath(name)
        BY DEF Get
      <3>6. Get(StoragePath(name)).path.segs = Folder(goal.storage, goal.permanent)
        <4>1. goal.permanent = FALSE
          BY <3>2 DEF Work
        <4>2. Folder(goal.storage, goal.permanent) = <<goal.storage>>
          BY <4>1 DEF Folder
        <4>3. StoragePath(name).segs = <<name>>
          BY <3>4
        <4> QED
          BY <3>3, <3>5, <4>2, <4>3
      <3>7. goal.handler = "View" /\ goal.file = NoName
        BY <3>2 DEF Work
      <3> QED
        BY <3>2, <3>5, <3>6, <3>7 DEF Fetching
    <2> QED
      BY <1>1, <2>1, <2>2, <2>5, <2>6, <2>7, RedirectedIInv
  <1>13. CASE SignInFails(answer)
    <2>1. /\ going.method = "POST" /\ work.handler \in {"Login", "Register"}
          /\ Answered(work, Document(work))
          /\ goal' = IF going.script THEN goal ELSE Nothing
      BY <1>13 DEF SignInFails, SignsIn
    <2>2. answer.kind # "redirect"
      <3>1. answer.kind = "redirect" => work = Work(answer.kind, NoName, FALSE, NoName)
        BY DEF WorkOf
      <3> HIDE DEF answer, work
      <3> QED
        BY <2>1, <3>1 DEF Work
    <2>3. Handles(going.method, going.path) /\ work = WorkAt(i, going.path.segs)
          /\ work \in Works
      BY <1>9, <2>1, <2>2
    <2>4. going.path \in CleanPaths
      BY <2>3 DEF Handles
    <2>5. Document(work).path = going.path /\ Document(work).is = work
      BY DEF Document
    <2>6. work.handler \in Documents
      BY <2>1 DEF Documents
    <2>7. /\ work.handler = "Login" =>
               work.storage \in Ordinary /\ going.path = LoginPath(work.storage)
          /\ work.handler = "Register" => going.path = RegisterPath
          /\ work.handler # "View"
      BY <1>1, <2>1, <2>3, <2>4, ShownPage DEF AnyMethod
    <2>8. goal' # Nothing => Astray(goal')
      <3>1. going.script => goal.storage \in ReservedStorage
        BY <1>4, <2>1 DEF Answers
      <3> QED
        BY <2>1, <3>1 DEF Astray, Shadowed
    <2> HIDE DEF work
    <2> QED
      BY <1>1, <2>1, <2>3, <2>5, <2>6, <2>7, <2>8, AnsweredIInv
  <1>15. CASE SentAstray(answer)
    <2>1. /\ going.method = "POST" /\ work.handler \in {"Login", "Register"}
          /\ (IF work.handler = "Login" THEN work.storage ELSE goal.storage)
               \in Malformed
          /\ Answered(Nothing, Document(Nothing)) /\ goal' = goal
      BY <1>15 DEF SentAstray, SignsIn, SignedInto
    <2>2. goal # Nothing => Astray(goal)
      <3> SUFFICES ASSUME goal # Nothing, ~Astray(goal) PROVE FALSE
        OBVIOUS
      <3>1. /\ SigningIn(going, goal)
            /\ \/ Answers("POST", going.path, Work("Login", goal.storage, FALSE, NoName))
               \/ Answers("POST", going.path, Work("Register", NoName, FALSE, NoName))
        BY <1>3, <2>1 DEF Answers, Fetching
      <3>2. goal = Work("View", goal.storage, FALSE, NoName)
        BY <3>1 DEF SigningIn
      <3>3. goal.storage \in Malformed
        BY <2>1, <3>1 DEF Answers, Work
      <3>4. goal.handler = "View" /\ goal.permanent = FALSE
        BY <3>2 DEF Work
      <3> QED
        BY <3>3, <3>4 DEF Astray, Misspelt
    <2>3. Document(Nothing).path = going.path /\ Document(Nothing).is = Nothing
      BY DEF Document
    <2>4. Nothing.handler \in Documents /\ Nothing.handler = "Nothing"
      BY NothingIsWork DEF Documents
    <2> QED
      BY <1>1, <2>1, <2>2, <2>3, <2>4, NothingIsWork, AnsweredIInv
  <1>14. CASE Ends(answer) /\ goal' = goal
              /\ (Shown(answer) \/ ErrorShown(answer))
    <2>1. /\ answer.kind # "redirect" /\ work.handler # "RedirectToCommon"
          /\ work.handler \in {"Login", "Register"} => going.method = "GET"
      BY <1>14 DEF Ends
    <2>2. work \in Works
      BY <1>9, <2>1
    <2>3. goal # Nothing /\ ~Astray(goal) => work = goal
      <3>1. SigningIn(going, goal) => going.method = "POST"
        BY DEF SigningIn
      <3> QED
        BY <1>3, <1>7, <2>1, <3>1 DEF Answers, Work
    <2>4. CASE ErrorShown(answer)
      <3>1. Answered(work, Document(Nothing))
        BY <2>4 DEF ErrorShown
      <3>2. Document(Nothing).path = going.path /\ Document(Nothing).is = Nothing
        BY DEF Document
      <3>3. Nothing.handler \in Documents /\ Nothing.handler = "Nothing"
        BY NothingIsWork DEF Documents
      <3> HIDE DEF work
      <3> QED
        BY <1>1, <1>14, <2>2, <2>3, <3>1, <3>2, <3>3, NothingIsWork, AnsweredIInv
    <2>5. CASE Shown(answer) /\ work.handler = "GetFile"
      <3>1. Answered(work, page)
        BY <2>5 DEF Shown
      <3>2. PageInv
        BY DEF IInv
      <3> HIDE DEF work
      <3> QED
        BY <1>1, <1>14, <2>2, <2>3, <3>1, <3>2, AnsweredIInv DEF PageInv
    <2>6. CASE Shown(answer) /\ work.handler # "GetFile"
      <3>1. Answered(work, Document(work))
        BY <2>6 DEF Shown
      <3>2. Document(work).path = going.path /\ Document(work).is = work
        BY DEF Document
      <3>3. CASE work.handler \in {"NotFound", "MethodNotAllowed"}
        <4>1. work.handler \in Documents /\ work.handler \notin {"Login", "Register", "View"}
          BY <3>3 DEF Documents
        <4> HIDE DEF work
        <4> QED
          BY <1>1, <1>14, <2>2, <2>3, <3>1, <3>2, <4>1, AnsweredIInv
      <3>4. CASE Handles(going.method, going.path) /\ work = WorkAt(i, going.path.segs)
        <4>1. going.path \in CleanPaths
          BY <3>4 DEF Handles
        <4>2. /\ work.handler = "Login" =>
                   work.storage \in Ordinary /\ going.path = LoginPath(work.storage)
              /\ work.handler = "Register" => going.path = RegisterPath
              /\ work.handler = "View" =>
                   /\ work.storage \in Ordinary /\ work.file = NoName
                   /\ going.path = FolderPath(work.storage, work.permanent)
              /\ going.method = "GET" =>
                   work.handler \in Documents \cup {"RedirectToCommon", "GetFile"}
          BY <1>1, <3>4, <4>1, ShownPage DEF AnyMethod
        <4>3. ~going.script => going.method = "GET"
          <5> SUFFICES ASSUME ~going.script, going.method = "POST" PROVE FALSE
            BY <1>1
          <5>1. \/ going.path = RegisterPath
                \/ goal.storage \in Ordinary /\ going.path = LoginPath(goal.storage)
            BY <1>1 DEF Sound
          <5>2. \E s \in Ordinary : going.path = RegisterPath \/ going.path = LoginPath(s)
            <6>1. "login" \in Ordinary
              BY Names DEF Words
            <6> QED
              BY <5>1, <6>1
          <5>3. PICK s \in Ordinary : going.path = RegisterPath \/ going.path = LoginPath(s)
            BY <5>2
          <5>4. \/ Answers("POST", going.path, Work("Login", s, FALSE, NoName))
                \/ Answers("POST", going.path, Work("Register", NoName, FALSE, NoName))
            BY <5>3, FormAnswer
          <5> QED
            BY <2>1, <5>4 DEF Answers, Work
        <4>4. ~going.script => work.handler \in Documents
          BY <2>1, <2>6, <4>2, <4>3
        <4> HIDE DEF work
        <4> QED
          BY <1>1, <1>14, <2>2, <2>3, <3>1, <3>2, <4>2, <4>4, AnsweredIInv
      <3> QED
        BY <1>9, <2>1, <3>3, <3>4
    <2> QED
      BY <1>14, <2>4, <2>5, <2>6
  <1> QED
    <2>1. \/ RouterRedirects(answer) \/ RootRedirects(answer)
          \/ SignedIn(answer) \/ SentAstray(answer) \/ SignInFails(answer)
          \/ Shown(answer) \/ ErrorShown(answer)
      BY DEF Serve
    <2>2. Shown(answer) \/ ErrorShown(answer) => Ends(answer) /\ goal' = goal
      BY DEF Shown, ErrorShown
    <2> QED
      BY <1>10, <1>11, <1>12, <1>13, <1>14, <1>15, <2>1, <2>2

LEMMA NextIInv == IInv /\ [Next]_vars => IInv'
  <1> SUFFICES ASSUME IInv, [Next]_vars PROVE IInv'
    OBVIOUS
  <1>1. CASE Serve
    BY <1>1, ServeIInv
  <1>2. CASE Next /\ ~Serve
    BY <1>2, UserIInv DEF Next
  <1>3. CASE UNCHANGED vars
    BY <1>3 DEF vars, IInv, PageInv, GoingInv, GoalInv, HopInv, Idle
  <1> QED
    BY <1>1, <1>2, <1>3

\* Every page shown, every request under way and every goal fit together.
THEOREM Invariance == Spec => []IInv
<1>1. IInv /\ [Next]_vars => IInv'
  BY NextIInv
<1>2. QED
  BY <1>1, InitIInv, PTL DEF Spec

\* Type correctness, for all names and all paths entered.
THEOREM TypeCorrect == Spec => []TypeOK
<1>1. IInv => TypeOK
  <2> SUFFICES ASSUME IInv PROVE TypeOK
    OBVIOUS
  <2>1. page.path \in Path /\ page.is \in Works /\ page.is.handler \in Documents
    BY DEF IInv, PageInv
  <2>2. going.method \in {"none", "GET", "POST"} /\ going.path \in Path
    BY NothingIsWork DEF IInv, GoingInv, Idle, NotGoing, Requests, AnyMethod
  <2>3. hops \in Nat /\ goal \in Works /\ took \in Works
    BY DEF IInv, HopInv, GoalInv
  <2> QED
    BY <2>1, <2>2, <2>3 DEF TypeOK, Works, Documents
<1>2. QED
  BY <1>1, Invariance, PTL

\* Whatever a page offers ends in the handler, storage and folder it stands
\* for, through every redirect, for every name that the table does not take and
\* that an address keeps as it is.
THEOREM GoalsAreReached == Spec => []GoalReached
<1>1. IInv => GoalReached
  BY DEF IInv, GoalInv, GoalReached, Astray
<1>2. QED
  BY <1>1, Invariance, PTL

\* No path is redirected more than twice.
THEOREM RedirectsEnd == Spec => []AtMostTwoHops
<1>1. IInv => AtMostTwoHops
  BY DEF IInv, HopInv, AtMostTwoHops
<1>2. QED
  BY <1>1, Invariance, PTL

\* What a script posts is answered by its handler and never redirected, so that
\* no form is lost.
THEOREM ScriptsArrive == Spec => ScriptsNotRedirected
<1>1. IInv /\ [Next]_vars =>
        [going.script /\ going' # NotGoing /\ goal.storage \notin ReservedStorage
           => going' = going]_vars
  <2> SUFFICES ASSUME IInv, Next, going.script, going' # NotGoing,
                      goal.storage \notin ReservedStorage
               PROVE  going' = going
    BY DEF vars
  <2>1. ~Idle
    BY DEF Idle, NotGoing
  <2>2. Serve
    BY <2>1 DEF Next, OpenTab, Enter, OpenPermanent, OpenFile, OpenNothing, UploadFile, RemoveFile,
                ShareText, Reload, SubmitLogin, SubmitRegister, PageAction, Go
  <2> DEFINE answer == Dispatch(going.method, going.path)
  <2>3. /\ answer.kind = "handler" /\ WorkOf(answer) = goal
        /\ goal.handler \notin {"Login", "Register", "RedirectToCommon"}
    BY <2>1, ScriptAnswer DEF IInv, GoingInv, GoalInv, Sound, Answers
  <2>4. Shown(answer) \/ ErrorShown(answer)
    BY <2>2, <2>3 DEF Serve, RouterRedirects, RootRedirects, SignedIn, SentAstray, SignsIn,
                       SignInFails
  <2>5. going' = NotGoing
    BY <2>4 DEF Shown, ErrorShown, Answered
  <2> QED
    BY <2>5
<1>2. QED
  BY <1>1, Invariance, PTL DEF Spec, ScriptsNotRedirected

=============================================================================
