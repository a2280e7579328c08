---------------------------- MODULE MCNavigation ----------------------------
(***************************************************************************)
(* Navigation with short paths, for TLC.                                    *)
(***************************************************************************)
EXTENDS Navigation

\* Two ordinary names, one that doubles as a folder, one that no path keeps,
\* and names that an address changes.
Storages == {"alice", "common", "permanent", "..", "alice#2", "team/a", "50%"}
Files    == {"notes", "upload", "permanent", "index.html", "..",
             "notes#2", "?", "old/notes", "a:b"}

\* How an address reads the names above.
Spelt(name) ==
  LET path(segs) == [segs |-> segs, slash |-> FALSE]
  IN  CASE name = "alice#2"   -> path(<<"alice">>)
        [] name = "notes#2"   -> path(<<"notes">>)
        [] name = "team/a"    -> path(<<"team", "a">>)
        [] name = "old/notes" -> path(<<"old", "notes">>)
        [] name = "?"         -> Root
        [] OTHER              -> path(<<name>>)

WithScheme == {"a:b"}
StrayPercent == {"50%"}

\* Every path of up to three segments, the unclean ones among them.
Segments   == {"", "..", "alice", "alice#2", "permanent", "login", "register",
               "res"}
ShortPaths == [segs  : UNION {[1..n -> Segments] : n \in 0..3},
               slash : BOOLEAN] \ {[segs |-> <<>>, slash |-> FALSE]}

\* Names the route table keeps for itself.
AllStorages == {"alice", "register", "login", "metrics", "res"}
JustRegister == {[segs |-> <<"register">>, slash |-> TRUE]}

\* Every segment and every name there is.
AnySegment == Dots \cup Words \cup Storages \cup Files \cup {"team", "a", "old"}
=============================================================================
