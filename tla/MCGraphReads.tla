----------------------------- MODULE MCGraphReads -----------------------------
(***************************************************************************)
(* GraphReads on a small graph: node "a" is in two projects, "b" is linked *)
(* to the first "a", and writers add "c", replace a text, supersede "a",   *)
(* delete "b" with its homonyms, and delete the link.  Requests meet in    *)
(* the cache of centroids and nowhere else: either one client asks         *)
(* anything else, or two ask for suggestions.                              *)
(***************************************************************************)
EXTENDS GraphReads, TLC

CONSTANTS a, b, c, x, y, z, s1, r1, r2

A1 == [project |-> 1, name |-> a]
A2 == [project |-> 2, name |-> a]
B1 == [project |-> 1, name |-> b]
C1 == [project |-> 1, name |-> c]

Link == Rel(A1, B1, "uses", 1)

MCSeed == {Node(1, a, None), Node(2, a, None), Node(1, b, s1), Sess(s1),
           Obs(A1, x), Obs(A1, y), Obs(B1, y), Obs(A2, x), Link}

MCChange ==
    { [new |-> {Node(1, c, s1), Obs(C1, y)}, gone |-> {}],
      [new |-> {Obs(A1, z)}, gone |-> {Obs(A1, x)}],
      [new |-> {Rel(B1, A1, "supersedes", 1)}, gone |-> {Obs(A1, x), Obs(A1, y)}],
      [new |-> {Rel(B1, A1, "supersedes", 1)}, gone |-> {Obs(A1, z), Obs(A1, y)}],
      [new |-> {}, gone |-> {Node(1, b, s1)}],
      [new |-> {}, gone |-> {Link}] }

MCRank == [id \in NodeId |-> 2 * id.project + (IF id.name = a THEN 0
                             ELSE IF id.name = b THEN 1 ELSE 5)]
MCDistance == (x :> 1) @@ (y :> 2) @@ (z :> 3)
MCLikeness ==
    [t \in Text |-> [u \in Text |-> IF t = u THEN 100
                                    ELSE IF {t, u} = {x, y} THEN 80 ELSE 60]]

Ask(op, p) == [op |-> op, project |-> p]

Pages == [op |-> "timeline", project |-> None, since |-> None, until |-> None,
          limit |-> 1]

MCGraphQuery ==
    { Ask("read_graph", 1), Ask("search_nodes", None), Ask("stats", 1),
      Ask("viewer_list", None), Ask("viewer_search", 1),
      [op |-> "open_nodes", project |-> None, names |-> {a, c}],
      Pages, [Pages EXCEPT !.since = 0, !.until = 1, !.limit = 3, !.project = 1],
      [op |-> "find_conflicts", project |-> None, name |-> a],
      [op |-> "session_summary", session |-> s1] }

MCSuggest == { Ask("suggest_node_type", 1) }

MCQuery == MCGraphQuery \cup MCSuggest

MCMix == { [r \in {r1, r2} |-> IF r = q THEN MCGraphQuery ELSE {}] : q \in {r1, r2} }
         \cup { [r \in {r1, r2} |-> MCSuggest] }

Alike == Permutations({r1, r2})

===============================================================================
