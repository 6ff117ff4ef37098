--------------------------- MODULE MCGraphTransfer ---------------------------
(***************************************************************************)
(* GraphTransfer on two databases: the first holds "a" in two projects and *)
(* "b" in the second, the other one is empty.                              *)
(***************************************************************************)
EXTENDS GraphTransfer

CONSTANTS a, b, x, y, s1, d1, d2, o1, o2

A1 == [project |-> 1, name |-> a]
A2 == [project |-> 2, name |-> a]
B2 == [project |-> 2, name |-> b]

MCSeed == {Node(1, a, None), Node(2, a, s1), Node(2, b, None), Sess(s1),
           Obs(A1, x), Obs(A2, y), Rel(A2, B2, "uses", 2)}

MCChange ==
    { [new |-> {Obs(A2, x)}, gone |-> {}],
      [new |-> {}, gone |-> {Obs(A2, y)}],
      [new |-> {}, gone |-> {Node(2, b, None)}],
      [new |-> {Node(2, b, None), Obs(B2, x)}, gone |-> {}],
      [new |-> {Node(1, b, None)}, gone |-> {}] }

Item(p, n, texts) == [project |-> p, name |-> n, texts |-> texts,
                      bad |-> FALSE, deleted |-> FALSE]
Edge(p, f, t) == [project |-> p, from |-> f, to |-> t, type |-> "uses",
                  deleted |-> FALSE]

MCSheet ==
    { [NoFile EXCEPT !.entities = {Item(None, a, {x, y}),
                                   [Item(None, b, {x}) EXCEPT !.deleted = TRUE]},
                     !.rels = {Edge(None, a, a), Edge(None, a, b)}],
      [NoFile EXCEPT !.nodes = {Item(2, a, {x}), [Item(1, b, {y}) EXCEPT !.bad = TRUE]}] }

MCFixtureNodes == {Item(1, a, {y}), Item(1, b, {x})}
MCFixtureRelations == {Edge(1, a, b)}

MCErrand ==
    { [kind |-> "export", db |-> d1, project |-> None],
      [kind |-> "export", db |-> d1, project |-> 2],
      [kind |-> "import", db |-> d1], [kind |-> "import", db |-> d2],
      [kind |-> "seed", db |-> d1, reset |-> TRUE],
      [kind |-> "seed", db |-> d1, reset |-> FALSE] }

\* ImportRelations: the first database is exported and the second one filled.
MCCopy == {e \in MCErrand : e.kind = "export" \/ (e.kind = "import" /\ e.db = d2)}

===============================================================================
