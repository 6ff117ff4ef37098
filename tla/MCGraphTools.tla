----------------------------- MODULE MCGraphTools -----------------------------
(***************************************************************************)
(* GraphTools on small instances.  Node "a" exists in two projects, so that *)
(* every resolution of a name meets homonyms; "b" exists in the first one   *)
(* only; "c" does not exist yet.                                            *)
(***************************************************************************)
EXTENDS GraphTools, TLC

CONSTANTS a, b, c, x, y, secret, banned, s1, s2

A1 == [project |-> 1, name |-> a]
A2 == [project |-> 2, name |-> a]
B1 == [project |-> 1, name |-> b]

MCSeed ==
    {Node(1, a, None), Node(2, a, None), Node(2, b, None), Obs(A1, x), Sess(s1)}

\* y with a secret in it is stored as y.
MCScrub == (secret :> y) @@ [t \in Text |-> t]

Creates(items, s)  == [op |-> "create_nodes", items |-> items, session |-> s]
Adds(n, texts)     == [op |-> "add_observations",
                       items |-> <<[name |-> n, texts |-> texts]>>]
Updates(items)     == [op |-> "update_observations", items |-> items]
Edge(f, t, y_, p)  == [from |-> f, to |-> t, type |-> y_, project |-> p]
Relates(items)     == [op |-> "create_relations", items |-> items]
Supersede(o, n, ar) ==
    [op |-> "mark_superseded", items |-> <<Edge(n, o, "supersedes", None)>>,
     archive |-> ar]
Starts == [op |-> "session_start"]
Ends(s) == [op |-> "session_end", session |-> s]

NewNode(p, n, texts) == [project |-> p, name |-> n, texts |-> texts]
Swap(n, o, t) == [name |-> n, old |-> o, new |-> t]

CreateBC == Creates(<<NewNode(1, b, <<x>>), NewNode(1, c, <<secret>>)>>, s1)
CreateCB == Creates(<<NewNode(1, c, <<y, x>>), NewNode(1, b, <<>>)>>, None)

MCRequest ==
    { CreateBC, CreateCB,
      Creates(<<NewNode(1, c, <<x, banned>>)>>, s1),
      Adds(b, <<banned>>),
      Adds(a, <<y, secret>>),
      Updates(<<Swap(a, x, secret)>>),
      Relates(<<Edge(a, b, "uses", None), Edge(b, a, "supersedes", 1)>>),
      Supersede(a, b, TRUE),
      Supersede(b, a, FALSE),
      Starts, Ends(s1) }

MCDeletion == { [op |-> "node", name |-> a],
                [op |-> "observation", node |-> A1, text |-> y],
                [op |-> "relation", from |-> a, to |-> b, type |-> "uses"] }

\* For progress: the requests that make handlers wait for keys and row locks
\* of one another, in both orders, and the one that takes a second connection.
ContendingRequest ==
    { CreateBC, CreateCB,
      Updates(<<Swap(a, x, y)>>),
      Ends(s1) }

\* For the texts: a text replaced and then put back, and one replaced by what
\* redaction turns into the same text.
BackAndForth == { Updates(<<Swap(a, x, y)>>), Updates(<<Swap(a, y, x)>>),
                  Updates(<<Swap(a, y, secret)>>) }

ClientsAlike == Permutations(Client)
===============================================================================
