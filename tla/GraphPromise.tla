----------------------------- MODULE GraphPromise -----------------------------
(***************************************************************************)
(* What the write tools promise about the committed graph, with no clients,*)
(* transactions or statements: the graph changes by whole requests, and a  *)
(* request that takes effect leaves every row it asked for in its table.   *)
(* GraphTools implements this, whatever the interleaving.                  *)
(*                                                                         *)
(* The promise is about rows, not about visible rows: a row that is in its *)
(* table but soft-deleted satisfies it.                                    *)
(***************************************************************************)
EXTENDS GraphRows

CONSTANTS
    Request,    \* the requests clients may send
    Scrub       \* what the Content Filter makes of a text

VARIABLES
    rows,       \* the committed rows
    dead        \* the committed rows that are soft-deleted or, a session, ended

New == rows' \ rows
Stamped == dead' \ dead

OfName(n) == {id \in NodeId : id.name = n}

\* Every new row is one of `asked`, and no two rows share a key.
GrowsBy(asked) ==
    /\ rows \subseteq rows'
    /\ New \subseteq asked
    /\ \A r \in New, q \in rows' : Key(r) = Key(q) => r = q

Has(k) == \E r \in rows' : Key(r) = k

NoRowStamped == dead' = dead

CreateNodes(r) ==
    LET nodesOf(item) == {Node(item.project, item.name, r.session)}
        obsOf(item)   == {Obs([project |-> item.project, name |-> item.name],
                              Scrub[item.texts[m]]) : m \in DOMAIN item.texts}
        asked == UNION {nodesOf(r.items[k]) \cup obsOf(r.items[k]) :
                          k \in DOMAIN r.items}
    IN /\ GrowsBy(asked)
       /\ \A row \in asked : Has(Key(row))
       /\ NoRowStamped

AddObservations(r) ==
    LET onNode(id, item) == {Obs(id, Scrub[item.texts[m]]) :
                               m \in DOMAIN item.texts}
        asked(item) == UNION {onNode(id, item) : id \in OfName(item.name)}
    IN /\ GrowsBy(UNION {asked(r.items[k]) : k \in DOMAIN r.items})
       /\ \A k \in DOMAIN r.items :
             \E id \in OfName(r.items[k].name) :
                onNode(id, r.items[k]) \subseteq rows'
       /\ NoRowStamped

\* A node that carried the old text loses it, and has the new one in its table.
UpdateObservations(r) ==
    /\ GrowsBy({Obs(id, Scrub[r.items[k].new]) :
                  id \in NodeId, k \in DOMAIN r.items})
    /\ dead \subseteq dead'
    /\ Stamped \subseteq {Obs(id, r.items[k].old) :
                            id \in NodeId, k \in DOMAIN r.items}
    /\ \A k \in DOMAIN r.items :
          \E id \in OfName(r.items[k].name) :
             /\ Obs(id, r.items[k].old) \in Stamped
             /\ Obs(id, Scrub[r.items[k].new]) \in rows'

\* The relations an item may stand for: both endpoints and the row itself are
\* in one project, and it is the project the caller named, if any.
Edges(item) ==
    {Rel([project |-> p, name |-> item.from], [project |-> p, name |-> item.to],
         item.type, p) : p \in {q \in Project : item.project \in {None, q}}}

CreateRelations(r) ==
    /\ GrowsBy(UNION {Edges(r.items[k]) : k \in DOMAIN r.items})
    /\ \A k \in DOMAIN r.items : \E e \in Edges(r.items[k]) : Has(Key(e))
    /\ NoRowStamped

\* Superseding happens once per pair of nodes, and only the old node's
\* observations may go with it.
MarkSuperseded(r) ==
    \E e \in Edges(r.items[1]) :
       /\ e \notin rows /\ New = {e}
       /\ GrowsBy({e})
       /\ dead \subseteq dead'
       /\ Stamped \subseteq {o \in ObsRow : r.archive /\ o.node = e.to}

StartSession ==
    \E s \in Session : /\ New = {Sess(s)}
                       /\ GrowsBy({Sess(s)})
                       /\ NoRowStamped

EndSession(r) ==
    /\ Sess(r.session) \in rows
    /\ rows' = rows
    /\ dead' = dead \cup {Sess(r.session)}

Apply(r) ==
    CASE r.op = "create_nodes"        -> CreateNodes(r)
      [] r.op = "add_observations"    -> AddObservations(r)
      [] r.op = "update_observations" -> UpdateObservations(r)
      [] r.op = "create_relations"    -> CreateRelations(r)
      [] r.op = "mark_superseded"     -> MarkSuperseded(r)
      [] r.op = "session_start"       -> StartSession
      [] r.op = "session_end"         -> EndSession(r)

\* An operator soft-deletes rows of one table, never sessions.
OperatorDelete ==
    /\ rows' = rows
    /\ dead \subseteq dead'
    /\ \E tab \in {"nodes", "observations", "relations"} :
          \A row \in Stamped : row \in rows /\ row.tab = tab

Init == rows = Seed /\ dead = {}

Next == (\E r \in Request : Apply(r)) \/ OperatorDelete

Spec == Init /\ [][Next]_<<rows, dead>>

===============================================================================
