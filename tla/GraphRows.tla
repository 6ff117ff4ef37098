------------------------------ MODULE GraphRows ------------------------------
(***************************************************************************)
(* The rows of the knowledge graph (migrations/*.sql): four tables, their  *)
(* unique constraints and the graph the server finds when it starts.       *)
(***************************************************************************)
EXTENDS Naturals, FiniteSets, Sequences

CONSTANTS
    Project,    \* project ids, as their rank in the ORDER BY project_id ASC
    Name,       \* node names
    Text,       \* observation texts
    RelType,    \* relation types, "supersedes" among them
    Session,    \* session ids the server may hand out
    None,       \* SQL NULL, and an argument the caller left out
    Seed        \* the rows already committed when the server starts

ASSUME ProjectsAreRanked == Project \subseteq Nat
ASSUME NoneIsNoValue == None \notin Session \cup Project \cup Name \cup Text
ASSUME SupersedesIsAType == "supersedes" \in RelType

-------------------------------------------------------------------------------
(* Rows.  A node row is never removed and its (project, name) never freed,  *)
(* so the pair serves as the node's id.                                     *)

NodeId == [project : Project, name : Name]

NodeRow == [tab : {"nodes"}, project : Project, name : Name,
            session : Session \cup {None}]
ObsRow  == [tab : {"observations"}, node : NodeId, text : Text]
RelRow  == [tab : {"relations"}, from : NodeId, to : NodeId, type : RelType,
            project : Project]
SessRow == [tab : {"sessions"}, id : Session]

Row == NodeRow \cup ObsRow \cup RelRow \cup SessRow

Node(p, n, s)   == [tab |-> "nodes", project |-> p, name |-> n, session |-> s]
Obs(id, t)      == [tab |-> "observations", node |-> id, text |-> t]
Rel(f, t, y, p) == [tab |-> "relations", from |-> f, to |-> t, type |-> y,
                    project |-> p]
Sess(s)         == [tab |-> "sessions", id |-> s]

IdOf(r) == [project |-> r.project, name |-> r.name]

\* The unique constraint of each table.  None of them is partial: a row with
\* deleted_at set still occupies its key.
Key(r) ==
    CASE r.tab = "nodes"        -> <<"nodes", r.project, r.name>>
      [] r.tab = "observations" -> <<"observations", r.node, r.text>>
      [] r.tab = "relations"    -> <<"relations", r.from, r.to, r.type>>
      [] OTHER                  -> <<"sessions", r.id>>

\* The nodes a row refers to (its foreign keys).
NodesOf(r) ==
    CASE r.tab = "observations" -> {r.node}
      [] r.tab = "relations"    -> {r.from, r.to}
      [] OTHER                  -> {}

HasNode(S, id) == \E r \in S : r.tab = "nodes" /\ IdOf(r) = id

\* A database that earlier runs of the same server have left.
ASSUME SeedIsAGraph ==
    /\ Seed \subseteq Row /\ IsFiniteSet(Seed)
    /\ \A r, q \in Seed : Key(r) = Key(q) => r = q
    /\ \A r \in Seed : \A id \in NodesOf(r) : HasNode(Seed, id)
    /\ \A r \in Seed : r.tab = "relations" =>
          r.from.project = r.project /\ r.to.project = r.project

===============================================================================
