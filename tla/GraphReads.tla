------------------------------ MODULE GraphReads ------------------------------
(***************************************************************************)
(* The read side of the knowledge graph: the MCP tools search_nodes,       *)
(* open_nodes, read_graph, timeline, stats, find_conflicts,                *)
(* session_summary and suggest_node_type with its cache of centroids       *)
(* (internal/mcp), and the search API of the web viewer (internal/viewer). *)
(* No reader holds a transaction over its statements: each one runs on the *)
(* pool and sees what has been committed by then, and writers commit in    *)
(* between.                                                                *)
(*                                                                         *)
(* A write is one committed transaction of GraphTools, rows inserted and   *)
(* rows stamped at once.  Each write takes a tick of the clock, so the     *)
(* times at which a row came and went tell whether it was live at any      *)
(* moment of a request.                                                    *)
(***************************************************************************)
EXTENDS GraphRows, FiniteSetsExt

CONSTANTS
    Reader,        \* the requests that may be in flight at the same time
    Query,         \* the queries they may be about
    Mix,           \* bound of the model: who asks what in one behaviour
    Change,        \* the transactions writers may commit
    Rank,          \* the order of the nodes' UUIDs, which breaks ties
    Distance,      \* Distance[t]: of a text from the query of a search
    Embedded,      \* the texts whose observations carry an embedding
    Likeness,      \* Likeness[t][u]: cosine similarity of two texts
    MinSim,        \* min_similarity of find_conflicts
    TopK, Spread,  \* top_k of find_conflicts; rows per query and result: 4
    SearchLimit,   \* searchLimit and listAllLimit: 10
    DefaultLimit, MaxLimit, MaxOffset,    \* timeline: 50, 200, 100000
    CentroidTTL,   \* centroidCacheTTL of suggest_node_type
    MaxCallTicks,  \* bound of the model: how long a request may last
    MaxTime        \* bound of the model: ticks in a behaviour

ASSUME LimitsAreNumbers ==
    /\ {MinSim, MaxOffset, CentroidTTL, MaxCallTicks} \subseteq Nat
    /\ {TopK, Spread, SearchLimit, DefaultLimit, MaxLimit, MaxTime} \subseteq Nat \ {0}
ASSUME ChangesAreWrites ==
    \A w \in Change :
       /\ w.new \subseteq Row /\ IsFiniteSet(w.new) /\ w.gone \subseteq Row
       /\ \A u, v \in w.new : Key(u) = Key(v) => u = v
ASSUME RankBreaksTies ==
    /\ Rank \in [NodeId -> Nat]
    /\ \A id, jd \in NodeId : Rank[id] = Rank[jd] => id = jd
ASSUME QueriesAreAsked ==
    \A q \in Query :
       /\ q.op = "timeline" => q.limit \in Int
       /\ q.op = "suggest_node_type" => q.project \in Project \cup {None}
ASSUME MixesAreOfQueries == Mix \subseteq [Reader -> SUBSET Query]
\* min_similarity is in [0, 1]: what is below 0 never passes it.
ASSUME LikenessIsAPercentage == \A t, u \in Text : Likeness[t][u] \in 0..100

VARIABLES
    now,       \* the clock
    came,      \* came[row]: when the row was committed
    went,      \* went[row]: when its deleted_at was committed
    created,   \* created[id]: the node's created_at
    pc,        \* pc[r]: the statement reader r runs next
    task,      \* task[r]: its query, local variables and, at last, its answer
    cache,     \* the centroidCache: an entry for each key that has one
    mix        \* mix[r]: what reader r asks

tables == <<came, went, created>>
vars == <<now, came, went, created, pc, task, cache, mix>>

rows == DOMAIN came
dead == DOMAIN went
Live == rows \ dead

GraphOp  == {"read_graph", "open_nodes", "search_nodes", "timeline"}
ViewerOp == {"viewer_list", "viewer_search"}

Label == {"idle", "nodes", "observations", "relations", "by_type", "target",
          "embeddings", "similar", "session", "audit", "cached", "centroids",
          "put", "reply", "next_page"}

\* t0: when the request came in; ids, obs, rels, best: the answer so far; left:
\* the observations find_conflicts has still to compare; start, shown: of a
\* client that pages, when it began and what it has seen on earlier pages.
NoTask == [q |-> None, t0 |-> 0, ids |-> {}, obs |-> {}, rels |-> {},
           best |-> <<>>, left |-> {}, off |-> 0, more |-> FALSE,
           start |-> 0, shown |-> {}]

-------------------------------------------------------------------------------
(* What a statement selects. *)

LiveNodes == {IdOf(r) : r \in {n \in Live : n.tab = "nodes"}}

LiveObs == {r \in Live : r.tab = "observations"}

LiveRels == {r \in Live : r.tab = "relations"}

\* ($1::text IS NULL OR project_id = $1)
InScope(id, p) == p \in {None, id.project}

\* The live observations that carry an embedding, on live nodes in scope.
Searchable(p) ==
    {o \in LiveObs : /\ o.text \in Embedded
                     /\ o.node \in LiveNodes /\ InScope(o.node, p)}

\* Mutated form of ListByNodeIDs: deleted observations are not left out.
ListByNodeIDs_Deleted(ids) ==
    {r \in rows : r.tab = "observations" /\ r.node \in ids}

ListByNodeIDs(ids) == {r \in LiveObs : r.node \in ids}

\* RelationsForNodeIDs, for the viewer: at least one endpoint among the ids.
RelationsForNodeIDs(ids) ==
    {r \in LiveRels : /\ r.from \in ids \/ r.to \in ids
                      /\ {r.from, r.to} \subseteq LiveNodes}

\* Mutated form of ListActiveRelationsForNodeIDs: one endpoint is enough.
ListActiveRelationsForNodeIDs_AnyEnd(ids) == RelationsForNodeIDs(ids)

\* Both endpoints among the ids, and still live when this statement runs.
ListActiveRelationsForNodeIDs(ids) ==
    {r \in LiveRels : {r.from, r.to} \subseteq ids \cap LiveNodes}

-------------------------------------------------------------------------------
(* Node lists. *)

ListActive(p) == {id \in LiveNodes : InScope(id, p)}

QueryOpenNodes(names, p) == {id \in ListActive(p) : id.name \in names}

\* The possible results of ORDER BY f LIMIT k over S: ties fall either way.
Lowest(k, S, f(_)) ==
    {T \in kSubset(IF Cardinality(S) < k THEN Cardinality(S) ELSE k, S) :
        \A s \in T, u \in S \ T : f(s) <= f(u)}

\* MIN(o.embedding <=> $1) of a node.
NodeDistance(id) == Min({Distance[o.text] : o \in {x \in Searchable(None) :
                                                     x.node = id}})

SearchByCosine(p) ==
    Lowest(SearchLimit, {o.node : o \in Searchable(p)}, NodeDistance)

ListAllDesc(p) == Lowest(SearchLimit, ListActive(p), LAMBDA id : now - created[id])

Newer(id, jd) ==
    \/ created[id] > created[jd]
    \/ created[id] = created[jd] /\ Rank[id] > Rank[jd]

InWindow(id, q) ==
    /\ q.since = None \/ created[id] >= q.since
    /\ q.until = None \/ created[id] <= q.until

ClampLimit(n) ==
    IF n <= 0 THEN DefaultLimit ELSE IF n > MaxLimit THEN MaxLimit ELSE n

ClampOffset(n) == IF n > MaxOffset THEN MaxOffset ELSE n

\* The nodes of a timeline query, and the place of one of them in the list,
\* newest first, counted from 0.
Timeline(q) == {id \in ListActive(q.project) : InWindow(id, q)}

Place(id, all) == Cardinality({jd \in all : Newer(jd, id)})

\* Mutated form of PageOf: has_more is off by one.
PageOf_MissesLast(q, off) ==
    LET all == Timeline(q)
        cut == ClampOffset(off) + ClampLimit(q.limit)
    IN [ids  |-> {id \in all : Place(id, all) \in ClampOffset(off)..(cut - 1)},
        more |-> Cardinality(all) > cut + 1]

\* ListByCreatedAt: LIMIT n + 1 OFFSET off, and has_more if the extra row came.
PageOf(q, off) ==
    LET all == Timeline(q)
        cut == ClampOffset(off) + ClampLimit(q.limit)
    IN [ids  |-> {id \in all : Place(id, all) \in ClampOffset(off)..(cut - 1)},
        more |-> Cardinality(all) > cut]

-------------------------------------------------------------------------------
(* Control. *)

Goto(r, label, t) ==
    /\ pc' = [pc EXCEPT ![r] = label]
    /\ task' = [task EXCEPT ![r] = t]
    /\ UNCHANGED <<now, tables, cache, mix>>

FirstStep(op) ==
    CASE op = "find_conflicts"    -> "target"
      [] op = "session_summary"   -> "session"
      [] op = "suggest_node_type" -> "cached"
      [] OTHER                    -> "nodes"

Receive(r, q) ==
    /\ pc[r] = "idle" /\ q \in mix[r]
    /\ Goto(r, FirstStep(q.op), [NoTask EXCEPT !.q = q, !.t0 = now, !.start = now])

\* The answer t is written to the client.  One that pages through a timeline
\* and is told of more may come back for offset + len(nodes).
Return(r) ==
    /\ pc[r] = "reply"
    /\ LET t == task[r]
       IN IF t.more
          THEN Goto(r, "next_page",
                    [NoTask EXCEPT !.q = t.q, !.start = t.start,
                                   !.off = t.off + Cardinality(t.ids),
                                   !.shown = t.shown \cup t.ids])
          ELSE Goto(r, "idle", NoTask)

NextPage(r) ==
    /\ pc[r] = "next_page"
    /\ \/ Goto(r, "nodes", [task[r] EXCEPT !.t0 = now])
       \/ Goto(r, "idle", NoTask)

\* A failed statement or a failed embedding: the tool answers with an error.
Fail(r) ==
    /\ pc[r] \notin {"idle", "reply", "next_page"}
    /\ Goto(r, "idle", NoTask)

-------------------------------------------------------------------------------
(* Statements of the graph queries and of the viewer. *)

\* What the first statement lists; no node, no further statement.
Listed(r, ids, more) ==
    Goto(r, IF ids = {} THEN "reply" ELSE "observations",
         [task[r] EXCEPT !.ids = ids, !.more = more])

Asks(r, op) == pc[r] = "nodes" /\ task[r].q.op = op

ReadGraph(r) ==
    /\ Asks(r, "read_graph")
    /\ Listed(r, ListActive(task[r].q.project), FALSE)

OpenNodes(r) ==
    /\ Asks(r, "open_nodes")
    /\ Listed(r, QueryOpenNodes(task[r].q.names, task[r].q.project), FALSE)

SearchNodes(r) ==
    /\ Asks(r, "search_nodes")
    /\ \E T \in SearchByCosine(task[r].q.project) : Listed(r, T, FALSE)

TimelinePage(r) ==
    /\ Asks(r, "timeline")
    /\ LET page == PageOf(task[r].q, task[r].off)
       IN Listed(r, page.ids, page.more)

\* Without a query the viewer lists the newest nodes.
ViewerSearch(r) ==
    \/ /\ Asks(r, "viewer_list")
       /\ \E T \in ListAllDesc(task[r].q.project) : Listed(r, T, FALSE)
    \/ /\ Asks(r, "viewer_search")
       /\ \E T \in SearchByCosine(task[r].q.project) : Listed(r, T, FALSE)

SelectObservations(r) ==
    /\ pc[r] = "observations"
    /\ Goto(r, "relations", [task[r] EXCEPT !.obs = ListByNodeIDs(task[r].ids)])

SelectRelations(r) ==
    /\ pc[r] = "relations"
    /\ LET t == task[r]
       IN Goto(r, "reply", [t EXCEPT
                 !.rels = IF t.q.op \in ViewerOp THEN RelationsForNodeIDs(t.ids)
                          ELSE ListActiveRelationsForNodeIDs(t.ids)])

\* relationsForNode: the viewer lists under a node the relations of its answer
\* that have the node's NAME at one end.
RelationsForNode(t, id) == {l \in t.rels : id.name \in {l.from.name, l.to.name}}

\* Stats, first statement: the counts.  The project narrows nodes and
\* relations only, and observations count whether or not their node is live.
SelectCounts(r) ==
    /\ Asks(r, "stats")
    /\ Goto(r, "by_type", [task[r] EXCEPT
                             !.ids = ListActive(task[r].q.project),
                             !.obs = LiveObs,
                             !.rels = {l \in LiveRels :
                                         task[r].q.project \in {None, l.project}}])

\* ... and the second one: nodes by type, at a later moment.
SelectByType(r) ==
    /\ pc[r] = "by_type"
    /\ Goto(r, "reply", task[r])

-------------------------------------------------------------------------------
(* session_summary: the session, then all its nodes, deleted ones included. *)

GetSession(r) ==
    /\ pc[r] = "session"
    /\ IF Sess(task[r].q.session) \in rows THEN Goto(r, "audit", task[r])
       ELSE Goto(r, "idle", NoTask)

\* Mutated form of ListSessionNodes: the audit trail leaves out deleted nodes.
ListSessionNodes_Live(s) ==
    {IdOf(n) : n \in {x \in Live : x.tab = "nodes" /\ x.session = s}}

ListSessionNodes(s) ==
    {IdOf(n) : n \in {x \in rows : x.tab = "nodes" /\ x.session = s}}

Audit(r) ==
    /\ pc[r] = "audit"
    /\ LET ids == ListSessionNodes(task[r].q.session)
       IN Goto(r, "reply", [task[r] EXCEPT !.ids = ids,
                                           !.obs = ListByNodeIDs(ids)])

-------------------------------------------------------------------------------
(* find_conflicts. *)

\* FindByName in a transaction that is rolled back before the next statement.
FindTarget(r) ==
    /\ pc[r] = "target"
    /\ LET S == QueryOpenNodes({task[r].q.name}, task[r].q.project)
           first == CHOOSE id \in S : \A jd \in S : id.project <= jd.project
       IN IF S = {} THEN Goto(r, "idle", NoTask)
          ELSE Goto(r, "embeddings", [task[r] EXCEPT !.ids = {first}])

Target(t) == CHOOSE id \in t.ids : TRUE

\* fetchTargetEmbeddings: without any, the answer is empty.
FetchTargetEmbeddings(r) ==
    /\ pc[r] = "embeddings"
    /\ LET own == {o \in LiveObs : o.node \in task[r].ids /\ o.text \in Embedded}
       IN IF own = {} THEN Goto(r, "reply", task[r])
          ELSE Goto(r, "similar", [task[r] EXCEPT !.left = own])

\* The observations a query for the own text may bring, closest first, cut at
\* TopK * Spread rows.
Similar(t, own) ==
    LET close == {o \in Searchable(Target(t).project) :
                    o.node # Target(t) /\ Likeness[own.text][o.text] >= MinSim}
        far(o) == 100 - Likeness[own.text][o.text]
    IN Lowest(TopK * Spread, close, far)

\* Mutated form of Aggregate: the last observation of a node wins.
Aggregate_Last(best, own, found) ==
    [id \in DOMAIN best \cup {o.node : o \in found} |->
        LET of == {Likeness[own.text][o.text] : o \in {x \in found : x.node = id}}
        IN IF of = {} THEN best[id] ELSE Min(of)]

\* The best likeness of each candidate so far.
Aggregate(best, own, found) ==
    [id \in DOMAIN best \cup {o.node : o \in found} |->
        Max({Likeness[own.text][o.text] : o \in {x \in found : x.node = id}}
            \cup (IF id \in DOMAIN best THEN {best[id]} ELSE {}))]

\* One query per observation of the target, in the order the table gives them.
QueryAndAggregate(r) ==
    /\ pc[r] = "similar"
    /\ task[r].left # {}
    /\ \E own \in task[r].left : \E found \in Similar(task[r], own) :
          Goto(r, "similar", [task[r] EXCEPT !.left = @ \ {own},
                                !.best = Aggregate(@, own, found)])

SortAndTruncate(r) ==
    /\ pc[r] = "similar"
    /\ task[r].left = {}
    /\ LET best == task[r].best
       IN \E T \in Lowest(TopK, DOMAIN best, LAMBDA id : 100 - best[id]) :
             Goto(r, "reply", [task[r] EXCEPT !.best = [id \in T |-> best[id]]])

-------------------------------------------------------------------------------
(* suggest_node_type.  The centroids of an answer are means of the embeddings of *)
(* observations; the model keeps the observations.                               *)

\* Mutated form of CacheGet: an entry that is used lives on.
CacheGet_Renews(r) ==
    /\ pc[r] = "cached"
    /\ LET key == task[r].q.project
           hit == key \in DOMAIN cache /\ now - cache[key].at <= CentroidTTL
       IN /\ pc' = [pc EXCEPT ![r] = IF hit THEN "reply" ELSE "centroids"]
          /\ task' = [task EXCEPT ![r].obs = IF hit THEN cache[key].obs ELSE {}]
          /\ cache' = IF hit THEN [cache EXCEPT ![key].at = now] ELSE cache
    /\ UNCHANGED <<now, tables, mix>>

\* get: an entry that is not older than its TTL is the answer.
CacheGet(r) ==
    /\ pc[r] = "cached"
    /\ LET key == task[r].q.project
       IN IF key \in DOMAIN cache /\ now - cache[key].at <= CentroidTTL
          THEN Goto(r, "reply", [task[r] EXCEPT !.obs = cache[key].obs])
          ELSE Goto(r, "centroids", task[r])

CentroidsByType(r) ==
    /\ pc[r] = "centroids"
    /\ Goto(r, "put", [task[r] EXCEPT !.obs = Searchable(task[r].q.project)])

\* put: over whatever another call has stored meanwhile, and as of now.
CachePut(r) ==
    /\ pc[r] = "put"
    /\ LET key == task[r].q.project
       IN cache' = [k \in DOMAIN cache \cup {key} |->
                      IF k = key THEN [obs |-> task[r].obs, at |-> now] ELSE cache[k]]
    /\ pc' = [pc EXCEPT ![r] = "reply"]
    /\ UNCHANGED <<now, tables, task, mix>>

\* The process starts anew, once the requests in flight have failed.
Restart ==
    /\ \A r \in Reader : pc[r] \in {"idle", "next_page"}
    /\ cache' = <<>>
    /\ UNCHANGED <<now, tables, pc, task, mix>>

-------------------------------------------------------------------------------
(* Writers and time. *)

Busy(r) == pc[r] \notin {"idle", "next_page"}

\* A request lasts at most MaxCallTicks.
TimeMayPass ==
    /\ now < MaxTime
    /\ \A r \in Reader : Busy(r) => now - task[r].t0 < MaxCallTicks

Stamped(f, S) == [x \in DOMAIN f \cup S |-> IF x \in S THEN now + 1 ELSE f[x]]

\* The created_at of the nodes, those of S among them.
Dated(S, begun) ==
    [id \in DOMAIN created \cup {IdOf(x) : x \in {y \in S : y.tab = "nodes"}} |->
        IF id \in DOMAIN created THEN created[id] ELSE begun]

\* Mutated form of Commits: a deletion does not look for live rows.
Commits_Unchecked(w) ==
    /\ \A x \in w.new, y \in rows : Key(x) # Key(y)
    /\ \A x \in w.new : \A id \in NodesOf(x) : HasNode(rows \cup w.new, id)

\* What a change needs: its keys are free, its nodes exist, and what it
\* deletes is live.
Commits(w) ==
    /\ \A x \in w.new, y \in rows : Key(x) # Key(y)
    /\ \A x \in w.new : \A id \in NodesOf(x) : HasNode(rows \cup w.new, id)
    /\ w.gone \subseteq Live

\* created_at is now() of the transaction, the moment it began.
Write(w, begun) ==
    /\ TimeMayPass /\ Commits(w)
    /\ now' = now + 1
    /\ came' = Stamped(came, w.new)
    /\ went' = Stamped(went, w.gone)
    /\ created' = Dated(w.new, begun)
    /\ UNCHANGED <<pc, task, cache, mix>>

AnyWrite ==
    \E w \in Change, begun \in 0..now + 1 :
       now + 1 - begun <= MaxCallTicks /\ Write(w, begun)

Tick ==
    /\ TimeMayPass
    /\ now' = now + 1
    /\ UNCHANGED <<tables, pc, task, cache, mix>>

Init ==
    /\ now = 1
    /\ came = [x \in Seed |-> 0]
    /\ went = <<>>
    /\ created = [id \in {IdOf(x) : x \in {y \in Seed : y.tab = "nodes"}} |-> 0]
    /\ pc = [r \in Reader |-> "idle"]
    /\ task = [r \in Reader |-> NoTask]
    /\ cache = <<>>
    /\ mix \in Mix

ReadStep(r) ==
    \/ \E q \in Query : Receive(r, q)
    \/ NextPage(r) \/ ReadGraph(r) \/ OpenNodes(r) \/ SearchNodes(r)
    \/ TimelinePage(r) \/ ViewerSearch(r)
    \/ SelectObservations(r) \/ SelectRelations(r) \/ SelectCounts(r) \/ SelectByType(r)
    \/ GetSession(r) \/ Audit(r) \/ FindTarget(r) \/ FetchTargetEmbeddings(r)
    \/ QueryAndAggregate(r) \/ SortAndTruncate(r)
    \/ CacheGet(r) \/ CentroidsByType(r) \/ CachePut(r)
    \/ Return(r) \/ Fail(r)

Next == (\E r \in Reader : ReadStep(r)) \/ Restart \/ AnyWrite \/ Tick

Spec == Init /\ [][Next]_vars

-------------------------------------------------------------------------------
(* Properties. *)

NodeRowOf(id) == CHOOSE n \in rows : n.tab = "nodes" /\ IdOf(n) = id

\* The row was live at some moment since t, or has been all the time since.
WasLive(x, t) == x \in rows /\ (x \in dead => went[x] > t)
LiveSince(x, t) == x \in Live /\ came[x] <= t

Answers(r, ops) == pc[r] = "reply" /\ task[r].q.op \in ops

\* Times, rows and locals are of their kinds; rows carry the times at which
\* they came and went, in that order.
TypeOK ==
    /\ now \in 1..MaxTime
    /\ rows \subseteq Row /\ dead \subseteq rows
    /\ \A x \in rows : came[x] <= now
    /\ \A x \in dead : came[x] < went[x] /\ went[x] <= now
    /\ DOMAIN created = {IdOf(x) : x \in {y \in rows : y.tab = "nodes"}}
    /\ pc \in [Reader -> Label]
    /\ DOMAIN cache \subseteq Project \cup {None}
    /\ \A p \in DOMAIN cache : cache[p].obs \subseteq rows /\ cache[p].at <= now
    /\ \A r \in Reader :
          /\ task[r].ids \subseteq DOMAIN created
          /\ task[r].obs \cup task[r].rels \cup task[r].left \subseteq rows
          /\ Busy(r) => now - task[r].t0 <= MaxCallTicks

\* No tool shows what was deleted before it was asked: every node, observation
\* and relation of an answer was live at some moment of the request.
AnswersAreOfTheirTime ==
    \A r \in Reader :
       LET t == task[r]
       IN /\ Answers(r, GraphOp \cup ViewerOp \cup {"stats"}) =>
               /\ \A id \in t.ids : WasLive(NodeRowOf(id), t.t0)
               /\ \A x \in t.obs \cup t.rels : WasLive(x, t.t0)
          /\ Answers(r, {"find_conflicts"}) =>
               \A id \in DOMAIN t.best : WasLive(NodeRowOf(id), t.t0)

\* Assembled from three statements, an answer still hangs together: what it
\* shows belongs to the nodes it shows, and both ends of a relation were live
\* when the relation was read, though an end may have gone since.
AnswersHangTogether ==
    \A r \in Reader :
       LET t == task[r]
       IN Answers(r, GraphOp \cup ViewerOp) =>
            /\ \A o \in t.obs : o.node \in t.ids
            /\ \A l \in t.rels :
                  /\ WasLive(NodeRowOf(l.from), t.t0)
                  /\ WasLive(NodeRowOf(l.to), t.t0)
                  /\ t.q.op \in GraphOp => {l.from, l.to} \subseteq t.ids
            /\ \A l \in t.rels : \E id \in t.ids : l \in RelationsForNode(t, id)

\* What was live all through the request and is asked for is in the answer,
\* whatever was committed between its statements; a session's audit trail
\* keeps the nodes that have been deleted.
AnswersOmitNothing ==
    \A r \in Reader :
       LET t == task[r]
           wanted(id) == /\ LiveSince(NodeRowOf(id), t.t0)
                         /\ InScope(id, t.q.project)
                         /\ t.q.op = "open_nodes" => id.name \in t.q.names
       IN /\ Answers(r, {"read_graph", "open_nodes", "stats"}) =>
               {id \in DOMAIN created : wanted(id)} \subseteq t.ids
          /\ Answers(r, GraphOp \cup ViewerOp) =>
               \A x \in rows : LiveSince(x, t.t0) =>
                  /\ x.tab = "observations" /\ x.node \in t.ids => x \in t.obs
                  /\ x.tab = "relations"
                     /\ {x.from, x.to} \subseteq t.ids \cap LiveNodes => x \in t.rels
          /\ Answers(r, {"session_summary"}) =>
               \A x \in rows :
                  x.tab = "nodes" /\ x.session = t.q.session /\ came[x] <= t.t0
                  => IdOf(x) \in t.ids

\* The nodes a client that pages should have seen when it is told that there
\* is no more: those in its window, live since it began.
Missed(t) ==
    {id \in DOMAIN created :
        /\ LiveSince(NodeRowOf(id), t.start)
        /\ InScope(id, t.q.project) /\ InWindow(id, t.q)} \ (t.shown \cup t.ids)

NodeWentSince(t) == \E x \in dead : x.tab = "nodes" /\ went[x] > t

\* Paging by offset through a timeline while writers add nodes misses none of
\* those that were there, as long as none is deleted meanwhile.
PagesMissNothing ==
    \A r \in Reader :
       Answers(r, {"timeline"}) /\ ~task[r].more /\ ~NodeWentSince(task[r].start)
       => Missed(task[r]) = {}

\* find_conflicts compares in one query per observation, each cut at a number
\* of rows; the closest candidate survives every cut: no pair of observations
\* that was there all along is closer than the best one reported, and the
\* target is never its own conflict.
ClosestConflictIsReported ==
    \A r \in Reader : Answers(r, {"find_conflicts"}) /\ task[r].ids # {} =>
       LET t == task[r]
           there(o) == LiveSince(o, t.t0) /\ o.text \in Embedded
                       /\ LiveSince(NodeRowOf(o.node), t.t0)
           Steady == {o \in LiveObs : there(o)}
       IN /\ Target(t) \notin DOMAIN t.best
          /\ \A own, other \in Steady :
                /\ own.node = Target(t)
                /\ other.node # Target(t)
                /\ other.node.project = Target(t).project
                /\ Likeness[own.text][other.text] >= MinSim
                => \E id \in DOMAIN t.best :
                      t.best[id] >= Likeness[own.text][other.text]

\* The row was live at time m; and Searchable as it was at time m.
LiveAt(x, m) == x \in rows /\ came[x] <= m /\ (x \in dead => went[x] > m)

SearchableAt(p, m) ==
    {o \in rows : /\ o.tab = "observations" /\ o.text \in Embedded /\ LiveAt(o, m)
                  /\ LiveAt(NodeRowOf(o.node), m) /\ InScope(o.node, p)}

\* suggest.go: the TTL "bounds how stale the cached centroids may get".  Though
\* concurrent calls overwrite each other's entries, each dated when it is stored
\* and not when it was read, a suggestion rests on what the tables of its own
\* scope held at one moment, before its request by no more than the TTL and the
\* time a call may take.
SuggestionsAreRecent ==
    \A r \in Reader : Answers(r, {"suggest_node_type"}) =>
       \E m \in 0..now :
          /\ task[r].t0 <= m + CentroidTTL + MaxCallTicks
          /\ task[r].obs = SearchableAt(task[r].q.project, m)

===============================================================================
