---------------------------- MODULE GraphTransfer ----------------------------
(***************************************************************************)
(* khctl export, import and seed (internal/khctl) moving graphs between    *)
(* databases while the server keeps writing to them.  An export reads on   *)
(* the pool, statement by statement.  An import or a seed is one           *)
(* transaction of many statements: its rows are its own until it commits,  *)
(* its inserts skip the keys that are taken, and what it has inserted      *)
(* blocks whoever wants the same key.                                      *)
(***************************************************************************)
EXTENDS GraphRows

CONSTANTS
    Db,             \* the databases
    Fresh,          \* those that have been migrated and never written
    Operator,       \* the khctl processes that may run at the same time
    Global,         \* the project 'global', default of every project_id column
    Change,         \* the transactions the tools may commit
    Sheet,          \* the import files written by hand or by older versions
    FixtureNodes, FixtureRelations,    \* what seed inserts
    Errand,         \* the khctl commands that may be given
    MaxWrites,      \* bound of the model: transactions of the tools
    MaxJobs         \* bound of the model: khctl commands given

\* A node and a relation of a file.  bad: an embedding of a wrong length.
NodeLine == [project : Project \cup {None}, name : Name, texts : SUBSET Text,
             bad : BOOLEAN, deleted : BOOLEAN]
EdgeLine == [project : Project \cup {None}, from : Name, to : Name,
             type : RelType, deleted : BOOLEAN]

FileType == [nodes : SUBSET NodeLine, entities : SUBSET NodeLine,
             rels : SUBSET EdgeLine, content : {None} \cup SUBSET Row]

ASSUME GlobalIsAProject == Global \in Project
ASSUME BoundsAreNumbers == {MaxWrites, MaxJobs} \subseteq Nat
ASSUME ErrandsAreCommands ==
    Errand \subseteq [kind : {"export"}, db : Db, project : Project \cup {None}]
                     \cup [kind : {"import"}, db : Db]
                     \cup [kind : {"seed"}, db : Db, reset : BOOLEAN]
ASSUME ChangesAreWrites ==
    \A w \in Change : /\ w.new \cup w.gone \subseteq Row
                      /\ \A x, y \in w.new : Key(x) = Key(y) => x = y
ASSUME SheetsAreFiles == Sheet \subseteq {f \in FileType : f.content = None}
\* Every fixture goes to 'global', and relates fixtures only.
ASSUME FixturesAreGlobal ==
    /\ FixtureNodes \subseteq {n \in NodeLine : n.project = Global}
    /\ FixtureRelations \subseteq
          {r \in EdgeLine : /\ r.project = Global
                            /\ {r.from, r.to} \subseteq {n.name : n \in FixtureNodes}}

VARIABLES
    rows,    \* rows[d]: the committed rows of the database
    dead,    \* dead[d]: those with deleted_at set
    file,    \* the last file an export has written, or one of Sheet
    job,     \* job[o]: what the process does, with its local variables
    writes,  \* transactions committed by the tools
    jobs     \* khctl commands given

vars == <<rows, dead, file, job, writes, jobs>>

\* left: the items of the current loop still to do; ins, wiped: the uncommitted
\* work of a transaction; nodes, rels: the file.  seen and steady are history:
\* the rows live at some moment, and at every moment, since an export began;
\* stale: the ids it has listed were truncated.  content: what a file's source
\* held, if the export was undisturbed.
Idle == [kind |-> "none", at |-> "idle", db |-> None, project |-> None,
         left |-> {}, nodes |-> {}, rels |-> {}, ins |-> {}, wiped |-> FALSE,
         stale |-> FALSE, seen |-> {}, steady |-> {},
         content |-> None]

NoFile == [nodes |-> {}, entities |-> {}, rels |-> {}, content |-> None]

Live(d) == rows[d] \ dead[d]

IdsIn(S) == {IdOf(r) : r \in {n \in S : n.tab = "nodes"}}

InScope(p, q) == q \in {None, p}

-------------------------------------------------------------------------------
(* Commits. *)

\* The jobs J after database d has become R with D deleted: an export that is
\* under way on d has seen the change.
Witnessed(J, d, R, D, truncated) ==
    [o \in Operator |->
        IF J[o].kind = "export" /\ J[o].db = d
        THEN [J[o] EXCEPT !.seen = @ \cup (R \ D),
                          !.steady = IF truncated THEN {} ELSE @ \cap (R \ D),
                          !.stale = @ \/ (truncated /\ J[o].at = "texts")]
        ELSE J[o]]

Store(d, R, D, J, truncated) ==
    /\ rows' = [rows EXCEPT ![d] = R]
    /\ dead' = [dead EXCEPT ![d] = D]
    /\ job' = Witnessed(J, d, R, D, truncated)

Unlocked(d) == \A o \in Operator : job[o].db = d => ~job[o].wiped

\* A row's key is free of other transactions' uncommitted rows.
Unclaimed(x, d, others) ==
    \A o \in others : job[o].db = d =>
        \A y \in job[o].ins : Key(y) # Key(x)

Write(d, w) ==
    /\ writes < MaxWrites
    /\ Unlocked(d)
    /\ \A x \in w.new : Unclaimed(x, d, Operator)
    /\ \A x \in w.new, y \in rows[d] : Key(x) # Key(y)
    /\ \A x \in w.new : \A id \in NodesOf(x) : HasNode(rows[d] \cup w.new, id)
    /\ w.gone \subseteq Live(d)
    /\ Store(d, rows[d] \cup w.new, dead[d] \cup w.gone, job, FALSE)
    /\ writes' = writes + 1
    /\ UNCHANGED <<file, jobs>>

-------------------------------------------------------------------------------
(* Control. *)

Begin(o, j) ==
    /\ job[o].kind = "none"
    /\ jobs < MaxJobs
    /\ jobs' = jobs + 1
    /\ job' = [job EXCEPT ![o] = j]
    /\ UNCHANGED <<rows, dead, file, writes>>

Goto(o, j) ==
    /\ job' = [job EXCEPT ![o] = j]
    /\ UNCHANGED <<rows, dead, file, writes, jobs>>

At(o, kinds, label) ==
    /\ job[o].kind \in kinds
    /\ job[o].at = label
    /\ \/ Unlocked(job[o].db)
       \/ job[o].wiped

\* Mutated form of Fail: what a failed transaction has inserted stays.
Fail_KeepsRows(o) ==
    /\ job[o].at \notin {"idle", "done"}
    /\ LET j == job[o]
       IN /\ Store(j.db, rows[j.db] \cup j.ins, dead[j.db],
                   [job EXCEPT ![o] = Idle], FALSE)
          /\ UNCHANGED <<file, writes, jobs>>

\* A failed statement, a deadlock Postgres has broken or the end of the process:
\* a transaction is rolled back, a file not written.
Fail(o) ==
    /\ job[o].at \notin {"idle", "done"}
    /\ Goto(o, Idle)

Exit(o) ==
    /\ job[o].at = "done"
    /\ Goto(o, Idle)

-------------------------------------------------------------------------------
(* khctl export. *)

BeginExport(o, d, p) ==
    Begin(o, [Idle EXCEPT !.kind = "export", !.at = "nodes", !.db = d,
                          !.project = p, !.seen = Live(d), !.steady = Live(d)])

\* fetchExportNodes: the ids of the live nodes of the project ...
FetchExportNodes(o) ==
    /\ At(o, {"export"}, "nodes")
    /\ Goto(o, [job[o] EXCEPT
                  !.at = "texts",
                  !.left = {id \in IdsIn(Live(job[o].db)) :
                              InScope(id.project, job[o].project)}])

\* ... and one more statement per node.
FetchNodeObservations(o) ==
    /\ At(o, {"export"}, "texts")
    /\ \E id \in job[o].left :
          LET texts == {r.text : r \in {x \in Live(job[o].db) :
                          x.tab = "observations" /\ x.node = id /\ ~job[o].stale}}
          IN Goto(o, [job[o] EXCEPT
                        !.left = @ \ {id},
                        !.nodes = @ \cup {[project |-> id.project,
                                           name |-> id.name, texts |-> texts,
                                           bad |-> FALSE, deleted |-> FALSE]}])

\* Mutated form of ExportedRelations: relations of deleted nodes are exported.
ExportedRelations_DeadEnds(S, p) ==
    {r \in S : r.tab = "relations" /\ InScope(r.project, p)}

\* The live relations of the project p among S with both ends live.
ExportedRelations(S, p) ==
    {r \in S : /\ r.tab = "relations" /\ InScope(r.project, p)
               /\ {r.from, r.to} \subseteq IdsIn(S)}

\* What an export of S should carry away.
Content(S, p) ==
    LET ids == {id \in IdsIn(S) : InScope(id.project, p)}
    IN {r \in S : \/ r.tab = "nodes" /\ IdOf(r) \in ids
                  \/ r.tab = "observations" /\ r.node \in ids}
       \cup {r \in S : /\ r.tab = "relations" /\ InScope(r.project, p)
                       /\ {r.from, r.to} \subseteq IdsIn(S)}

\* fetchExportRelations: by name, with the project of the relation's own row;
\* then the file is written.
FetchExportRelations(o) ==
    /\ At(o, {"export"}, "texts")
    /\ job[o].left = {}
    /\ LET j == job[o]
           rels == {[project |-> r.project, from |-> r.from.name,
                     to |-> r.to.name, type |-> r.type, deleted |-> FALSE] :
                       r \in ExportedRelations(Live(j.db), j.project)}
       IN /\ file' = [nodes |-> j.nodes, entities |-> {}, rels |-> rels,
                      content |-> IF j.seen = j.steady
                                  THEN Content(j.seen, j.project) ELSE None]
          /\ job' = [job EXCEPT ![o].at = "done", ![o].rels = rels]
          /\ UNCHANGED <<rows, dead, writes, jobs>>

-------------------------------------------------------------------------------
(* khctl import: parsing. *)

\* A file from elsewhere: deleted_at set here and there, no project_id, nodes
\* under "entities", embeddings of a wrong length.
HandWrite(f) ==
    /\ file # f
    /\ \A o \in Operator : job[o].kind # "export"
    /\ file' = f
    /\ UNCHANGED <<rows, dead, job, writes, jobs>>

\* Mutated form of InGlobal: a missing project stays missing.
InGlobal_Missing(item) == item

\* decodeNodes and defaultRelationProjectIDs.
InGlobal(item) == IF item.project = None THEN [item EXCEPT !.project = Global]
                  ELSE item

\* Nodes under "nodes" if there are any, else under "entities"; a missing
\* project is 'global'; what is marked deleted will be skipped by every loop.
ParseImportPayload(f) ==
    [nodes |-> {n \in {InGlobal(i) : i \in IF f.nodes # {} THEN f.nodes
                                           ELSE f.entities} : ~n.deleted},
     rels  |-> {r \in {InGlobal(i) : i \in f.rels} : ~r.deleted}]

BeginImport(o, d) ==
    /\ file # NoFile
    /\ LET p == ParseImportPayload(file)
       IN Begin(o, [Idle EXCEPT !.kind = "import", !.at = "nodes", !.db = d,
                                !.nodes = p.nodes, !.rels = p.rels,
                                !.left = p.nodes, !.content = file.content])

-------------------------------------------------------------------------------
(* The transaction of an import or a seed. *)

\* What the statements of transaction o see.
View(o) ==
    job[o].ins \cup {r \in rows[job[o].db] : job[o].wiped => r.tab = "sessions"}

LiveIds(o) ==
    IdsIn(View(o) \ (IF job[o].wiped THEN {} ELSE dead[job[o].db]))

\* INSERT ... ON CONFLICT DO NOTHING for each row of R, then on with j.
Insert(o, R, j) ==
    /\ \A x \in R : Unclaimed(x, j.db, Operator \ {o})
    /\ Goto(o, [j EXCEPT !.ins = @ \cup
          {x \in R : \A y \in View(o) : Key(y) # Key(x)}])

\* When a loop has run over all its items the next one starts.
NextLoop(o) ==
    /\ \/ At(o, {"import", "seed"}, "nodes") \/ At(o, {"import", "seed"}, "texts")
       \/ At(o, {"import", "seed"}, "links")
    /\ job[o].left = {}
    /\ LET j == job[o]
       IN Goto(o, CASE j.at = "nodes" -> [j EXCEPT !.at = "texts", !.left = j.nodes]
                    [] j.at = "texts" -> [j EXCEPT !.at = "links", !.left = j.rels]
                    [] j.at = "links" -> [j EXCEPT !.at = "commit"])

\* importNodes, and insertFixtureNodes, which puts the fixtures in 'global'.
InsertNode(o) ==
    /\ At(o, {"import", "seed"}, "nodes")
    /\ \E n \in job[o].left :
          Insert(o, {Node(n.project, n.name, None)},
                 [job[o] EXCEPT !.left = @ \ {n}])

\* Mutated form of ResolveImport: the node is looked up in 'global'.
ResolveImport_Global(o, n, name) ==
    {id \in LiveIds(o) : id.project = Global /\ id.name = name}

\* WHERE project_id = $1 AND name = $2 AND deleted_at IS NULL
ResolveImport(o, n, name) ==
    {id \in LiveIds(o) : id.project = n.project /\ id.name = name}

\* WHERE name = $1 AND deleted_at IS NULL, whatever the project: any homonym.
ResolveFixture(o, name) == {id \in LiveIds(o) : id.name = name}

Resolve(o, n, name) ==
    IF job[o].kind = "seed" THEN ResolveFixture(o, name)
    ELSE ResolveImport(o, n, name)

\* importObservations and insertFixtureObservations: the texts of one node, none
\* if the node is not live.  An embedding of a wrong length ends in Fail.
InsertObservations(o) ==
    /\ At(o, {"import", "seed"}, "texts")
    /\ \E n \in job[o].left :
          LET ids == Resolve(o, n, n.name)
              on == [job[o] EXCEPT !.left = @ \ {n}]
          IN \/ ids = {} /\ Goto(o, on)
             \/ \E id \in ids : /\ ~n.bad
                                /\ Insert(o, {Obs(id, t) : t \in n.texts}, on)

\* importRelations and insertFixtureRelations: skipped unless both ends are
\* live.  The statement names no project_id: the column's default is 'global'.
InsertRelation(o) ==
    /\ At(o, {"import", "seed"}, "links")
    /\ \E r \in job[o].left :
          LET froms == Resolve(o, r, r.from)
              tos == Resolve(o, r, r.to)
              on == [job[o] EXCEPT !.left = @ \ {r}]
          IN \/ {} \in {froms, tos} /\ Goto(o, on)
             \/ \E f \in froms, t \in tos :
                   Insert(o, {Rel(f, t, r.type, Global)}, on)

\* Mutated form of Commit: nodes of the file that were deleted are live again.
Commit_Undeletes(o) ==
    /\ At(o, {"import", "seed"}, "commit")
    /\ LET j == job[o]
           again == {<<"nodes", n.project, n.name>> : n \in j.nodes}
       IN /\ Store(j.db, View(o), {x \in dead[j.db] \cap View(o) : Key(x) \notin again},
                   [job EXCEPT ![o].at = "done", ![o].ins = {},
                               ![o].wiped = FALSE], j.wiped)
          /\ UNCHANGED <<file, writes, jobs>>

\* Mutated form of Commit: the relations are not committed.
Commit_BeforeRelations(o) ==
    /\ At(o, {"import", "seed"}, "commit")
    /\ LET j == job[o]
       IN /\ Store(j.db, View(o) \ {x \in j.ins : x.tab = "relations"},
                   dead[j.db] \cap View(o),
                   [job EXCEPT ![o].at = "done", ![o].ins = {},
                               ![o].wiped = FALSE], j.wiped)
          /\ UNCHANGED <<file, writes, jobs>>

Commit(o) ==
    /\ At(o, {"import", "seed"}, "commit")
    /\ LET j == job[o]
       IN /\ Store(j.db, View(o), dead[j.db] \cap View(o),
                   [job EXCEPT ![o].at = "done", ![o].ins = {},
                               ![o].wiped = FALSE], j.wiped)
          /\ UNCHANGED <<file, writes, jobs>>

-------------------------------------------------------------------------------
(* khctl seed. *)

\* The project of a fixture serves InsertNode only.
BeginSeed(o, d, reset) ==
    Begin(o, [Idle EXCEPT !.kind = "seed", !.db = d,
                          !.at = IF reset THEN "reset" ELSE "nodes",
                          !.nodes = FixtureNodes, !.rels = FixtureRelations,
                          !.left = FixtureNodes])

\* Mutated form of Truncate: DELETE FROM waits for nobody.
Truncate_Delete(o) ==
    /\ At(o, {"seed"}, "reset")
    /\ Goto(o, [job[o] EXCEPT !.wiped = TRUE, !.at = "nodes"])

\* A transaction that has issued no statement yet, or is over, holds no lock.
Waiting(j) ==
    /\ j.ins = {} /\ ~j.wiped
    /\ j.at \in {"reset", "nodes", "done"} /\ (j.at = "nodes" => j.left = j.nodes)

\* --reset: TRUNCATE relations, observations, nodes, once no other transaction
\* holds a lock; nobody else reads or writes the tables until the commit.
Truncate(o) ==
    /\ At(o, {"seed"}, "reset")
    /\ \A q \in Operator \ {o} :
          job[q].db = job[o].db => job[q].kind = "export" \/ Waiting(job[q])
    /\ Goto(o, [job[o] EXCEPT !.wiped = TRUE, !.at = "nodes"])

-------------------------------------------------------------------------------

Init ==
    /\ rows = [d \in Db |-> IF d \in Fresh THEN {} ELSE Seed]
    /\ dead = [d \in Db |-> {}]
    /\ file = NoFile
    /\ job = [o \in Operator |-> Idle]
    /\ writes = 0
    /\ jobs = 0

JobStep(o) ==
    \/ \E e \in Errand :
          \/ e.kind = "export" /\ BeginExport(o, e.db, e.project)
          \/ e.kind = "import" /\ BeginImport(o, e.db)
          \/ e.kind = "seed"   /\ BeginSeed(o, e.db, e.reset)
    \/ FetchExportNodes(o) \/ FetchNodeObservations(o) \/ FetchExportRelations(o)
    \/ Truncate(o) \/ InsertNode(o) \/ InsertObservations(o) \/ InsertRelation(o)
    \/ NextLoop(o) \/ Commit(o) \/ Fail(o) \/ Exit(o)

Next ==
    \/ \E o \in Operator : JobStep(o)
    \/ \E d \in Db, w \in Change : Write(d, w)
    \/ \E f \in Sheet : HandWrite(f)

Spec == Init /\ [][Next]_vars

-------------------------------------------------------------------------------
(* Properties. *)

Transfers == {"import", "seed"}

Stage == {"idle", "reset", "nodes", "texts", "links", "commit", "done"}

JobType == [kind : {"none", "export"} \cup Transfers, at : Stage,
            db : Db \cup {None}, project : Project \cup {None},
            left : SUBSET (NodeId \cup NodeLine \cup EdgeLine),
            nodes : SUBSET NodeLine, rels : SUBSET EdgeLine, ins : SUBSET Row,
            wiped : BOOLEAN, stale : BOOLEAN, seen : SUBSET Row,
            steady : SUBSET Row, content : {None} \cup SUBSET Row]

UniqueIn(S) == \A x, y \in S : Key(x) = Key(y) => x = y

ReferencesIn(S) == \A x \in S : \A id \in NodesOf(x) : HasNode(S, id)

\* Jobs are well formed, and what any of them has still to commit fits the
\* tables: no key twice, no row without its nodes.
TypeOK ==
    /\ rows \in [Db -> SUBSET Row] /\ dead \in [Db -> SUBSET Row]
    /\ \A d \in Db : dead[d] \subseteq rows[d]
    /\ file \in FileType /\ job \in [Operator -> JobType]
    /\ \A d \in Db :
          UniqueIn(rows[d] \cup UNION {job[o].ins : o \in {q \in Operator :
                                          job[q].db = d /\ ~job[q].wiped}})
    /\ \A o \in Operator : job[o].kind \in Transfers => ReferencesIn(View(o))
    /\ writes \in 0..MaxWrites /\ jobs \in 0..MaxJobs

OfTab(S, tab) == {r \in S : r.tab = tab}

\* The node that an item of a file calls by name.
Own(item, name) == [project |-> item.project, name |-> name]

\* r is the line of a file for the relation x.
Names(r, x) ==
    /\ x.tab = "relations" /\ r.project = x.project /\ r.type = x.type
    /\ r.from = x.from.name /\ r.to = x.to.name

TextsIn(S, id) == {x.text : x \in {y \in S : y.tab = "observations" /\ y.node = id}}

\* What an export with the nodes N has read of them was live at some moment,
\* and includes what was live all the time.
NodesOfTheirTime(N, seen, steady) ==
    \A n \in N : /\ HasNode(seen, Own(n, n.name))
                 /\ n.texts \subseteq TextsIn(seen, Own(n, n.name))
                 /\ TextsIn(steady, Own(n, n.name)) \subseteq n.texts

Exported(j, id) == \E n \in j.nodes : Own(n, n.name) = id

\* An export runs over many statements while the tools write: what it says was
\* true at some moment while it ran, and what stayed live all along and is in
\* the project asked for is in the file.
ExportsAreOfTheirTime ==
    \A o \in Operator : job[o].kind = "export" /\ job[o].at = "done" =>
       LET j == job[o]
       IN /\ NodesOfTheirTime(j.nodes, j.seen, j.steady)
          /\ \A id \in IdsIn(j.steady) :
                InScope(id.project, j.project) => Exported(j, id)
          /\ \A r \in j.rels : \E x \in j.seen :
                Names(r, x) /\ HasNode(j.seen, x.from) /\ HasNode(j.seen, x.to)
          /\ \A x \in OfTab(Content(j.steady, j.project), "relations") :
                \E r \in j.rels : Names(r, x)

Finished(o) ==
    /\ job[o].at # "done" /\ job'[o].at = "done"
    /\ job[o].kind \in Transfers

\* The nodes an item of job j may mean by name, and those of them S has.
Means(j, item, name, id) ==
    id.name = name /\ (j.kind = "seed" \/ id.project = item.project)

Homonyms(j, item, name, S) == {id \in IdsIn(S) : Means(j, item, name, id)}

\* S holds what the file says of the node n, unless n is not among the live.
TextsLanded(j, n, S, live) ==
    Own(n, n.name) \in live =>
       \E id \in Homonyms(j, n, n.name, S) : {Obs(id, t) : t \in n.texts} \subseteq S

\* S holds the relation r, unless r leaves the file's nodes or an end is not
\* among the live.
LinkLanded(j, r, S, live) ==
    {Own(r, r.from), Own(r, r.to)} \subseteq live \cap {Own(n, n.name) : n \in j.nodes}
    => \E f \in Homonyms(j, r, r.from, S), t \in Homonyms(j, r, r.to, S) :
          \E x \in S : Key(x) = Key(Rel(f, t, r.type, Global))

\* An import or a seed takes effect as a whole or not at all: when it has
\* finished every node of its file is in its table, with all its texts and its
\* relations to nodes of the file unless one was soft-deleted, and short of
\* finishing it has changed nothing.
TransfersLandWhole ==
    [][/\ \A d \in Db : rows'[d] # rows[d] /\ writes' = writes =>
             (\E o \in Operator : Finished(o) /\ job[o].db = d)
       /\ \A o \in Operator : Finished(o) =>
            LET j == job[o]
                S == rows'[j.db]
                live == IdsIn(S \ dead'[j.db])
            IN /\ \A n \in j.nodes : /\ HasNode(S, Own(n, n.name))
                                     /\ TextsLanded(j, n, S, live)
               /\ \A r \in j.rels : LinkLanded(j, r, S, live)]_vars

\* Files carry rows that were deleted since: no import or seed brings back a
\* deleted row, or takes a row away, unless it was told to reset.
NothingComesBack ==
    [][\A d \in Db : \/ (rows[d] \subseteq rows'[d] /\ dead[d] \subseteq dead'[d])
                     \/ \E o \in Operator : Finished(o) /\ job[o].wiped]_vars

\* The project of a relation is that of its ends, as the tools leave it.
SameProject(r) == r.from.project = r.project /\ r.to.project = r.project

Triple(r) == <<r.from, r.to, r.type>>

\* tests/migration_test.go: an undisturbed export, imported into an empty
\* database, gives the same nodes, observations and relation triples, with
\* homonyms in several projects too.
RoundTripKeepsGraph ==
    [][\A o \in Operator :
         LET j == job[o]
             S == rows'[j.db]
         IN /\ Finished(o) /\ j.kind = "import" /\ j.content # None
            /\ rows[j.db] = {}
            /\ \A r \in OfTab(j.content, "relations") : SameProject(r)
            => /\ IdsIn(S) = IdsIn(j.content)
               /\ OfTab(S, "observations") = OfTab(j.content, "observations")
               /\ {Triple(r) : r \in OfTab(S, "relations")} =
                    {Triple(r) : r \in OfTab(j.content, "relations")}]_vars

FixtureId(name) == [project |-> Global, name |-> name]

FixtureRows ==
    {Node(Global, n.name, None) : n \in FixtureNodes}
    \cup {Rel(FixtureId(r.from), FixtureId(r.to), r.type, Global) : r \in FixtureRelations}
    \cup UNION {{Obs(FixtureId(n.name), t) : t \in n.texts} : n \in FixtureNodes}

\* seed --reset leaves the fixtures, each text and relation on its own node,
\* and the sessions: nothing of the graph that was there, and nothing written
\* while it ran.
ResetLeavesTheFixtures ==
    [][\A o \in Operator : Finished(o) /\ job[o].wiped =>
         rows'[job[o].db] = OfTab(rows[job[o].db], "sessions") \cup FixtureRows]_vars

-------------------------------------------------------------------------------
(* What makes these inductive. *)

\* A job has the locals its kind and its stage call for.
JobFits(j) ==
    /\ j.kind = "none" => j = Idle
    /\ j.kind # "none" => j.db \in Db /\ j.at # "idle"
    /\ j.kind \notin Transfers => j.ins = {} /\ ~j.wiped
    /\ j.at \in {"reset", "done"} => j.ins = {} /\ ~j.wiped
    /\ j.at = "reset" => j.left = j.nodes
    /\ j.wiped => j.kind = "seed"
    /\ j.kind = "seed" => j.nodes = FixtureNodes /\ j.rels = FixtureRelations
    /\ j.kind \in Transfers =>
          /\ \A i \in j.nodes \cup j.rels : i.project \in Project
          /\ j.at \in {"nodes", "texts"} => j.left \subseteq j.nodes
          /\ j.at = "links" => j.left \subseteq j.rels

\* While a reset is under way no other transaction on its database is at work.
ResetIsAlone ==
    \A o, q \in Operator :
       o # q /\ job[o].wiped /\ job[q].db = job[o].db /\ job[q].kind \in Transfers
       => Waiting(job[q])

KeysApart ==
    /\ \A d \in Db : UniqueIn(rows[d])
    /\ \A o \in Operator : job[o].kind \in Transfers => UniqueIn(View(o))
    /\ \A o, q \in Operator : o # q /\ job[o].db = job[q].db =>
          \A x \in job[o].ins, y \in job[q].ins : Key(x) # Key(y)

\* A transaction has inserted nothing that is not in its file ...
FromFile(j, x) ==
    \/ \E n \in j.nodes : x = Node(n.project, n.name, None)
    \/ \E n \in j.nodes, id \in NodeId : \E t \in n.texts :
          Means(j, n, n.name, id) /\ x = Obs(id, t)
    \/ \E r \in j.rels, f, t \in NodeId :
          /\ Means(j, r, r.from, f) /\ Means(j, r, r.to, t)
          /\ x = Rel(f, t, r.type, Global)

\* ... and everything its loops are past.
Landed(j, S, live) ==
    LET past(stage, items) == IF j.at = stage THEN items \ j.left ELSE items
    IN /\ j.at \in {"nodes", "texts", "links", "commit"} =>
             \A n \in past("nodes", j.nodes) : HasNode(S, Own(n, n.name))
       /\ j.at \in {"texts", "links", "commit"} =>
             \A n \in past("texts", j.nodes) : TextsLanded(j, n, S, live)
       /\ j.at \in {"links", "commit"} =>
             \A r \in past("links", j.rels) : LinkLanded(j, r, S, live)

\* What an export has read so far, when `live` are the live rows.
ExportFits(j, live) ==
    LET scope(S) == {id \in IdsIn(S) : InScope(id.project, j.project)}
    IN /\ j.at \in {"nodes", "texts", "done"}
       /\ j.steady \subseteq j.seen
       /\ j.at # "done" => j.steady \subseteq live /\ live \subseteq j.seen
       /\ j.stale => j.steady = {}
       /\ j.at = "nodes" => j.nodes = {}
       /\ \A n \in j.nodes : n.project \in Project /\ ~n.deleted
                             /\ InScope(n.project, j.project)
       /\ NodesOfTheirTime(j.nodes, j.seen, j.steady)
       /\ j.at = "texts" => /\ j.left \subseteq scope(j.seen)
                            /\ \A id \in scope(j.steady) : id \in j.left \/ Exported(j, id)

\* The nodes N and the relations R of a file say what the graph C held.
Faithful(N, R, C) ==
    /\ \A n \in N : /\ n.project \in Project /\ ~n.deleted
                    /\ HasNode(C, Own(n, n.name)) /\ n.texts = TextsIn(C, Own(n, n.name))
    /\ \A id \in IdsIn(C) : \E n \in N : Own(n, n.name) = id
    /\ \A r \in R : r.project \in Project /\ ~r.deleted /\ \E x \in C : Names(r, x)
    /\ \A x \in OfTab(C, "relations") : \E r \in R : Names(r, x)
    /\ \A x \in OfTab(C, "observations") : x.node \in IdsIn(C)
    /\ \A x \in OfTab(C, "relations") : SameProject(x) => {x.from, x.to} \subseteq IdsIn(C)

\* Rows are apart and refer to nodes, every transaction is as far as it says,
\* with the rows of its file and no others, alone if it resets, and exports and
\* their files are of their time.
TransferInv ==
    /\ ResetIsAlone /\ KeysApart
    /\ \A d \in Db : ReferencesIn(rows[d])
    /\ file.content # None => file.entities = {}
                              /\ Faithful(file.nodes, file.rels, file.content)
    /\ \A o \in Operator :
          LET j == job[o]
          IN /\ JobFits(j)
             /\ j.kind = "export" => ExportFits(j, Live(j.db))
             /\ j.kind \in Transfers =>
                   /\ \A x \in j.ins : FromFile(j, x)
                   /\ Landed(j, View(o), LiveIds(o))
                   /\ j.content # None => Faithful(j.nodes, j.rels, j.content)

-------------------------------------------------------------------------------
(* What the documentation says. *)

\* docs/knowledge.md: relations.project_id is "denormalized for filter speed;
\* consistency enforced at write time".
RelationsStayInProject ==
    \A d \in Db : \A r \in OfTab(rows[d], "relations") : SameProject(r)

===============================================================================
