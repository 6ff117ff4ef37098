------------------------------ MODULE GraphTools ------------------------------
(***************************************************************************)
(* The MCP write tools (internal/mcp) over GraphStore: create_nodes,       *)
(* add_observations, update_observations, create_relations,                *)
(* mark_superseded, session_start, session_end, and the operator's soft    *)
(* deletes.  A handler first checks its request without a transaction,     *)
(* takes a connection of the pool, runs one SQL statement per step, and    *)
(* ends in a commit or, on every other way out, in the deferred Rollback.  *)
(* Any number of handlers interleave between statements.                   *)
(***************************************************************************)
EXTENDS GraphStore

CONSTANTS
    Request,      \* the requests clients may send
    Deletion,     \* the soft deletes an operator may run
    Scrub,        \* what the Content Filter and the 256-word cut make of a text
    Refused,      \* texts for which the Content Filter refuses the whole call
    MaxConns,     \* connections in the pool
    MaxRequests   \* bound of the model: requests served in a behaviour

Op == {"create_nodes", "add_observations", "update_observations",
       "create_relations", "mark_superseded", "session_start", "session_end"}

\* One element of a request's array.  mark_superseded(old, new) asks for a
\* single relation, from new to old.
NodeItem   == [project : Project, name : Name, texts : Seq(Text)]
AddItem    == [name : Name, texts : Seq(Text)]
UpdateItem == [name : Name, old : Text, new : Text]
EdgeItem   == [from : Name, to : Name, type : RelType,
               project : Project \cup {None}]
Supersedes == [from : Name, to : Name, type : {"supersedes"},
               project : Project \cup {None}]

RequestType ==
    [op : {"create_nodes"}, items : Seq(NodeItem),
     session : Session \cup {None}]
    \cup [op : {"add_observations"}, items : Seq(AddItem)]
    \cup [op : {"update_observations"}, items : Seq(UpdateItem)]
    \cup [op : {"create_relations"}, items : Seq(EdgeItem)]
    \cup {r \in [op : {"mark_superseded"}, items : Seq(Supersedes),
                 archive : BOOLEAN] : Len(r.items) = 1}
    \cup [op : {"session_start"}]
    \cup [op : {"session_end"}, session : Session]

DeletionType ==
    [op : {"node"}, name : Name]
    \cup [op : {"observation"}, node : NodeId, text : Text]
    \cup [op : {"relation"}, from : Name, to : Name, type : RelType]

ASSUME RequestsAreTyped == Request \subseteq RequestType
ASSUME DeletionsAreTyped == Deletion \subseteq DeletionType
ASSUME ScrubIsAFunction == Scrub \in [Text -> Text]
ASSUME BoundsAreNumbers == MaxConns \in Nat \ {0} /\ MaxRequests \in Nat

VARIABLES
    pc,       \* pc[c]: the statement the handler of c runs next
    task,     \* task[c]: its request and local variables
    res,      \* res[c]: the answer to the last request of c
    served    \* requests received so far

handlerVars == <<pc, task, res, served>>
vars == <<rows, dead, ins, del, pc, task, res, served>>

Label == {"idle", "session", "begin", "create", "lookup", "insert", "find",
          "find2", "stamp", "relate", "archive", "archiving", "start", "end",
          "commit", "count"}

\* The statements of the loop over a request's items.
ItemLabels == {"create", "lookup", "insert", "find", "find2", "stamp", "relate",
               "archive", "archiving"}

\* i, j: indexes into the items and an item's texts; from, to: node ids found;
\* nodes, n: the counters of the answer; left: rows an UPDATE still has to lock.
NoTask == [req |-> None, i |-> 0, j |-> 0, from |-> None, to |-> None,
           nodes |-> 0, n |-> 0, left |-> {}]

Status == {"none", "pending", "ok", "rejected", "error"}

Answer(s, nodes, n) == [status |-> s, nodes |-> nodes, n |-> n]

-------------------------------------------------------------------------------
(* Requests. *)

SessionOp(r) == r.op \in {"session_start", "session_end"}

Item(t) == t.req.items[t.i]

\* The texts a request asks to store, in the order the handler inserts them.
TextsOf(op, item) ==
    CASE op \in {"create_nodes", "add_observations"} -> item.texts
      [] op = "update_observations"                  -> <<item.new>>
      [] OTHER                                       -> <<>>

\* What is refused before any connection is taken.
Refuses(r) ==
    \/ \E k \in DOMAIN r.items :
          \E m \in DOMAIN TextsOf(r.op, r.items[k]) :
             TextsOf(r.op, r.items[k])[m] \in Refused
    \/ /\ r.op = "update_observations"
       /\ \/ r.items = <<>>
          \/ \E k \in DOMAIN r.items : r.items[k].old = r.items[k].new
    \/ /\ r.op = "mark_superseded"
       /\ r.items[1].from = r.items[1].to

\* The request as it reaches the transaction: every text to be stored has been
\* redacted and truncated.  old_text is a lookup key and stays as it was.
Scrubbed(r) ==
    CASE r.op \in {"create_nodes", "add_observations"} ->
           [r EXCEPT !.items = [k \in DOMAIN r.items |->
              [r.items[k] EXCEPT !.texts = [m \in DOMAIN r.items[k].texts |->
                                              Scrub[r.items[k].texts[m]]]]]]
      [] r.op = "update_observations" ->
           [r EXCEPT !.items = [k \in DOMAIN r.items |->
              [r.items[k] EXCEPT !.new = Scrub[r.items[k].new]]]]
      [] OTHER -> r

FirstStep(op) ==
    CASE op = "create_nodes"  -> "create"
      [] op = "session_start" -> "start"
      [] op = "session_end"   -> "end"
      [] OTHER                -> "find"

-------------------------------------------------------------------------------
(* Control. *)

\* Mutated form of OutsideTx: the session is counted before its transaction
\* gives the connection back.
OutsideTx_CountInside == {"idle", "session", "begin"}

OutsideTx == {"idle", "session", "begin", "count"}

InTx(c) == pc[c] \notin OutsideTx

FreeConn == Cardinality({c \in Client : InTx(c)}) < MaxConns

Goto(c, label, t) ==
    /\ pc' = [pc EXCEPT ![c] = label]
    /\ task' = [task EXCEPT ![c] = t]
    /\ UNCHANGED <<res, served>>

Reply(c, answer) ==
    /\ pc' = [pc EXCEPT ![c] = "idle"]
    /\ task' = [task EXCEPT ![c] = NoTask]
    /\ res' = [res EXCEPT ![c] = answer]
    /\ UNCHANGED served

\* Mutated form of Abort: what the transaction has done so far is kept.
Abort_KeepsPart(c, status) == CommitTx(c) /\ Reply(c, Answer(status, 0, 0))

\* A return that does not commit: the deferred Rollback runs.
Abort(c, status) == RollbackTx(c) /\ Reply(c, Answer(status, 0, 0))

\* Mutated form of NextItem: the loop runs once too often.
NextItem_OneMore(c, t) ==
    IF t.i <= Len(t.req.items)
    THEN Goto(c, FirstStep(t.req.op), [t EXCEPT !.i = @ + 1, !.j = 1])
    ELSE Goto(c, "commit", t)

NextItem(c, t) ==
    IF t.i < Len(t.req.items)
    THEN Goto(c, FirstStep(t.req.op), [t EXCEPT !.i = @ + 1, !.j = 1])
    ELSE Goto(c, "commit", t)

\* On to the next text of the item, if it has one left.
NextText(c, t) ==
    IF t.j <= Len(TextsOf(t.req.op, Item(t))) THEN Goto(c, "insert", t)
    ELSE NextItem(c, t)

-------------------------------------------------------------------------------
(* Before the transaction. *)

\* create_nodes with a session looks the session up before the Content Filter
\* runs; every other request is refused at once or goes on to its transaction.
NeedsSession(r) == r.op = "create_nodes" /\ r.session # None

Receive(c, r) ==
    /\ pc[c] = "idle"
    /\ served < MaxRequests
    /\ served' = served + 1
    /\ UNCHANGED storeVars
    /\ IF ~SessionOp(r) /\ ~NeedsSession(r) /\ Refuses(r)
       THEN /\ res' = [res EXCEPT ![c] = Answer("rejected", 0, 0)]
            /\ UNCHANGED <<pc, task>>
       ELSE /\ res' = [res EXCEPT ![c] = Answer("pending", 0, 0)]
            /\ task' = [task EXCEPT ![c] = [NoTask EXCEPT
                          !.req = IF NeedsSession(r) THEN r ELSE Scrubbed(r),
                          !.i = 1, !.j = 1]]
            /\ pc' = [pc EXCEPT ![c] =
                        IF NeedsSession(r) THEN "session" ELSE "begin"]

\* GetSession on the pool, before the Content Filter and the transaction.
CheckSession(c) ==
    /\ pc[c] = "session"
    /\ FreeConn
    /\ UNCHANGED storeVars
    /\ LET r == task[c].req
       IN IF Sess(r.session) \in rows \ dead /\ ~Refuses(r)
          THEN Goto(c, "begin", [task[c] EXCEPT !.req = Scrubbed(r)])
          ELSE Reply(c, Answer("rejected", 0, 0))

Begin(c) ==
    /\ pc[c] = "begin"
    /\ FreeConn
    /\ UNCHANGED storeVars
    /\ LET r == task[c].req
       IN IF ~SessionOp(r) /\ r.items = <<>> THEN Goto(c, "commit", task[c])
          ELSE Goto(c, FirstStep(r.op), task[c])

-------------------------------------------------------------------------------
(* Statements of the handlers. *)

\* store.Create: the insert.  The session only reaches a row that is new.
Create(c) ==
    /\ pc[c] = "create"
    /\ LET t   == task[c]
           row == Node(Item(t).project, Item(t).name, t.req.session)
       IN /\ InsertRow(c, row)
          /\ IF Taken(c, Key(row)) THEN Goto(c, "lookup", t)
             ELSE NextText(c, [t EXCEPT !.from = IdOf(row), !.nodes = @ + 1])

\* store.findIDByName: the conflict path wants the existing row to be active.
\* createdNodes counts the node although it is not new.
LookupExisting(c) ==
    /\ pc[c] = "lookup"
    /\ LET t  == task[c]
           id == [project |-> Item(t).project, name |-> Item(t).name]
       IN IF \E r \in Live(c) : r.tab = "nodes" /\ IdOf(r) = id
          THEN /\ NextText(c, [t EXCEPT !.from = id, !.nodes = @ + 1])
               /\ UNCHANGED storeVars
          ELSE Abort(c, "error")

\* store.FindByName without a project, for the first name a tool resolves.
FindNode(c) ==
    /\ pc[c] = "find"
    /\ LET t  == task[c]
           op == t.req.op
           nm == CASE op = "create_relations" -> Item(t).from
                   [] op = "mark_superseded"  -> Item(t).to
                   [] OTHER                   -> Item(t).name
           id == FirstHomonym(Homonyms(c, nm))
       IN IF Homonyms(c, nm) = {} THEN Abort(c, "rejected")
          ELSE /\ CASE op = "add_observations" ->
                         NextText(c, [t EXCEPT !.from = id])
                    [] op = "update_observations" ->
                         Goto(c, "stamp", [t EXCEPT !.from = id])
                    [] op = "create_relations" ->
                         Goto(c, "find2", [t EXCEPT !.from = id])
                    [] OTHER ->
                         Goto(c, "find2", [t EXCEPT !.to = id])
               /\ UNCHANGED storeVars

\* store.FindByName for the other endpoint of a relation.
FindOther(c) ==
    /\ pc[c] = "find2"
    /\ LET t  == task[c]
           nm == IF t.req.op = "create_relations" THEN Item(t).to
                 ELSE Item(t).from
           id == FirstHomonym(Homonyms(c, nm))
       IN IF Homonyms(c, nm) = {} THEN Abort(c, "rejected")
          ELSE /\ IF t.req.op = "create_relations"
                  THEN Goto(c, "relate", [t EXCEPT !.to = id])
                  ELSE Goto(c, "relate", [t EXCEPT !.from = id])
               /\ UNCHANGED storeVars

\* Mutated form of InsertObservation: counts the rows it asked for.
InsertObservation_CountAll(c) ==
    /\ pc[c] = "insert"
    /\ LET t   == task[c]
           row == Obs(t.from, TextsOf(t.req.op, Item(t))[t.j])
       IN /\ InsertRow(c, row)
          /\ NextText(c, [t EXCEPT !.j = @ + 1, !.n = @ + 1])

\* store.Insert, for the next text of the item.
InsertObservation(c) ==
    /\ pc[c] = "insert"
    /\ LET t   == task[c]
           row == Obs(t.from, TextsOf(t.req.op, Item(t))[t.j])
       IN /\ InsertRow(c, row)
          /\ NextText(c, [t EXCEPT !.j = @ + 1,
                                   !.n = IF Taken(c, Key(row)) THEN @ ELSE @ + 1])

\* Mutated form of MarkObservationDeleted: an old text that is not there is
\* nothing to replace, and the new one is added all the same.
MarkObservationDeleted_Tolerant(c) ==
    /\ pc[c] = "stamp"
    /\ LET t   == task[c]
           row == Obs(t.from, Item(t).old)
       IN /\ Goto(c, "insert", t)
          /\ IF row \in Live(c) THEN StampRow(c, row) ELSE UNCHANGED storeVars

\* store.MarkObservationDeletedByText: no active row with the old text fails
\* the whole batch.
MarkObservationDeleted(c) ==
    /\ pc[c] = "stamp"
    /\ LET t   == task[c]
           row == Obs(t.from, Item(t).old)
       IN IF row \in Live(c)
          THEN StampRow(c, row) /\ Goto(c, "insert", t)
          ELSE Abort(c, "rejected")

\* Mutated form of CrossProject: only the project the caller named is compared.
CrossProject_NamedOnly(t) == Item(t).project \notin {None, t.from.project}

\* The two checks that keep a relation inside one project.
CrossProject(t) ==
    \/ t.from.project # t.to.project
    \/ Item(t).project \notin {None, t.from.project}

\* store.InsertRelation after the checks.  A conflict is skipped by
\* create_relations and refused by mark_superseded.
Relate(c) ==
    /\ pc[c] = "relate"
    /\ LET t     == task[c]
           row   == Rel(t.from, t.to, Item(t).type, t.from.project)
           taken == Taken(c, Key(row))
       IN \/ /\ CrossProject(t)
             /\ Abort(c, "rejected")
          \/ /\ ~CrossProject(t)
             /\ t.req.op = "mark_superseded" /\ taken
             /\ Abort(c, "rejected")
          \/ /\ ~CrossProject(t)
             /\ t.req.op = "mark_superseded" => ~taken
             /\ InsertRow(c, row)
             /\ CASE t.req.op = "create_relations" ->
                       NextItem(c, [t EXCEPT !.n = IF taken THEN @ ELSE @ + 1])
                  [] t.req.op = "mark_superseded" /\ t.req.archive ->
                       Goto(c, "archive", t)
                  [] OTHER -> NextItem(c, t)

\* archiveObservations: the UPDATE picks its rows when it starts ...
Archive(c) ==
    /\ pc[c] = "archive"
    /\ LET t == task[c]
       IN Goto(c, "archiving",
               [t EXCEPT !.left = {r \in Live(c) : r.tab = "observations"
                                                   /\ r.node = t.to}])
    /\ UNCHANGED storeVars

\* ... and locks and stamps them one after the other.
ArchiveRow(c) ==
    /\ pc[c] = "archiving"
    /\ LET t == task[c]
       IN \/ /\ t.left = {}
             /\ NextItem(c, t)
             /\ UNCHANGED storeVars
          \/ \E r \in t.left :
                /\ StampRow(c, r)
                /\ Goto(c, "archiving",
                        [t EXCEPT !.left = @ \ {r},
                                  !.n = IF r \in Live(c) THEN @ + 1 ELSE @])

\* store.CreateSession: gen_random_uuid() yields an id nobody has.
StartSession(c) ==
    /\ pc[c] = "start"
    /\ \E s \in Session :
          /\ \A d \in Client : ~Taken(d, Key(Sess(s)))
          /\ InsertRow(c, Sess(s))
    /\ Goto(c, "commit", task[c])

\* store.EndSession: ended_at and summary are written only once.
EndSession(c) ==
    /\ pc[c] = "end"
    /\ LET row == Sess(task[c].req.session)
       IN IF row \in Visible(c)
          THEN StampRow(c, row) /\ Goto(c, "commit", task[c])
          ELSE Abort(c, "rejected")

-------------------------------------------------------------------------------
(* The end of a request. *)

Commit(c) ==
    /\ pc[c] = "commit"
    /\ CommitTx(c)
    /\ LET t == task[c]
       IN CASE t.req.op = "session_end" -> Goto(c, "count", t)
            [] t.req.op = "update_observations" ->
                 Reply(c, Answer("ok", 0, Len(t.req.items)))
            [] OTHER -> Reply(c, Answer("ok", t.nodes, t.n))

\* The commit took effect, but its acknowledgement was lost on the way back:
\* tx.Commit returns an error and so does the tool.
CommitUnacknowledged(c) ==
    /\ pc[c] = "commit"
    /\ CommitTx(c)
    /\ Reply(c, Answer("error", 0, 0))

\* CountSessionNodes, on the pool, after session_end has committed.
CountSessionNodes(c) ==
    /\ pc[c] = "count"
    /\ FreeConn
    /\ UNCHANGED storeVars
    /\ LET s == task[c].req.session
       IN Reply(c, Answer("ok", Cardinality({r \in rows : r.tab = "nodes"
                                                    /\ r.session = s}), 0))

\* A failed statement, a failed embedding, a caller that went away.
Fail(c) ==
    /\ pc[c] # "idle"
    /\ Abort(c, "error")

\* The open transactions the next statement of c has to wait for.
WaitsFor(c) ==
    LET t == task[c]
        inserting(r) == IF Taken(c, Key(r)) THEN {} ELSE Inserters(c, Key(r))
    IN CASE pc[c] = "create" ->
              inserting(Node(Item(t).project, Item(t).name, t.req.session))
         [] pc[c] = "insert" ->
              inserting(Obs(t.from, TextsOf(t.req.op, Item(t))[t.j]))
         [] pc[c] = "relate" ->
              IF CrossProject(t) THEN {}
              ELSE inserting(Rel(t.from, t.to, Item(t).type, t.from.project))
         [] pc[c] = "stamp" ->
              LET row == Obs(t.from, Item(t).old)
              IN IF row \in Live(c) THEN Lockers(c, row) ELSE {}
         [] pc[c] = "archiving" ->
              IF \E r \in t.left : Lockers(c, r) = {} THEN {}
              ELSE UNION {Lockers(c, r) : r \in t.left}
         [] pc[c] = "end" -> Lockers(c, Sess(t.req.session))
         [] OTHER -> {}

\* Postgres breaks a cycle of waiting transactions by failing one of them.
DeadlockVictim(c) ==
    /\ \E S \in SUBSET Client :
          /\ c \in S
          /\ \A d \in S : WaitsFor(d) \cap S # {}
          /\ \A d \in S : \E e \in S : d \in WaitsFor(e)
    /\ Abort(c, "error")

-------------------------------------------------------------------------------
(* Soft deletes by an operator, each its own transaction. *)

LiveRows == rows \ dead

NodesNamed(n) == {r \in LiveRows : r.tab = "nodes" /\ r.name = n}

\* store.MarkDeletedByNames: every homonym, whatever its project.
AdminDeleteNode(d) ==
    /\ d.op = "node"
    /\ StampNow(NodesNamed(d.name))

\* store.MarkDeletedByNodeAndTexts.
AdminDeleteObservation(d) ==
    /\ d.op = "observation"
    /\ StampNow({Obs(d.node, d.text)} \cap LiveRows)

\* store.MarkRelationDeleted resolves both names as the tools do.
AdminDeleteRelation(d) ==
    /\ d.op = "relation"
    /\ NodesNamed(d.from) # {} /\ NodesNamed(d.to) # {}
    /\ LET from == FirstHomonym(NodesNamed(d.from))
           to   == FirstHomonym(NodesNamed(d.to))
       IN StampNow({r \in LiveRows : /\ r.tab = "relations"
                                     /\ r.from = from /\ r.to = to
                                     /\ r.type = d.type})

AdminStep ==
    /\ \E d \in Deletion :
          AdminDeleteNode(d) \/ AdminDeleteObservation(d) \/ AdminDeleteRelation(d)
    /\ UNCHANGED handlerVars

-------------------------------------------------------------------------------
Init ==
    /\ StoreInit
    /\ pc = [c \in Client |-> "idle"]
    /\ task = [c \in Client |-> NoTask]
    /\ res = [c \in Client |-> Answer("none", 0, 0)]
    /\ served = 0

\* What the handler of c does on its own once it has a request.
HandlerStep(c) ==
    \/ CheckSession(c) \/ Begin(c)
    \/ Create(c) \/ LookupExisting(c) \/ FindNode(c) \/ FindOther(c)
    \/ InsertObservation(c) \/ MarkObservationDeleted(c) \/ Relate(c)
    \/ Archive(c) \/ ArchiveRow(c) \/ StartSession(c) \/ EndSession(c)
    \/ Commit(c) \/ CountSessionNodes(c) \/ DeadlockVictim(c)

Next ==
    \/ \E c \in Client, r \in Request : Receive(c, r)
    \/ \E c \in Client : HandlerStep(c) \/ Fail(c) \/ CommitUnacknowledged(c)
    \/ AdminStep

\* A handler's goroutine keeps running, Postgres grants a lock once it is free
\* and aborts a deadlocked transaction, and the pool hands out a connection
\* once there is one.  Nothing obliges clients or operators to act.
Fairness == \A c \in Client : WF_vars(HandlerStep(c))

Spec == Init /\ [][Next]_vars

FairSpec == Spec /\ Fairness

-------------------------------------------------------------------------------
(* Properties. *)

\* Which requests reach a statement.
OpsAt(label) ==
    CASE label \in {"session", "create", "lookup"} -> {"create_nodes"}
      [] label = "insert" -> {"create_nodes", "add_observations",
                              "update_observations"}
      [] label = "find"   -> {"add_observations", "update_observations",
                              "create_relations", "mark_superseded"}
      [] label = "stamp"  -> {"update_observations"}
      [] label \in {"find2", "relate"} -> {"create_relations", "mark_superseded"}
      [] label \in {"archive", "archiving"} -> {"mark_superseded"}
      [] label = "start"  -> {"session_start"}
      [] label \in {"end", "count"} -> {"session_end"}
      [] OTHER -> Op

TaskTyped(t) ==
    /\ DOMAIN t = DOMAIN NoTask
    /\ t.req \in RequestType
    /\ t.i \in Nat \ {0} /\ t.j \in Nat \ {0}
    /\ t.nodes \in Nat /\ t.n \in Nat
    /\ t.left \subseteq ObsRow

\* The statement `label` can run with the locals t.
TaskFits(label, t) ==
    /\ TaskTyped(t)
    /\ t.req.op \in OpsAt(label)
    /\ label \in ItemLabels => t.i <= Len(t.req.items)
    /\ label \in {"session", "begin"} => t.i = 1
    /\ label \in {"session", "begin", "find", "stamp"} => t.j = 1
    /\ label = "insert" => t.j <= Len(TextsOf(t.req.op, Item(t)))
    /\ label \in {"insert", "stamp", "relate"} => t.from \in NodeId
    /\ label \in {"relate", "archive", "archiving"} => t.to \in NodeId
    /\ label = "find2" => IF t.req.op = "create_relations" THEN t.from \in NodeId
                          ELSE t.to \in NodeId

\* The tables hold rows, every handler is at a statement its tool has, and its
\* indexes stay inside the request.
TypeOK ==
    /\ StoreTypeOK
    /\ pc \in [Client -> Label]
    /\ DOMAIN task = Client
    /\ \A c \in Client : IF pc[c] = "idle" THEN task[c] = NoTask
                                      ELSE TaskFits(pc[c], task[c])
    /\ res \in [Client -> [status : Status, nodes : Nat, n : Nat]]
    /\ served \in Nat /\ served <= MaxRequests

\* No table ever holds two rows with one key, deleted rows included, however
\* the inserts of concurrent transactions interleave: ON CONFLICT DO NOTHING
\* and the wait for a key in flight are what makes re-sent requests safe.
UniqueKeys == \A r, q \in rows : Key(r) = Key(q) => r = q

\* An observation or a relation in the tables hangs on a node in the tables,
\* never on one whose creation was rolled back.
ForeignKeys == \A r \in rows : \A id \in NodesOf(r) : HasNode(rows, id)

\* Names are resolved without a project, so homonyms of several projects are
\* candidates for an endpoint; a stored relation still never joins two
\* projects, and its own project_id is that of its endpoints.
InOneProject(r) ==
    r.tab = "relations" => r.from.project = r.project /\ r.to.project = r.project

RelationsStayInProject == \A r \in rows : InOneProject(r)

\* What makes these inductive: the rows of open transactions keep out of each
\* other's way and out of the tables', and are already as they should be.
KeysApart ==
    /\ \A c \in Client : \A r \in ins[c], q \in rows : Key(r) # Key(q)
    /\ \A c, d \in Client : \A r \in ins[c], q \in ins[d] :
          Key(r) = Key(q) => c = d /\ r = q

InFlightInProject == \A c \in Client : \A r \in ins[c] : InOneProject(r)

\* The nodes a handler has resolved, or created, are among the rows it sees.
TargetsFit(label, t, seen) ==
    /\ label \in {"insert", "stamp", "relate"} => HasNode(seen, t.from)
    /\ label = "relate" => HasNode(seen, t.to)
    /\ label = "find2" => IF t.req.op = "create_relations"
                          THEN HasNode(seen, t.from) ELSE HasNode(seen, t.to)

TargetsExist == \A c \in Client : TargetsFit(pc[c], task[c], Visible(c))

InFlightReferences ==
    \A c \in Client : \A r \in ins[c] : \A id \in NodesOf(r) :
       HasNode(Visible(c), id)

GraphInv ==
    /\ TypeOK
    /\ UniqueKeys /\ KeysApart
    /\ RelationsStayInProject /\ InFlightInProject
    /\ ForeignKeys /\ InFlightReferences /\ TargetsExist

\* The counter of an answer is what its own transaction did to the tables,
\* whatever other handlers inserted, replaced or archived meanwhile: it counts
\* new observations or relations, and for update_observations and
\* mark_superseded the observations retired.  (created_nodes is not such a
\* counter: it counts the items of the request.)
Retired == {r \in dead' \ dead : r.tab = "observations"}

AddedTo(table) == {r \in rows' \ rows : r.tab = table}

AnswersAreExact ==
    [][\A c \in Client :
         res[c].status = "pending" /\ res'[c].status = "ok" =>
           CASE task[c].req.op \in {"create_nodes", "add_observations"} ->
                  res'[c].n = Cardinality(AddedTo("observations"))
             [] task[c].req.op = "create_relations" ->
                  res'[c].n = Cardinality(AddedTo("relations"))
             [] task[c].req.op \in {"update_observations", "mark_superseded"} ->
                  res'[c].n = Cardinality(Retired)
             [] OTHER -> TRUE]_vars

\* The committed graph changes by whole requests: every step of the server maps
\* to one request of GraphPromise applied at once, or to none.
Promise == INSTANCE GraphPromise WITH rows <- rows, dead <- dead
Implements == Promise!Spec

-------------------------------------------------------------------------------
(* What makes the two inductive: an open transaction has done, of its own     *)
(* request and of nothing else, what the handler is past.                     *)

\* No two open transactions have stamped one row, nor one that was dead.
LocksApart ==
    /\ \A c \in Client : del[c] \cap dead = {}
    /\ \A c, d \in Client : c # d => del[c] \cap del[d] = {}

TextOps == {"create_nodes", "add_observations", "update_observations"}

LoopOps == TextOps \cup {"create_relations"}

\* id is a node that the item of a request may name.
Meant(op, item, id) ==
    /\ id \in NodeId /\ id.name = item.name
    /\ op = "create_nodes" => id.project = item.project

\* x is a row that item k of the request may insert.
Asked(req, k, x) ==
    LET item == req.items[k]
        texts == TextsOf(req.op, item)
    IN IF req.op \in TextOps
       THEN \/ /\ req.op = "create_nodes"
               /\ x = Node(item.project, item.name, req.session)
            \/ \E id \in NodeId, m \in DOMAIN texts :
                  Meant(req.op, item, id) /\ x = Obs(id, texts[m])
       ELSE x \in Promise!Edges(item)

\* Item k is done: its rows are in sight and its old text has been stamped.
ItemDone(req, k, D, seen) ==
    LET item == req.items[k]
        texts == TextsOf(req.op, item)
    IN IF req.op \in TextOps
       THEN \E id \in NodeId :
               /\ Meant(req.op, item, id)
               /\ \A m \in DOMAIN texts : Obs(id, texts[m]) \in seen
               /\ req.op = "create_nodes" => HasNode(seen, id)
               /\ req.op = "update_observations" => Obs(id, item.old) \in D
       ELSE \E e \in Promise!Edges(item) : \E x \in seen : Key(x) = Key(e)

\* The items that a handler at statement `label` is done with.
Behind(label, t) ==
    IF label = "commit" THEN DOMAIN t.req.items ELSE 1..(t.i - 1)

\* What a handler at statement `label` has done of the item it is at.
HereFits(label, t, D, seen) ==
    LET op == t.req.op
    IN /\ label \in {"create", "lookup", "find", "stamp"} => t.j = 1
       /\ label \in {"insert", "stamp"} => Meant(op, Item(t), t.from)
       /\ label = "insert" =>
             /\ \A m \in 1..(t.j - 1) : Obs(t.from, TextsOf(op, Item(t))[m]) \in seen
             /\ op = "update_observations" => Obs(t.from, Item(t).old) \in D

LinkFits(label, t) ==
    LET supersedes == t.req.op = "mark_superseded"
    IN /\ label = "relate" \/ (label = "find2" /\ ~supersedes) =>
             t.from.name = Item(t).from
       /\ label = "relate" \/ (label = "find2" /\ supersedes) =>
             t.to.name = Item(t).to

LoopWork(label, t, I, D, seen) ==
    /\ \A x \in I : \E k \in DOMAIN t.req.items : Asked(t.req, k, x)
    /\ \A x \in D :
          /\ t.req.op = "update_observations"
          /\ \E k \in DOMAIN t.req.items, id \in NodeId : x = Obs(id, t.req.items[k].old)
    /\ \A k \in Behind(label, t) : ItemDone(t.req, k, D, seen)
    /\ HereFits(label, t, D, seen)

SupersedeWork(label, t, I, D) ==
    IF label \in {"archive", "archiving", "commit"}
    THEN \E e \in Promise!Edges(t.req.items[1]) :
            /\ I = {e}
            /\ \A x \in D : x \in ObsRow /\ t.req.archive /\ x.node = e.to
            /\ label # "commit" => t.req.archive /\ t.to = e.to
            /\ label = "archiving" => \A x \in t.left : x.node = e.to
    ELSE I = {} /\ D = {}

SessionWork(label, t, I, D, seen, gone) ==
    IF label = "commit"
    THEN IF t.req.op = "session_start"
         THEN D = {} /\ \E s \in Session : I = {Sess(s)}
         ELSE LET row == Sess(t.req.session)
              IN I = {} /\ D \subseteq {row} /\ row \in seen /\ row \in gone
    ELSE I = {} /\ D = {}

\* The request is one of a client, scrubbed before its transaction begins; I
\* and D, the rows that transaction has inserted and stamped, fit the locals t
\* of a handler that sees the rows `seen`, those in `gone` deleted.
WorkFits(label, t, I, D, seen, gone) ==
    /\ label \in OutsideTx => I = {} /\ D = {}
    /\ label = "session" => t.req \in Request
    /\ label \notin {"idle", "session"} => \E r \in Request : t.req = Scrubbed(r)
    /\ label \notin OutsideTx =>
          /\ LinkFits(label, t)
          /\ t.req.op \in LoopOps => LoopWork(label, t, I, D, seen)
          /\ t.req.op = "mark_superseded" => SupersedeWork(label, t, I, D)
          /\ SessionOp(t.req) => SessionWork(label, t, I, D, seen, gone)

\* The counter of the answer, so far.
CountFits(label, t, I, D) ==
    LET op == t.req.op
        held(tab) == {r \in I : r.tab = tab}
    IN /\ label \in {"session", "begin"} => t.n = 0
       /\ label \notin OutsideTx =>
             /\ op \in {"create_nodes", "add_observations"} =>
                   t.n = Cardinality(held("observations"))
             /\ op = "create_relations" => t.n = Cardinality(held("relations"))
             /\ op = "update_observations" =>
                   Cardinality(D) = Cardinality(Behind(label, t)) +
                                    (IF label = "insert" THEN 1 ELSE 0)
             /\ op = "mark_superseded" => t.n = Cardinality(D)

\* At every statement an open transaction has done exactly what its handler is
\* past, for its own request and no other: whatever others commit, stamp or
\* roll back meanwhile, it holds no row nobody asked for, every item behind it
\* is in sight, its counter is right, and no row is stamped twice.
WorkInv ==
    /\ LocksApart
    /\ \A c \in Client :
          /\ WorkFits(pc[c], task[c], ins[c], del[c], Visible(c), dead \cup del[c])
          /\ CountFits(pc[c], task[c], ins[c], del[c])

\* internal/mcp/nodes.go: update_observations soft-deletes old_text and inserts
\* new_text, so the node shows the new text once the call has succeeded.
UpdateTakesEffect ==
    [][\A c \in Client :
         /\ res[c].status = "pending" /\ res'[c].status = "ok"
         /\ task[c].req.op = "update_observations"
         => LET t == task[c]
            IN Obs(t.from, Item(t).new) \in rows' \ dead']_vars

\* A request is answered: two handlers that wait for each other's rows or keys
\* do not hang, and a handler that holds a connection never needs another one.
EveryRequestReturns == \A c \in Client : pc[c] # "idle" ~> pc[c] = "idle"

===============================================================================
