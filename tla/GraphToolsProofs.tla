--------------------------- MODULE GraphToolsProofs ---------------------------
(***************************************************************************)
(* Proofs about GraphTools, for every set of clients, requests and names,  *)
(* every number of connections and every graph to start from.              *)
(***************************************************************************)
EXTENDS GraphTools, SequenceTheorems, FiniteSetTheorems,
        WellFoundedInduction, TLAPS

-------------------------------------------------------------------------------
(* Rows and names. *)

LEMMA NodeTyped ==
    ASSUME NEW p \in Project, NEW n \in Name, NEW s \in Session \cup {None}
    PROVE  Node(p, n, s) \in NodeRow /\ Node(p, n, s) \in Row
BY DEF Node, NodeRow, Row

LEMMA ObsTyped ==
    ASSUME NEW id \in NodeId, NEW t \in Text
    PROVE  Obs(id, t) \in ObsRow /\ Obs(id, t) \in Row
BY DEF Obs, ObsRow, Row

LEMMA RelTyped ==
    ASSUME NEW f \in NodeId, NEW t \in NodeId, NEW y \in RelType,
           NEW p \in Project
    PROVE  Rel(f, t, y, p) \in RelRow /\ Rel(f, t, y, p) \in Row
BY DEF Rel, RelRow, Row

LEMMA SessTyped ==
    ASSUME NEW s \in Session
    PROVE  Sess(s) \in SessRow /\ Sess(s) \in Row
BY DEF Sess, SessRow, Row

\* The rows of a table carry its type.
LEMMA RowOfTable ==
    ASSUME NEW r \in Row
    PROVE  /\ r.tab = "nodes" => r \in NodeRow /\ IdOf(r) \in NodeId
           /\ r.tab = "observations" => r \in ObsRow
           /\ r.tab = "relations" => r \in RelRow
BY DEF Row, NodeRow, ObsRow, RelRow, SessRow, IdOf, NodeId

\* Every non-empty set of node rows has one whose project sorts first, so
\* resolving a name yields the id of one of its homonyms.
LEMMA FirstHomonymIsOne ==
    ASSUME NEW S, S \subseteq NodeRow, S # {}
    PROVE  \E r \in S : FirstHomonym(S) = IdOf(r)
<1> DEFINE Ps == {r.project : r \in S}
           Less == {ss \in Nat \X Nat : ss[1] < ss[2]}
<1>1. Ps \subseteq Nat /\ Ps # {}
  BY ProjectsAreRanked DEF NodeRow
<1>0. IsWellFoundedOn(Less, Nat)
  BY NatLessThanWellFounded DEF OpToRel
<1>2. PICK p \in Ps : \A q \in Ps : ~(<<q, p>> \in Less)
  <2> HIDE DEF Ps, Less
  <2> QED BY <1>0, <1>1, WFMin
<1>3. \A q \in Ps : p <= q
  <2> SUFFICES ASSUME NEW q \in Ps, ~(p <= q) PROVE FALSE
    OBVIOUS
  <2>1. p \in Nat /\ q \in Nat /\ q < p
    BY <1>1
  <2> QED
    BY <1>2, <2>1
<1>4. \E r \in S : \A q \in S : r.project <= q.project
  BY <1>3
<1> QED
  BY <1>4 DEF FirstHomonym

-------------------------------------------------------------------------------
(* What the statements of GraphStore do to its types. *)

LEMMA InsertRowType ==
    ASSUME StoreTypeOK, NEW c \in Client, NEW r \in Row, InsertRow(c, r)
    PROVE  StoreTypeOK'
BY FS_AddElement DEF StoreTypeOK, InsertRow, Visible

LEMMA StampRowType ==
    ASSUME StoreTypeOK, NEW c \in Client, NEW r \in Row, StampRow(c, r)
    PROVE  StoreTypeOK'
BY DEF StoreTypeOK, StampRow, Visible, Live

LEMMA CommitTxType ==
    ASSUME StoreTypeOK, NEW c \in Client, CommitTx(c)
    PROVE  StoreTypeOK'
BY FS_Union, FS_EmptySet DEF StoreTypeOK, CommitTx, Visible

LEMMA RollbackTxType ==
    ASSUME StoreTypeOK, NEW c \in Client, RollbackTx(c)
    PROVE  StoreTypeOK'
BY FS_EmptySet DEF StoreTypeOK, RollbackTx, Visible

LEMMA StampNowType ==
    ASSUME StoreTypeOK, NEW S, S \subseteq rows, StampNow(S)
    PROVE  StoreTypeOK'
BY DEF StoreTypeOK, StampNow, Visible

LEMMA StoreUnchangedType ==
    ASSUME StoreTypeOK, UNCHANGED storeVars
    PROVE  StoreTypeOK'
BY DEF StoreTypeOK, storeVars, Visible

-------------------------------------------------------------------------------
(* Requests and their items. *)

LEMMA RequestTyped ==
    ASSUME NEW r \in RequestType
    PROVE  /\ r.op \in Op
           /\ r.op = "create_nodes" => /\ r.items \in Seq(NodeItem)
                                       /\ r.session \in Session \cup {None}
           /\ r.op = "add_observations" => r.items \in Seq(AddItem)
           /\ r.op = "update_observations" => r.items \in Seq(UpdateItem)
           /\ r.op = "create_relations" => r.items \in Seq(EdgeItem)
           /\ r.op = "mark_superseded" => /\ r.items \in Seq(Supersedes)
                                          /\ Len(r.items) = 1
                                          /\ r.archive \in BOOLEAN
           /\ r.op = "session_end" => r.session \in Session
BY DEF RequestType, Op

\* The item a handler is at is an item of its tool.
LEMMA ItemTyped ==
    ASSUME NEW t, t.req \in RequestType, t.i \in Nat \ {0},
           t.i <= Len(t.req.items),
           ~SessionOp(t.req)
    PROVE  /\ t.req.op = "create_nodes" => Item(t) \in NodeItem
           /\ t.req.op = "add_observations" => Item(t) \in AddItem
           /\ t.req.op = "update_observations" => Item(t) \in UpdateItem
           /\ t.req.op = "create_relations" => Item(t) \in EdgeItem
           /\ t.req.op = "mark_superseded" => Item(t) \in Supersedes
           /\ TextsOf(t.req.op, Item(t)) \in Seq(Text)
           /\ Len(t.req.items) \in Nat
<1>1. \A S : t.req.items \in Seq(S) => Item(t) \in S /\ Len(t.req.items) \in Nat
  BY ElementOfSeq, LenProperties DEF Item
<1>2. /\ t.req.op = "create_nodes" => Item(t) \in NodeItem
      /\ t.req.op = "add_observations" => Item(t) \in AddItem
      /\ t.req.op = "update_observations" => Item(t) \in UpdateItem
      /\ t.req.op = "create_relations" => Item(t) \in EdgeItem
      /\ t.req.op = "mark_superseded" => Item(t) \in Supersedes
  BY <1>1, RequestTyped
<1>3. Len(t.req.items) \in Nat
  BY <1>1, RequestTyped DEF SessionOp, Op
<1>4. TextsOf(t.req.op, Item(t)) \in Seq(Text)
  <2>1. CASE t.req.op = "create_nodes"
    BY <1>2, <2>1 DEF TextsOf, NodeItem
  <2>2. CASE t.req.op = "add_observations"
    BY <1>2, <2>2 DEF TextsOf, AddItem
  <2>3. CASE t.req.op = "update_observations"
    <3>1. Item(t).new \in Text
      BY <1>2, <2>3 DEF UpdateItem
    <3> QED
      BY <2>3, <3>1 DEF TextsOf
  <2>4. CASE t.req.op \notin {"create_nodes", "add_observations",
                             "update_observations"}
    BY <2>4 DEF TextsOf
  <2> QED
    BY <2>1, <2>2, <2>3, <2>4
<1> QED
  BY <1>2, <1>3, <1>4

-------------------------------------------------------------------------------
(* Control: the ways a statement hands over to the next one. *)

LEMMA GotoType ==
    ASSUME TypeOK, StoreTypeOK', NEW c \in Client, NEW t,
           NEW label \in Label \ {"idle"}, TaskFits(label, t),
           Goto(c, label, t)
    PROVE  TypeOK'
BY DEF TypeOK, Goto

LEMMA ReplyType ==
    ASSUME TypeOK, StoreTypeOK', NEW c \in Client,
           NEW s \in Status, NEW k \in Nat, NEW n \in Nat,
           Reply(c, Answer(s, k, n))
    PROVE  TypeOK'
BY DEF TypeOK, Reply, Answer, Label

LEMMA AbortType ==
    ASSUME TypeOK, NEW c \in Client, NEW s \in Status, Abort(c, s)
    PROVE  TypeOK'
<1>1. StoreTypeOK'
  BY RollbackTxType DEF Abort, TypeOK
<1> QED
  BY <1>1, ReplyType DEF Abort

\* A loop that stands at an item goes on to the next one, or to the commit.
LEMMA NextItemType ==
    ASSUME TypeOK, StoreTypeOK', NEW c \in Client, NEW t,
           TaskTyped(t), ~SessionOp(t.req), t.i <= Len(t.req.items),
           NextItem(c, t)
    PROVE  TypeOK'
<1> DEFINE u == [t EXCEPT !.i = @ + 1, !.j = 1]
<1>1. CASE t.i < Len(t.req.items)
  <2>1. Goto(c, FirstStep(t.req.op), u)
    BY <1>1 DEF NextItem
  <2>2. FirstStep(t.req.op) \in {"create", "find"}
    BY DEF FirstStep, SessionOp
  <2>3. TaskFits(FirstStep(t.req.op), u)
    <3>1. t.req.op \in OpsAt(FirstStep(t.req.op))
      BY RequestTyped DEF TaskTyped, OpsAt, FirstStep, SessionOp, Op
    <3> QED
      BY <1>1, <2>2, <3>1, ItemTyped DEF TaskFits, TaskTyped, NoTask
  <2> QED
    BY <2>1, <2>2, <2>3, GotoType DEF Label
<1>2. CASE ~(t.i < Len(t.req.items))
  <2>1. Goto(c, "commit", t)
    BY <1>2 DEF NextItem
  <2>2. TaskFits("commit", t)
    BY RequestTyped DEF TaskFits, TaskTyped, OpsAt, ItemLabels
  <2> QED
    BY <2>1, <2>2, GotoType DEF Label
<1> QED
  BY <1>1, <1>2

\* A loop over texts goes on to the next text, or past the item.
LEMMA NextTextType ==
    ASSUME TypeOK, StoreTypeOK', NEW c \in Client, NEW t,
           TaskTyped(t), t.req.op \in OpsAt("insert"), t.from \in NodeId,
           t.i <= Len(t.req.items),
           NextText(c, t)
    PROVE  TypeOK'
<1>1. ~SessionOp(t.req)
  BY DEF OpsAt, SessionOp
<1>2. CASE t.j <= Len(TextsOf(t.req.op, Item(t)))
  <2>1. Goto(c, "insert", t)
    BY <1>2 DEF NextText
  <2>2. TaskFits("insert", t)
    BY <1>1, <1>2 DEF TaskFits, ItemLabels
  <2> QED
    BY <2>1, <2>2, GotoType DEF Label
<1>3. CASE ~(t.j <= Len(TextsOf(t.req.op, Item(t))))
  BY <1>1, <1>3, NextItemType DEF NextText
<1> QED
  BY <1>2, <1>3

-------------------------------------------------------------------------------
(* Each step of the server preserves TypeOK. *)

\* The task of a handler that is not idle.
LEMMA TaskOf ==
    ASSUME TypeOK, NEW c \in Client, pc[c] # "idle"
    PROVE  /\ TaskFits(pc[c], task[c]) /\ task[c].req \in RequestType
           /\ StoreTypeOK
BY DEF TypeOK, TaskFits, TaskTyped

LEMMA CreateType ==
    ASSUME TypeOK, NEW c \in Client, Create(c)
    PROVE  TypeOK'
<1> DEFINE t   == task[c]
           row == Node(Item(t).project, Item(t).name, t.req.session)
<1>1. /\ pc[c] = "create" /\ TaskFits("create", t) /\ StoreTypeOK
      /\ t.req.op = "create_nodes"
  BY TaskOf DEF Create, TaskFits, OpsAt
<1>2. Item(t) \in NodeItem /\ t.req.session \in Session \cup {None}
  BY <1>1, ItemTyped, RequestTyped DEF TaskFits, TaskTyped, ItemLabels, SessionOp
<1>3. row \in Row /\ IdOf(row) \in NodeId
  <2>1. Item(t).project \in Project /\ Item(t).name \in Name
    BY <1>2 DEF NodeItem
  <2> QED
    BY <1>2, <2>1, NodeTyped DEF Node, IdOf, NodeId
<1>4. StoreTypeOK'
  BY <1>1, <1>3, InsertRowType DEF Create
<1>5. CASE Taken(c, Key(row))
  <2>1. Goto(c, "lookup", t)
    BY <1>5 DEF Create
  <2>2. TaskFits("lookup", t)
    BY <1>1 DEF TaskFits, OpsAt, ItemLabels
  <2> QED
    BY <1>4, <2>1, <2>2, GotoType DEF Label
<1>6. CASE ~Taken(c, Key(row))
  <2> DEFINE u == [t EXCEPT !.from = IdOf(row), !.nodes = @ + 1]
  <2>1. NextText(c, u)
    BY <1>6 DEF Create
  <2>2. TaskTyped(u) /\ u.from \in NodeId
    BY <1>1, <1>3 DEF TaskFits, NoTask, TaskTyped
  <2>3. u.req.op \in OpsAt("insert") /\ u.i <= Len(u.req.items)
    BY <1>1 DEF OpsAt, ItemLabels, TaskFits
  <2> HIDE DEF u
  <2> QED
    BY <1>4, <2>1, <2>2, <2>3, NextTextType
<1> QED
  BY <1>5, <1>6

LEMMA LookupExistingType ==
    ASSUME TypeOK, NEW c \in Client, LookupExisting(c)
    PROVE  TypeOK'
<1> DEFINE t  == task[c]
           id == [project |-> Item(t).project, name |-> Item(t).name]
           u  == [t EXCEPT !.from = id, !.nodes = @ + 1]
<1>1. /\ pc[c] = "lookup" /\ TaskFits("lookup", t) /\ StoreTypeOK
      /\ t.req.op = "create_nodes"
  BY TaskOf DEF LookupExisting, TaskFits, OpsAt
<1>2. CASE NextText(c, u) /\ UNCHANGED storeVars
  <2>1. Item(t) \in NodeItem
    BY <1>1, ItemTyped DEF TaskFits, TaskTyped, ItemLabels, SessionOp
  <2>2. TaskTyped(u) /\ u.from \in NodeId
    BY <1>1, <2>1 DEF TaskFits, NoTask, NodeItem, NodeId, TaskTyped
  <2>3. u.req.op \in OpsAt("insert") /\ u.i <= Len(u.req.items)
    BY <1>1 DEF OpsAt, ItemLabels, TaskFits
  <2>4. StoreTypeOK'
    BY <1>1, <1>2, StoreUnchangedType
  <2> HIDE DEF u
  <2> QED
    BY <1>2, <2>2, <2>3, <2>4, NextTextType
<1>3. CASE Abort(c, "error")
  BY <1>3, AbortType DEF Status
<1> QED
  BY <1>2, <1>3 DEF LookupExisting

\* Resolving a name gives the id of an active node that the statement sees.
LEMMA Resolved ==
    ASSUME StoreTypeOK, NEW c \in Client, NEW n, Homonyms(c, n) # {}
    PROVE  LET id == FirstHomonym(Homonyms(c, n))
           IN id \in NodeId /\ HasNode(Visible(c), id)
<1>1. Homonyms(c, n) \subseteq NodeRow /\ Homonyms(c, n) \subseteq Visible(c)
  BY RowOfTable DEF Homonyms, Live, Visible, StoreTypeOK
<1>2. PICK r \in Homonyms(c, n) : FirstHomonym(Homonyms(c, n)) = IdOf(r)
  BY <1>1, FirstHomonymIsOne
<1>3. r.tab = "nodes" /\ IdOf(r) \in NodeId
  BY <1>1 DEF NodeRow, IdOf, NodeId
<1> QED
  BY <1>1, <1>2, <1>3 DEF HasNode

LEMMA FindNodeType ==
    ASSUME TypeOK, NEW c \in Client, FindNode(c)
    PROVE  TypeOK'
<1> DEFINE t  == task[c]
           op == t.req.op
           nm == CASE op = "create_relations" -> Item(t).from
                   [] op = "mark_superseded"  -> Item(t).to
                   [] OTHER                   -> Item(t).name
           id == FirstHomonym(Homonyms(c, nm))
<1>1. /\ pc[c] = "find" /\ TaskFits("find", t) /\ StoreTypeOK
      /\ op \in {"add_observations", "update_observations",
                 "create_relations", "mark_superseded"}
  BY TaskOf DEF FindNode, TaskFits, OpsAt
<1>2. CASE Homonyms(c, nm) = {}
  <2>1. Abort(c, "rejected")
    BY <1>2 DEF FindNode
  <2> QED
    BY <2>1, AbortType DEF Status
<1>3. CASE Homonyms(c, nm) # {}
  <2> HIDE DEF nm
  <2>1. id \in NodeId
    BY <1>1, <1>3, Resolved
  <2> USE DEF nm
  <2>2. StoreTypeOK'
    BY <1>1, <1>3, StoreUnchangedType DEF FindNode
  <2> HIDE DEF id
  <2>3. CASE op = "add_observations"
    <3> DEFINE u == [t EXCEPT !.from = id]
    <3>1. NextText(c, u)
      BY <1>3, <2>3 DEF FindNode, id
    <3>2. TaskTyped(u) /\ u.from \in NodeId
      BY <1>1, <2>1 DEF TaskFits, NoTask, TaskTyped
    <3>3. u.req.op \in OpsAt("insert") /\ u.i <= Len(u.req.items)
      BY <1>1, <2>3 DEF OpsAt, ItemLabels, TaskFits
    <3> HIDE DEF u
    <3> QED
      BY <2>2, <3>1, <3>2, <3>3, NextTextType
  <2>4. CASE op = "update_observations"
    <3> DEFINE u == [t EXCEPT !.from = id]
    <3>1. Goto(c, "stamp", u)
      BY <1>3, <2>4 DEF FindNode, id
    <3>2. TaskFits("stamp", u)
      BY <1>1, <2>1, <2>4 DEF TaskFits, TaskTyped, NoTask, OpsAt, ItemLabels
    <3> HIDE DEF u
    <3> QED
      BY <2>2, <3>1, <3>2, GotoType DEF Label
  <2>5. CASE op = "create_relations"
    <3> DEFINE u == [t EXCEPT !.from = id]
    <3>1. Goto(c, "find2", u)
      BY <1>3, <2>5 DEF FindNode, id
    <3>2. TaskFits("find2", u)
      BY <1>1, <2>1, <2>5 DEF TaskFits, TaskTyped, NoTask, OpsAt, ItemLabels
    <3> HIDE DEF u
    <3> QED
      BY <2>2, <3>1, <3>2, GotoType DEF Label
  <2>6. CASE op = "mark_superseded"
    <3> DEFINE u == [t EXCEPT !.to = id]
    <3>1. Goto(c, "find2", u)
      BY <1>3, <2>6 DEF FindNode, id
    <3>2. TaskFits("find2", u)
      BY <1>1, <2>1, <2>6 DEF TaskFits, TaskTyped, NoTask, OpsAt, ItemLabels
    <3> HIDE DEF u
    <3> QED
      BY <2>2, <3>1, <3>2, GotoType DEF Label
  <2> QED
    BY <1>1, <2>3, <2>4, <2>5, <2>6
<1> QED
  BY <1>2, <1>3

LEMMA FindOtherType ==
    ASSUME TypeOK, NEW c \in Client, FindOther(c)
    PROVE  TypeOK'
<1> DEFINE t  == task[c]
           nm == IF t.req.op = "create_relations" THEN Item(t).to
                 ELSE Item(t).from
           id == FirstHomonym(Homonyms(c, nm))
<1>1. /\ pc[c] = "find2" /\ TaskFits("find2", t) /\ StoreTypeOK
      /\ t.req.op \in {"create_relations", "mark_superseded"}
  BY TaskOf DEF FindOther, TaskFits, OpsAt
<1>2. CASE Homonyms(c, nm) = {}
  <2>1. Abort(c, "rejected")
    BY <1>2 DEF FindOther
  <2> QED
    BY <2>1, AbortType DEF Status
<1>3. CASE Homonyms(c, nm) # {}
  <2> HIDE DEF nm
  <2>1. id \in NodeId
    BY <1>1, <1>3, Resolved
  <2> USE DEF nm
  <2>2. StoreTypeOK'
    BY <1>1, <1>3, StoreUnchangedType DEF FindOther
  <2> HIDE DEF id
  <2> DEFINE u == IF t.req.op = "create_relations" THEN [t EXCEPT !.to = id]
                  ELSE [t EXCEPT !.from = id]
  <2>3. Goto(c, "relate", u)
    BY <1>3 DEF FindOther, id
  <2>4. TaskFits("relate", u)
    BY <1>1, <2>1 DEF TaskFits, TaskTyped, NoTask, OpsAt, ItemLabels
  <2> HIDE DEF u
  <2> QED
    BY <2>2, <2>3, <2>4, GotoType DEF Label
<1> QED
  BY <1>2, <1>3

\* The text a handler is at is a text.
LEMMA TextTyped ==
    ASSUME NEW t, TaskFits("insert", t)
    PROVE  TextsOf(t.req.op, Item(t))[t.j] \in Text
<1>1. TextsOf(t.req.op, Item(t)) \in Seq(Text)
  BY ItemTyped DEF TaskFits, TaskTyped, ItemLabels, OpsAt, SessionOp
<1> HIDE DEF TextsOf
<1> QED
  BY <1>1, ElementOfSeq, LenProperties DEF TaskFits, TaskTyped

LEMMA InsertObservationType ==
    ASSUME TypeOK, NEW c \in Client, InsertObservation(c)
    PROVE  TypeOK'
<1> DEFINE t   == task[c]
           row == Obs(t.from, TextsOf(t.req.op, Item(t))[t.j])
           u   == [t EXCEPT !.j = @ + 1,
                            !.n = IF Taken(c, Key(row)) THEN @ ELSE @ + 1]
<1>1. /\ pc[c] = "insert" /\ TaskFits("insert", t) /\ StoreTypeOK
      /\ t.from \in NodeId
  BY TaskOf DEF InsertObservation, TaskFits
<1>2. row \in Row
  BY <1>1, TextTyped, ObsTyped
<1>3. StoreTypeOK'
  BY <1>1, <1>2, InsertRowType DEF InsertObservation
<1>4. NextText(c, u)
  BY DEF InsertObservation
<1> HIDE DEF row
<1>5. TaskTyped(u) /\ u.from \in NodeId
  BY <1>1 DEF TaskFits, NoTask, TaskTyped
<1>6. u.req.op \in OpsAt("insert") /\ u.i <= Len(u.req.items)
  BY <1>1 DEF TaskFits, ItemLabels
<1> HIDE DEF u
<1> QED
  BY <1>3, <1>4, <1>5, <1>6, NextTextType

LEMMA MarkObservationDeletedType ==
    ASSUME TypeOK, NEW c \in Client, MarkObservationDeleted(c)
    PROVE  TypeOK'
<1> DEFINE t   == task[c]
           row == Obs(t.from, Item(t).old)
<1>1. /\ pc[c] = "stamp" /\ TaskFits("stamp", t) /\ StoreTypeOK
      /\ t.req.op = "update_observations" /\ t.from \in NodeId
  BY TaskOf DEF MarkObservationDeleted, TaskFits, OpsAt
<1>2. Item(t) \in UpdateItem
  BY <1>1, ItemTyped DEF TaskFits, TaskTyped, ItemLabels, SessionOp
<1>3. CASE StampRow(c, row) /\ Goto(c, "insert", t)
  <2>1. row \in Row
    BY <1>1, <1>2, ObsTyped DEF UpdateItem
  <2>2. StoreTypeOK'
    BY <1>1, <1>3, <2>1, StampRowType
  <2>3. CASE t.j <= Len(TextsOf(t.req.op, Item(t)))
    <3>1. TaskFits("insert", t)
      BY <1>1, <2>3 DEF TaskFits, OpsAt, ItemLabels
    <3> QED
      BY <1>3, <2>2, <3>1, GotoType DEF Label
  <2>4. t.j <= Len(TextsOf(t.req.op, Item(t)))
    BY <1>1 DEF TaskFits, TextsOf
  <2> QED
    BY <2>3, <2>4
<1>4. CASE Abort(c, "rejected")
  BY <1>4, AbortType DEF Status
<1> QED
  BY <1>3, <1>4 DEF MarkObservationDeleted

LEMMA RelateType ==
    ASSUME TypeOK, NEW c \in Client, Relate(c)
    PROVE  TypeOK'
<1> DEFINE t     == task[c]
           row   == Rel(t.from, t.to, Item(t).type, t.from.project)
           taken == Taken(c, Key(row))
           u     == [t EXCEPT !.n = IF taken THEN @ ELSE @ + 1]
<1>1. /\ pc[c] = "relate" /\ TaskFits("relate", t) /\ StoreTypeOK
      /\ t.req.op \in {"create_relations", "mark_superseded"}
      /\ t.from \in NodeId /\ t.to \in NodeId
  BY TaskOf DEF Relate, TaskFits, OpsAt
<1>2. row \in Row
  <2>1. Item(t).type \in RelType
    BY <1>1, ItemTyped, SupersedesIsAType
    DEF TaskFits, TaskTyped, ItemLabels, SessionOp, EdgeItem, Supersedes
  <2>2. t.from.project \in Project
    BY <1>1 DEF NodeId
  <2> QED
    BY <1>1, <2>1, <2>2, RelTyped
<1>3. ~SessionOp(t.req) /\ t.i <= Len(t.req.items) /\ TaskTyped(t)
  BY <1>1 DEF TaskFits, ItemLabels, SessionOp
<1> HIDE DEF row
<1>4. TaskTyped(u) /\ ~SessionOp(u.req) /\ u.i <= Len(u.req.items)
  BY <1>3 DEF TaskTyped, NoTask
<1>5. CASE Abort(c, "rejected")
  BY <1>5, AbortType DEF Status
<1>6. CASE InsertRow(c, row) /\ NextItem(c, u)
  <2>1. StoreTypeOK'
    BY <1>1, <1>2, <1>6, InsertRowType
  <2> HIDE DEF u
  <2> QED
    BY <1>4, <1>6, <2>1, NextItemType
<1>7. CASE InsertRow(c, row) /\ NextItem(c, t)
  <2>1. StoreTypeOK'
    BY <1>1, <1>2, <1>7, InsertRowType
  <2> QED
    BY <1>3, <1>7, <2>1, NextItemType
<1>8. CASE /\ t.req.op = "mark_superseded"
           /\ InsertRow(c, row) /\ Goto(c, "archive", t)
  <2>1. StoreTypeOK'
    BY <1>1, <1>2, <1>8, InsertRowType
  <2>2. TaskFits("archive", t)
    BY <1>1, <1>8 DEF TaskFits, OpsAt, ItemLabels
  <2> QED
    BY <1>8, <2>1, <2>2, GotoType DEF Label
<1>9. \/ Abort(c, "rejected")
      \/ InsertRow(c, row) /\ NextItem(c, u)
      \/ InsertRow(c, row) /\ NextItem(c, t)
      \/ /\ t.req.op = "mark_superseded"
         /\ InsertRow(c, row) /\ Goto(c, "archive", t)
  BY <1>1 DEF Relate, row
<1> QED
  BY <1>5, <1>6, <1>7, <1>8, <1>9

LEMMA ArchiveType ==
    ASSUME TypeOK, NEW c \in Client, Archive(c)
    PROVE  TypeOK'
<1> DEFINE t == task[c]
           u == [t EXCEPT !.left = {r \in Live(c) : r.tab = "observations"
                                                    /\ r.node = t.to}]
<1>1. /\ pc[c] = "archive" /\ TaskFits("archive", t) /\ StoreTypeOK
  BY TaskOf DEF Archive
<1>2. StoreTypeOK'
  BY <1>1, StoreUnchangedType DEF Archive
<1>3. \A r \in Live(c) : r.tab = "observations" => r \in ObsRow
  BY <1>1, RowOfTable DEF StoreTypeOK, Live, Visible
<1>4. TaskFits("archiving", u)
  BY <1>1, <1>3 DEF TaskFits, TaskTyped, NoTask, OpsAt, ItemLabels
<1>5. Goto(c, "archiving", u)
  BY DEF Archive
<1> HIDE DEF u
<1> QED
  BY <1>2, <1>4, <1>5, GotoType DEF Label

LEMMA ArchiveRowType ==
    ASSUME TypeOK, NEW c \in Client, ArchiveRow(c)
    PROVE  TypeOK'
<1> DEFINE t == task[c]
<1>1. /\ pc[c] = "archiving" /\ TaskFits("archiving", t) /\ StoreTypeOK
  BY TaskOf DEF ArchiveRow
<1>2. CASE NextItem(c, t) /\ UNCHANGED storeVars
  <2>1. StoreTypeOK'
    BY <1>1, <1>2, StoreUnchangedType
  <2>2. ~SessionOp(t.req) /\ t.i <= Len(t.req.items) /\ TaskTyped(t)
    BY <1>1 DEF TaskFits, ItemLabels, OpsAt, SessionOp
  <2> QED
    BY <1>2, <2>1, <2>2, NextItemType
<1>3. ASSUME NEW r \in t.left, StampRow(c, r),
             Goto(c, "archiving",
                  [t EXCEPT !.left = @ \ {r},
                            !.n = IF r \in Live(c) THEN @ + 1 ELSE @])
      PROVE  TypeOK'
  <2> DEFINE u == [t EXCEPT !.left = @ \ {r},
                            !.n = IF r \in Live(c) THEN @ + 1 ELSE @]
  <2>1. r \in Row
    BY <1>1 DEF TaskFits, TaskTyped, Row
  <2>2. StoreTypeOK'
    BY <1>1, <1>3, <2>1, StampRowType
  <2>3. TaskFits("archiving", u)
    BY <1>1 DEF TaskFits, TaskTyped, NoTask, OpsAt, ItemLabels
  <2>4. Goto(c, "archiving", u)
    BY <1>3
  <2> HIDE DEF u
  <2> QED
    BY <2>2, <2>3, <2>4, GotoType DEF Label
<1> QED
  BY <1>2, <1>3 DEF ArchiveRow

LEMMA StartSessionType ==
    ASSUME TypeOK, NEW c \in Client, StartSession(c)
    PROVE  TypeOK'
<1>1. /\ pc[c] = "start" /\ TaskFits("start", task[c]) /\ StoreTypeOK
  BY TaskOf DEF StartSession
<1>2. StoreTypeOK'
  BY <1>1, SessTyped, InsertRowType DEF StartSession
<1>3. TaskFits("commit", task[c])
  BY <1>1, RequestTyped DEF TaskFits, TaskTyped, OpsAt, ItemLabels
<1> QED
  BY <1>2, <1>3, GotoType DEF StartSession, Label

LEMMA EndSessionType ==
    ASSUME TypeOK, NEW c \in Client, EndSession(c)
    PROVE  TypeOK'
<1> DEFINE row == Sess(task[c].req.session)
<1>1. /\ pc[c] = "end" /\ TaskFits("end", task[c]) /\ StoreTypeOK
  BY TaskOf DEF EndSession
<1>2. CASE StampRow(c, row) /\ Goto(c, "commit", task[c])
  <2>1. row \in Row
    BY <1>1, RequestTyped, SessTyped DEF TaskFits, TaskTyped, OpsAt
  <2>2. StoreTypeOK'
    BY <1>1, <1>2, <2>1, StampRowType
  <2>3. TaskFits("commit", task[c])
    BY <1>1, RequestTyped DEF TaskFits, TaskTyped, OpsAt, ItemLabels
  <2> QED
    BY <1>2, <2>2, <2>3, GotoType DEF Label
<1>3. CASE Abort(c, "rejected")
  BY <1>3, AbortType DEF Status
<1> QED
  BY <1>2, <1>3 DEF EndSession

LEMMA CommitType ==
    ASSUME TypeOK, NEW c \in Client, Commit(c)
    PROVE  TypeOK'
<1> DEFINE t == task[c]
<1>1. /\ pc[c] = "commit" /\ TaskFits("commit", t) /\ StoreTypeOK
  BY TaskOf DEF Commit
<1>2. StoreTypeOK'
  BY <1>1, CommitTxType DEF Commit
<1>3. CASE t.req.op = "session_end"
  <2>1. TaskFits("count", t)
    BY <1>1, <1>3 DEF TaskFits, OpsAt, ItemLabels
  <2>2. Goto(c, "count", t)
    BY <1>3 DEF Commit
  <2> QED
    BY <1>2, <2>1, <2>2, GotoType DEF Label
<1>4. CASE t.req.op = "update_observations"
  <2>1. Len(t.req.items) \in Nat
    BY <1>1, <1>4, RequestTyped, LenProperties DEF TaskFits, TaskTyped
  <2>2. Reply(c, Answer("ok", 0, Len(t.req.items)))
    BY <1>4 DEF Commit
  <2> QED
    BY <1>2, <2>1, <2>2, ReplyType DEF Status
<1>5. CASE t.req.op \notin {"session_end", "update_observations"}
  <2>1. Reply(c, Answer("ok", t.nodes, t.n))
    BY <1>5 DEF Commit
  <2> QED
    BY <1>1, <1>2, <2>1, ReplyType DEF Status, TaskFits, TaskTyped
<1> QED
  BY <1>3, <1>4, <1>5

LEMMA CommitUnacknowledgedType ==
    ASSUME TypeOK, NEW c \in Client, CommitUnacknowledged(c)
    PROVE  TypeOK'
<1>1. StoreTypeOK'
  BY CommitTxType DEF CommitUnacknowledged, TypeOK
<1> QED
  BY <1>1, ReplyType DEF CommitUnacknowledged, Status

LEMMA CountSessionNodesType ==
    ASSUME TypeOK, NEW c \in Client, CountSessionNodes(c)
    PROVE  TypeOK'
<1> DEFINE S == {r \in rows : r.tab = "nodes" /\ r.session = task[c].req.session}
<1>1. StoreTypeOK'
  BY StoreUnchangedType DEF CountSessionNodes, TypeOK
<1>2. Cardinality(S) \in Nat
  BY FS_Subset, FS_CardinalityType DEF TypeOK, StoreTypeOK
<1>3. Reply(c, Answer("ok", Cardinality(S), 0))
  BY DEF CountSessionNodes
<1> QED
  BY <1>1, <1>2, <1>3, ReplyType DEF Status

\* Scrubbing changes texts to texts and nothing else.
LEMMA ScrubbedTyped ==
    ASSUME NEW r \in RequestType
    PROVE  Scrubbed(r) \in RequestType /\ Scrubbed(r).op = r.op
<1>1. \A s \in Seq(Text) : [m \in DOMAIN s |-> Scrub[s[m]]] \in Seq(Text)
  BY SeqDef, LenProperties, ElementOfSeq, ScrubIsAFunction
<1>2. CASE r.op = "create_nodes"
  <2> DEFINE new(k) == [r.items[k] EXCEPT !.texts =
                          [m \in DOMAIN r.items[k].texts |->
                             Scrub[r.items[k].texts[m]]]]
             s == [k \in DOMAIN r.items |-> new(k)]
  <2>1. r.items \in Seq(NodeItem) /\ r.session \in Session \cup {None}
    BY <1>2, RequestTyped
  <2>2. \A k \in DOMAIN r.items : new(k) \in NodeItem
    <3>1. \A item \in NodeItem :
             [item EXCEPT !.texts = [m \in DOMAIN item.texts |->
                                       Scrub[item.texts[m]]]] \in NodeItem
      BY <1>1 DEF NodeItem
    <3>2. \A k \in DOMAIN r.items : r.items[k] \in NodeItem
      BY <2>1, ElementOfSeq, LenProperties
    <3> QED
      BY <3>1, <3>2
  <2>3. s \in Seq(NodeItem)
    <3> HIDE DEF new
    <3> QED
      BY <2>1, <2>2, SeqDef, LenProperties
  <2>4. Scrubbed(r) = [r EXCEPT !.items = s]
    BY <1>2 DEF Scrubbed
  <2> HIDE DEF s
  <2> QED
    BY <1>2, <2>1, <2>3, <2>4 DEF RequestType
<1>3. CASE r.op = "add_observations"
  <2> DEFINE new(k) == [r.items[k] EXCEPT !.texts =
                          [m \in DOMAIN r.items[k].texts |->
                             Scrub[r.items[k].texts[m]]]]
             s == [k \in DOMAIN r.items |-> new(k)]
  <2>1. r.items \in Seq(AddItem)
    BY <1>3, RequestTyped
  <2>2. \A k \in DOMAIN r.items : new(k) \in AddItem
    <3>1. \A item \in AddItem :
             [item EXCEPT !.texts = [m \in DOMAIN item.texts |->
                                       Scrub[item.texts[m]]]] \in AddItem
      BY <1>1 DEF AddItem
    <3>2. \A k \in DOMAIN r.items : r.items[k] \in AddItem
      BY <2>1, ElementOfSeq, LenProperties
    <3> QED
      BY <3>1, <3>2
  <2>3. s \in Seq(AddItem)
    <3> HIDE DEF new
    <3> QED
      BY <2>1, <2>2, SeqDef, LenProperties
  <2>4. Scrubbed(r) = [r EXCEPT !.items = s]
    BY <1>3 DEF Scrubbed
  <2> HIDE DEF s
  <2> QED
    BY <1>3, <2>1, <2>3, <2>4 DEF RequestType
<1>4. CASE r.op = "update_observations"
  <2> DEFINE new(k) == [r.items[k] EXCEPT !.new = Scrub[r.items[k].new]]
             s == [k \in DOMAIN r.items |-> new(k)]
  <2>1. r.items \in Seq(UpdateItem)
    BY <1>4, RequestTyped
  <2>2. \A k \in DOMAIN r.items : new(k) \in UpdateItem
    <3>1. \A item \in UpdateItem :
             [item EXCEPT !.new = Scrub[item.new]] \in UpdateItem
      BY ScrubIsAFunction DEF UpdateItem
    <3>2. \A k \in DOMAIN r.items : r.items[k] \in UpdateItem
      BY <2>1, ElementOfSeq, LenProperties
    <3> QED
      BY <3>1, <3>2
  <2>3. s \in Seq(UpdateItem)
    <3> HIDE DEF new
    <3> QED
      BY <2>1, <2>2, SeqDef, LenProperties
  <2>4. Scrubbed(r) = [r EXCEPT !.items = s]
    BY <1>4 DEF Scrubbed
  <2> HIDE DEF s
  <2> QED
    BY <1>4, <2>1, <2>3, <2>4 DEF RequestType
<1>5. CASE r.op \notin {"create_nodes", "add_observations",
                       "update_observations"}
  BY <1>5 DEF Scrubbed
<1> QED
  BY <1>2, <1>3, <1>4, <1>5

LEMMA ReceiveType ==
    ASSUME TypeOK, NEW c \in Client, NEW r \in Request, Receive(c, r)
    PROVE  TypeOK'
<1> DEFINE q     == IF NeedsSession(r) THEN r ELSE Scrubbed(r)
           t     == [NoTask EXCEPT !.req = q, !.i = 1, !.j = 1]
           label == IF NeedsSession(r) THEN "session" ELSE "begin"
<1>1. q \in RequestType /\ q.op = r.op
  BY ScrubbedTyped, RequestsAreTyped
<1>2. StoreTypeOK'
  BY StoreUnchangedType DEF Receive, TypeOK
<1>3. served' \in Nat /\ served' <= MaxRequests
  BY BoundsAreNumbers DEF Receive, TypeOK
<1>4. CASE /\ res' = [res EXCEPT ![c] = Answer("rejected", 0, 0)]
           /\ UNCHANGED <<pc, task>>
  BY <1>2, <1>3, <1>4 DEF TypeOK, Answer, Status
<1>5. CASE /\ res' = [res EXCEPT ![c] = Answer("pending", 0, 0)]
           /\ task' = [task EXCEPT ![c] = t]
           /\ pc' = [pc EXCEPT ![c] = label]
  <2>1. /\ label \in Label \ {"idle"} /\ TaskFits(label, t)
    <3>1. TaskTyped(t) /\ t.req.op = r.op /\ r.op \in Op
      <4> HIDE DEF q
      <4> QED
        BY <1>1, RequestTyped DEF TaskTyped, NoTask
    <3> QED
      BY <3>1 DEF TaskFits, OpsAt, ItemLabels, Label, NeedsSession
  <2> HIDE DEF label, t
  <2> QED
    BY <1>2, <1>3, <1>5, <2>1 DEF TypeOK, Answer, Status
<1> QED
  BY <1>4, <1>5 DEF Receive

LEMMA CheckSessionType ==
    ASSUME TypeOK, NEW c \in Client, CheckSession(c)
    PROVE  TypeOK'
<1>1. /\ pc[c] = "session" /\ TaskFits("session", task[c])
  BY TaskOf DEF CheckSession
<1>2. StoreTypeOK'
  BY StoreUnchangedType DEF CheckSession, TypeOK
<1> DEFINE t == [task[c] EXCEPT !.req = Scrubbed(task[c].req)]
<1>3. TaskFits("begin", t)
  <2>1. /\ Scrubbed(task[c].req) \in RequestType
        /\ Scrubbed(task[c].req).op = task[c].req.op
    BY <1>1, ScrubbedTyped DEF TaskFits, TaskTyped
  <2> QED
    BY <1>1, <2>1, RequestTyped DEF TaskFits, TaskTyped, OpsAt, ItemLabels, NoTask
<1> QED
  <2> HIDE DEF t
  <2>1. \/ Goto(c, "begin", t)
        \/ Reply(c, Answer("rejected", 0, 0))
    BY DEF CheckSession, t
  <2> QED
    BY <1>2, <1>3, <2>1, GotoType, ReplyType DEF Label, Status

LEMMA BeginType ==
    ASSUME TypeOK, NEW c \in Client, Begin(c)
    PROVE  TypeOK'
<1> DEFINE t == task[c]
           r == t.req
<1>1. /\ pc[c] = "begin" /\ TaskFits("begin", t) /\ r \in RequestType
  BY TaskOf DEF Begin
<1>2. StoreTypeOK'
  BY StoreUnchangedType DEF Begin, TypeOK
<1>3. CASE ~SessionOp(r) /\ r.items = <<>>
  <2>1. TaskFits("commit", t)
    BY <1>1, RequestTyped DEF TaskFits, TaskTyped, OpsAt, ItemLabels
  <2>2. Goto(c, "commit", t)
    BY <1>3 DEF Begin
  <2> QED
    BY <1>2, <2>1, <2>2, GotoType DEF Label
<1>4. CASE SessionOp(r)
  <2>1. TaskFits(FirstStep(r.op), t) /\ FirstStep(r.op) \in {"start", "end"}
    BY <1>1, <1>4 DEF TaskFits, OpsAt, ItemLabels, FirstStep, SessionOp
  <2>2. Goto(c, FirstStep(r.op), t)
    BY <1>4 DEF Begin
  <2> QED
    BY <1>2, <2>1, <2>2, GotoType DEF Label
<1>5. CASE ~SessionOp(r) /\ r.items # <<>>
  <2>1. Len(r.items) \in Nat \ {0}
    BY <1>1, <1>5, RequestTyped, EmptySeq DEF SessionOp, Op
  <2>2. r.op \in OpsAt(FirstStep(r.op)) /\ FirstStep(r.op) \in {"create", "find"}
    BY <1>1, <1>5, RequestTyped DEF OpsAt, FirstStep, SessionOp, Op
  <2>3. t.i = 1 /\ t.j = 1
    BY <1>1 DEF TaskFits
  <2>4. TaskFits(FirstStep(r.op), t)
    BY <1>1, <2>1, <2>2, <2>3 DEF TaskFits
  <2>5. Goto(c, FirstStep(r.op), t)
    BY <1>5 DEF Begin
  <2> QED
    BY <1>2, <2>2, <2>4, <2>5, GotoType DEF Label
<1> QED
  BY <1>3, <1>4, <1>5

LEMMA AdminStepType ==
    ASSUME TypeOK, AdminStep
    PROVE  TypeOK'
<1>1. PICK d \in Deletion :
        AdminDeleteNode(d) \/ AdminDeleteObservation(d) \/ AdminDeleteRelation(d)
  BY DEF AdminStep
<1>2. PICK S : S \subseteq rows /\ StampNow(S)
  <2>1. CASE AdminDeleteNode(d)
    BY <2>1 DEF AdminDeleteNode, NodesNamed, LiveRows
  <2>2. CASE AdminDeleteObservation(d)
    BY <2>2 DEF AdminDeleteObservation, LiveRows
  <2>3. CASE AdminDeleteRelation(d)
    BY <2>3 DEF AdminDeleteRelation, LiveRows
  <2> QED
    BY <1>1, <2>1, <2>2, <2>3
<1>3. StoreTypeOK'
  BY <1>2, StampNowType DEF TypeOK
<1> QED
  BY <1>3 DEF AdminStep, handlerVars, TypeOK

LEMMA InitType == Init => TypeOK
BY SeedIsAGraph, BoundsAreNumbers, FS_EmptySet
DEF Init, StoreInit, TypeOK, StoreTypeOK, Visible, Answer, Status, Label

LEMMA NextType == TypeOK /\ [Next]_vars => TypeOK'
<1> SUFFICES ASSUME TypeOK, [Next]_vars PROVE TypeOK'
  OBVIOUS
<1>1. ASSUME NEW c \in Client, NEW r \in Request, Receive(c, r) PROVE TypeOK'
  BY <1>1, ReceiveType
<1>2. ASSUME NEW c \in Client, HandlerStep(c) PROVE TypeOK'
  <2>1. CASE CheckSession(c) \/ Begin(c)
    BY <2>1, CheckSessionType, BeginType
  <2>2. CASE Create(c) \/ LookupExisting(c) \/ FindNode(c) \/ FindOther(c)
    BY <2>2, CreateType, LookupExistingType, FindNodeType, FindOtherType
  <2>3. CASE InsertObservation(c) \/ MarkObservationDeleted(c) \/ Relate(c)
    BY <2>3, InsertObservationType, MarkObservationDeletedType, RelateType
  <2>4. CASE Archive(c) \/ ArchiveRow(c) \/ StartSession(c) \/ EndSession(c)
    BY <2>4, ArchiveType, ArchiveRowType, StartSessionType, EndSessionType
  <2>5. CASE Commit(c) \/ CountSessionNodes(c)
    BY <2>5, CommitType, CountSessionNodesType
  <2>6. CASE DeadlockVictim(c)
    BY <2>6, AbortType DEF DeadlockVictim, Status
  <2> QED
    BY <1>2, <2>1, <2>2, <2>3, <2>4, <2>5, <2>6 DEF HandlerStep
<1>3. ASSUME NEW c \in Client, Fail(c) \/ CommitUnacknowledged(c) PROVE TypeOK'
  BY <1>3, AbortType, CommitUnacknowledgedType DEF Fail, Status
<1>4. CASE AdminStep
  BY <1>4, AdminStepType
<1>5. CASE UNCHANGED vars
  BY <1>5 DEF vars, TypeOK, StoreTypeOK, Visible
<1> QED
  BY <1>1, <1>2, <1>3, <1>4, <1>5 DEF Next

\* Whatever handlers, operators and failures do, the tables hold well-formed
\* rows, a transaction stamps only rows it sees, and every handler stands at a
\* statement of its own tool with its indexes inside the request.
THEOREM TypeCorrect == Spec => []TypeOK
<1> QED
  BY InitType, NextType, PTL DEF Spec

-------------------------------------------------------------------------------
(* Keys, projects and references.  They follow from what a step can do to   *)
(* the store: at most one statement, an inserted relation lies in one       *)
(* project, and an inserted row refers to nodes its transaction sees.       *)

WellPlaced(c, r) ==
    InOneProject(r) /\ \A id \in NodesOf(r) : HasNode(Visible(c), id)

Statement ==
    \/ UNCHANGED storeVars
    \/ \E c \in Client, r \in Row : WellPlaced(c, r) /\ InsertRow(c, r)
    \/ \E c \in Client, r \in Row : StampRow(c, r)
    \/ \E c \in Client : CommitTx(c) \/ RollbackTx(c)
    \/ \E S \in SUBSET rows : StampNow(S)

LEMMA InsertIsStatement ==
    ASSUME TypeOK, TargetsExist, NEW c \in Client,
           Create(c) \/ InsertObservation(c) \/ Relate(c) \/ StartSession(c)
    PROVE  Statement
<1> DEFINE t == task[c]
<1>1. CASE Create(c)
  <2> DEFINE row == Node(Item(t).project, Item(t).name, t.req.session)
  <2>1. TaskFits("create", t) /\ t.req.op = "create_nodes"
    BY <1>1, TaskOf DEF Create, TaskFits, OpsAt
  <2>2. Item(t) \in NodeItem /\ t.req.session \in Session \cup {None}
    BY <2>1, ItemTyped, RequestTyped DEF TaskFits, TaskTyped, ItemLabels, SessionOp
  <2>3. row \in Row /\ WellPlaced(c, row)
    BY <2>2, NodeTyped DEF NodeItem, WellPlaced, InOneProject, NodesOf, Node
  <2> QED
    BY <1>1, <2>3 DEF Create, Statement
<1>2. CASE InsertObservation(c)
  <2> DEFINE row == Obs(t.from, TextsOf(t.req.op, Item(t))[t.j])
  <2>1. TaskFits("insert", t) /\ t.from \in NodeId
    BY <1>2, TaskOf DEF InsertObservation, TaskFits
  <2>2. row \in Row /\ InOneProject(row)
    BY <2>1, TextTyped, ObsTyped DEF InOneProject, Obs
  <2>4. NodesOf(row) = {t.from}
    BY DEF NodesOf, Obs
  <2>5. HasNode(Visible(c), t.from)
    BY <1>2 DEF InsertObservation, TargetsExist, TargetsFit
  <2>3. InsertRow(c, row)
    BY <1>2 DEF InsertObservation
  <2> HIDE DEF row
  <2> QED
    BY <2>2, <2>3, <2>4, <2>5 DEF Statement, WellPlaced
<1>3. CASE Relate(c)
  <2> DEFINE row == Rel(t.from, t.to, Item(t).type, t.from.project)
  <2>1. /\ TaskFits("relate", t) /\ t.from \in NodeId /\ t.to \in NodeId
        /\ t.req.op \in {"create_relations", "mark_superseded"}
    BY <1>3, TaskOf DEF Relate, TaskFits, OpsAt
  <2>2. CASE Abort(c, "rejected")
    BY <2>2 DEF Abort, Statement
  <2>3. CASE ~CrossProject(t) /\ InsertRow(c, row)
    <3>1. Item(t).type \in RelType
      BY <2>1, ItemTyped, SupersedesIsAType
      DEF TaskFits, TaskTyped, ItemLabels, SessionOp, EdgeItem, Supersedes
    <3>2. row \in Row
      BY <2>1, <3>1, RelTyped DEF NodeId
    <3>3. InOneProject(row)
      BY <2>3 DEF CrossProject, InOneProject, Rel
    <3>4. NodesOf(row) = {t.from, t.to}
      BY DEF NodesOf, Rel
    <3>5. HasNode(Visible(c), t.from) /\ HasNode(Visible(c), t.to)
      BY <1>3 DEF Relate, TargetsExist, TargetsFit
    <3> HIDE DEF row
    <3> QED
      BY <2>3, <3>2, <3>3, <3>4, <3>5 DEF Statement, WellPlaced
  <2> QED
    BY <1>3, <2>2, <2>3 DEF Relate
<1>4. CASE StartSession(c)
  <2>1. PICK s \in Session : InsertRow(c, Sess(s))
    BY <1>4 DEF StartSession
  <2>2. Sess(s) \in Row /\ WellPlaced(c, Sess(s))
    BY SessTyped DEF WellPlaced, InOneProject, NodesOf, Sess
  <2> QED
    BY <2>1, <2>2 DEF Statement
<1> QED
  BY <1>1, <1>2, <1>3, <1>4

LEMMA StampIsStatement ==
    ASSUME TypeOK, NEW c \in Client,
           MarkObservationDeleted(c) \/ ArchiveRow(c) \/ EndSession(c)
    PROVE  Statement
<1> DEFINE t == task[c]
<1>1. CASE MarkObservationDeleted(c)
  <2> DEFINE row == Obs(t.from, Item(t).old)
  <2>1. CASE StampRow(c, row)
    <3>1. TaskFits("stamp", t) /\ t.req.op = "update_observations" /\ t.from \in NodeId
      BY <1>1, TaskOf DEF MarkObservationDeleted, TaskFits, OpsAt
    <3>2. Item(t) \in UpdateItem
      BY <3>1, ItemTyped DEF TaskFits, TaskTyped, ItemLabels, SessionOp
    <3>3. row \in Row
      BY <3>1, <3>2, ObsTyped DEF UpdateItem
    <3> QED
      BY <2>1, <3>3 DEF Statement
  <2>2. CASE Abort(c, "rejected")
    BY <2>2 DEF Abort, Statement
  <2> QED
    BY <1>1, <2>1, <2>2 DEF MarkObservationDeleted
<1>2. CASE ArchiveRow(c)
  <2>1. TaskFits("archiving", t)
    BY <1>2, TaskOf DEF ArchiveRow
  <2>2. ASSUME NEW r \in t.left, StampRow(c, r) PROVE Statement
    <3>1. r \in Row
      BY <2>1 DEF TaskFits, TaskTyped, Row
    <3> QED
      BY <2>2, <3>1 DEF Statement
  <2>3. CASE UNCHANGED storeVars
    BY <2>3 DEF Statement
  <2> QED
    BY <1>2, <2>2, <2>3 DEF ArchiveRow
<1>3. CASE EndSession(c)
  <2> DEFINE row == Sess(t.req.session)
  <2>1. CASE StampRow(c, row)
    <3>1. row \in Row
      BY <1>3, TaskOf, RequestTyped, SessTyped DEF EndSession, TaskFits, OpsAt
    <3> QED
      BY <2>1, <3>1 DEF Statement
  <2>2. CASE Abort(c, "rejected")
    BY <2>2 DEF Abort, Statement
  <2> QED
    BY <1>3, <2>1, <2>2 DEF EndSession
<1> QED
  BY <1>1, <1>2, <1>3

\* Every step of the server is one statement, one end of a transaction, or
\* leaves the store alone.
LEMMA StepIsStatement ==
    ASSUME TypeOK, TargetsExist, [Next]_vars
    PROVE  Statement
<1>1. ASSUME NEW c \in Client, HandlerStep(c) PROVE Statement
  <2>1. CASE \/ CheckSession(c) \/ Begin(c) \/ LookupExisting(c) \/ FindNode(c)
             \/ FindOther(c) \/ Archive(c) \/ CountSessionNodes(c)
    BY <2>1 DEF CheckSession, Begin, LookupExisting, FindNode, FindOther, Archive,
                CountSessionNodes, Abort, Statement
  <2>2. CASE \/ Create(c) \/ InsertObservation(c) \/ Relate(c) \/ StartSession(c)
    BY <2>2, InsertIsStatement
  <2>3. CASE \/ MarkObservationDeleted(c) \/ ArchiveRow(c) \/ EndSession(c)
    BY <2>3, StampIsStatement
  <2>4. CASE Commit(c) \/ DeadlockVictim(c)
    BY <2>4 DEF Commit, DeadlockVictim, Abort, Statement
  <2> QED
    BY <1>1, <2>1, <2>2, <2>3, <2>4 DEF HandlerStep
<1>2. ASSUME NEW c \in Client, Fail(c) \/ CommitUnacknowledged(c) PROVE Statement
  BY <1>2 DEF Fail, CommitUnacknowledged, Abort, Statement
<1>3. ASSUME NEW c \in Client, NEW r \in Request, Receive(c, r) PROVE Statement
  BY <1>3 DEF Receive, Statement
<1>4. CASE AdminStep
  <2>1. \E S \in SUBSET rows : StampNow(S)
    BY <1>4 DEF AdminStep, AdminDeleteNode, AdminDeleteObservation,
                AdminDeleteRelation, NodesNamed, LiveRows
  <2> QED
    BY <2>1 DEF Statement
<1>5. CASE UNCHANGED vars
  BY <1>5 DEF vars, storeVars, Statement
<1> QED
  BY <1>1, <1>2, <1>3, <1>4, <1>5 DEF Next

\* A key is inserted once: an insert goes ahead only when no row holds the key
\* and no open transaction has it in flight.
LEMMA KeysStep ==
    ASSUME TypeOK, UniqueKeys, KeysApart, Statement
    PROVE  UniqueKeys' /\ KeysApart'
<1> USE DEF TypeOK, StoreTypeOK, UniqueKeys, KeysApart
<1>1. CASE UNCHANGED storeVars
  BY <1>1 DEF storeVars
<1>2. ASSUME NEW c \in Client, NEW r \in Row, InsertRow(c, r)
      PROVE  UniqueKeys' /\ KeysApart'
  <2>1. CASE Taken(c, Key(r))
    BY <1>2, <2>1 DEF InsertRow
  <2>2. CASE ~Taken(c, Key(r))
    <3>1. /\ rows' = rows /\ ins' = [ins EXCEPT ![c] = @ \cup {r}]
          /\ Inserters(c, Key(r)) = {}
      BY <1>2, <2>2 DEF InsertRow, KeySettled
    <3>2. \A q \in rows \cup ins[c] : Key(q) # Key(r)
      BY <2>2 DEF Taken, Visible
    <3>3. \A d \in Client \ {c} : \A q \in ins[d] : Key(q) # Key(r)
      BY <3>1 DEF Inserters
    <3> HIDE DEF Key
    <3>4. UniqueKeys'
      BY <3>1
    <3>5. \A d \in Client : \A q \in ins'[d], p \in rows' : Key(q) # Key(p)
      BY <3>1, <3>2
    <3>6. \A d, e \in Client : \A q \in ins'[d], p \in ins'[e] :
             Key(q) = Key(p) => d = e /\ q = p
      <4> SUFFICES ASSUME NEW d \in Client, NEW e \in Client,
                          NEW q \in ins'[d], NEW p \in ins'[e], Key(q) = Key(p)
                   PROVE  d = e /\ q = p
        OBVIOUS
      <4>1. q \in ins[d] \/ (d = c /\ q = r)
        BY <3>1
      <4>2. p \in ins[e] \/ (e = c /\ p = r)
        BY <3>1
      <4> QED
        BY <3>2, <3>3, <4>1, <4>2
    <3> QED
      BY <3>4, <3>5, <3>6
  <2> QED
    BY <2>1, <2>2
<1>3. ASSUME NEW c \in Client, NEW r \in Row, StampRow(c, r)
      PROVE  UniqueKeys' /\ KeysApart'
  BY <1>3 DEF StampRow
<1>4. ASSUME NEW c \in Client, CommitTx(c)
      PROVE  UniqueKeys' /\ KeysApart'
  <2>1. /\ rows' = rows \cup ins[c]
        /\ ins' = [ins EXCEPT ![c] = {}]
    BY <1>4 DEF CommitTx
  <2> HIDE DEF Key
  <2>2. UniqueKeys'
    BY <2>1
  <2>3. KeysApart'
    BY <2>1
  <2> QED
    BY <2>2, <2>3
<1>5. ASSUME NEW c \in Client, RollbackTx(c)
      PROVE  UniqueKeys' /\ KeysApart'
  BY <1>5 DEF RollbackTx
<1>6. ASSUME NEW S \in SUBSET rows, StampNow(S)
      PROVE  UniqueKeys' /\ KeysApart'
  BY <1>6 DEF StampNow
<1> QED
  BY <1>1, <1>2, <1>3, <1>4, <1>5, <1>6 DEF Statement

LEMMA ProjectStep ==
    ASSUME TypeOK, RelationsStayInProject, InFlightInProject, Statement
    PROVE  RelationsStayInProject' /\ InFlightInProject'
<1> USE DEF TypeOK, StoreTypeOK, RelationsStayInProject, InFlightInProject
<1>1. CASE UNCHANGED storeVars
  BY <1>1 DEF storeVars
<1>2. ASSUME NEW c \in Client, NEW r \in Row, WellPlaced(c, r), InsertRow(c, r)
      PROVE  RelationsStayInProject' /\ InFlightInProject'
  BY <1>2 DEF InsertRow, WellPlaced
<1>3. ASSUME NEW c \in Client, NEW r \in Row, StampRow(c, r)
      PROVE  RelationsStayInProject' /\ InFlightInProject'
  BY <1>3 DEF StampRow
<1>4. ASSUME NEW c \in Client, CommitTx(c) \/ RollbackTx(c)
      PROVE  RelationsStayInProject' /\ InFlightInProject'
  BY <1>4 DEF CommitTx, RollbackTx
<1>5. ASSUME NEW S \in SUBSET rows, StampNow(S)
      PROVE  RelationsStayInProject' /\ InFlightInProject'
  BY <1>5 DEF StampNow
<1> QED
  BY <1>1, <1>2, <1>3, <1>4, <1>5 DEF Statement

LEMMA ReferenceStep ==
    ASSUME TypeOK, ForeignKeys, InFlightReferences, Statement
    PROVE  ForeignKeys' /\ InFlightReferences'
<1> USE DEF TypeOK, StoreTypeOK, ForeignKeys, InFlightReferences, HasNode, Visible
<1>1. CASE UNCHANGED storeVars
  BY <1>1 DEF storeVars
<1>2. ASSUME NEW c \in Client, NEW r \in Row, WellPlaced(c, r), InsertRow(c, r)
      PROVE  ForeignKeys' /\ InFlightReferences'
  BY <1>2 DEF InsertRow, WellPlaced
<1>3. ASSUME NEW c \in Client, NEW r \in Row, StampRow(c, r)
      PROVE  ForeignKeys' /\ InFlightReferences'
  BY <1>3 DEF StampRow
<1>4. ASSUME NEW c \in Client, CommitTx(c) \/ RollbackTx(c)
      PROVE  ForeignKeys' /\ InFlightReferences'
  BY <1>4 DEF CommitTx, RollbackTx
<1>5. ASSUME NEW S \in SUBSET rows, StampNow(S)
      PROVE  ForeignKeys' /\ InFlightReferences'
  BY <1>5 DEF StampNow
<1> QED
  BY <1>1, <1>2, <1>3, <1>4, <1>5 DEF Statement

-------------------------------------------------------------------------------
(* The nodes a handler has resolved stay in sight until it is done: rows of *)
(* the tables stay, and its own rows leave only with its transaction.       *)

\* The other handlers go on seeing what they saw.
SeenByOthers(c) == \A d \in Client \ {c} : Visible(d) \subseteq Visible(d)'

LEMMA GotoTargets ==
    ASSUME TypeOK, TargetsExist, NEW c \in Client, NEW t, NEW label,
           Goto(c, label, t), SeenByOthers(c),
           TargetsFit(label, t, Visible(c)')
    PROVE  TargetsExist'
<1>1. \A d \in Client \ {c} : TargetsFit(pc[d], task[d], Visible(d)')
  BY DEF TargetsExist, TargetsFit, SeenByOthers, HasNode
<1>2. /\ pc' = [pc EXCEPT ![c] = label] /\ DOMAIN pc = Client
      /\ task' = [task EXCEPT ![c] = t] /\ DOMAIN task = Client
  BY DEF Goto, TypeOK
<1> QED
  BY <1>1, <1>2 DEF TargetsExist

LEMMA ReplyTargets ==
    ASSUME TypeOK, TargetsExist, NEW c \in Client, NEW answer,
           Reply(c, answer), SeenByOthers(c)
    PROVE  TargetsExist'
<1>1. \A d \in Client \ {c} : TargetsFit(pc[d], task[d], Visible(d)')
  BY DEF TargetsExist, TargetsFit, SeenByOthers, HasNode
<1>2. /\ pc' = [pc EXCEPT ![c] = "idle"] /\ DOMAIN pc = Client
      /\ task' = [task EXCEPT ![c] = NoTask] /\ DOMAIN task = Client
  BY DEF Reply, TypeOK
<1>3. TargetsFit("idle", NoTask, Visible(c)')
  BY DEF TargetsFit
<1> QED
  BY <1>1, <1>2, <1>3 DEF TargetsExist

LEMMA AbortTargets ==
    ASSUME TypeOK, TargetsExist, NEW c \in Client, NEW s, Abort(c, s)
    PROVE  TargetsExist'
<1>1. SeenByOthers(c)
  BY DEF Abort, RollbackTx, SeenByOthers, Visible, TypeOK, StoreTypeOK
<1> QED
  BY <1>1, ReplyTargets DEF Abort

LEMMA NextItemTargets ==
    ASSUME TypeOK, TargetsExist, NEW c \in Client, NEW t,
           ~SessionOp(t.req), NextItem(c, t), SeenByOthers(c)
    PROVE  TargetsExist'
<1> DEFINE u == [t EXCEPT !.i = @ + 1, !.j = 1]
<1>1. \/ Goto(c, FirstStep(t.req.op), u)
      \/ Goto(c, "commit", t)
  BY DEF NextItem
<1>2. FirstStep(t.req.op) \in {"create", "find"}
  BY DEF FirstStep, SessionOp
<1> HIDE DEF u
<1>3. /\ TargetsFit(FirstStep(t.req.op), u, Visible(c)')
      /\ TargetsFit("commit", t, Visible(c)')
  BY <1>2 DEF TargetsFit
<1> QED
  BY <1>1, <1>3, GotoTargets

LEMMA NextTextTargets ==
    ASSUME TypeOK, TargetsExist, NEW c \in Client, NEW t,
           t.req.op \in OpsAt("insert"), NextText(c, t), SeenByOthers(c),
           HasNode(Visible(c)', t.from)
    PROVE  TargetsExist'
<1>1. ~SessionOp(t.req)
  BY DEF OpsAt, SessionOp
<1>2. TargetsFit("insert", t, Visible(c)')
  BY DEF TargetsFit
<1> QED
  BY <1>1, <1>2, GotoTargets, NextItemTargets DEF NextText

\* No statement, and no end of a transaction, takes a row from the others.
LEMMA StatementSeen ==
    ASSUME TypeOK, NEW c \in Client,
           \/ UNCHANGED storeVars
           \/ \E r \in Row : InsertRow(c, r) \/ StampRow(c, r)
           \/ CommitTx(c)
    PROVE  SeenByOthers(c) /\ Visible(c) \subseteq Visible(c)'
<1> USE DEF TypeOK, StoreTypeOK, SeenByOthers, Visible
<1>1. CASE UNCHANGED storeVars
  BY <1>1 DEF storeVars
<1>2. CASE \E r \in Row : InsertRow(c, r)
  BY <1>2 DEF InsertRow
<1>3. CASE \E r \in Row : StampRow(c, r)
  BY <1>3 DEF StampRow
<1>4. CASE CommitTx(c)
  BY <1>4 DEF CommitTx
<1> QED
  BY <1>1, <1>2, <1>3, <1>4

LEMMA StayInSight ==
    ASSUME NEW c \in Client, NEW id, Visible(c) \subseteq Visible(c)',
           HasNode(Visible(c), id)
    PROVE  HasNode(Visible(c)', id)
BY DEF HasNode

LEMMA CreateTargets ==
    ASSUME TypeOK, TargetsExist, NEW c \in Client, Create(c)
    PROVE  TargetsExist'
<1> DEFINE t   == task[c]
           row == Node(Item(t).project, Item(t).name, t.req.session)
           u   == [t EXCEPT !.from = IdOf(row), !.nodes = @ + 1]
<1>1. /\ pc[c] = "create" /\ TaskFits("create", t) /\ t.req.op = "create_nodes"
  BY TaskOf DEF Create, TaskFits, OpsAt
<1>2. row \in Row /\ row.tab = "nodes"
  <2>1. Item(t) \in NodeItem /\ t.req.session \in Session \cup {None}
    BY <1>1, ItemTyped, RequestTyped DEF TaskFits, TaskTyped, ItemLabels, SessionOp
  <2> QED
    BY <2>1, NodeTyped DEF NodeItem, Node
<1>3. InsertRow(c, row)
  BY DEF Create
<1> HIDE DEF row
<1>4. SeenByOthers(c)
  BY <1>2, <1>3, StatementSeen
<1>5. CASE Taken(c, Key(row))
  <2>1. Goto(c, "lookup", t)
    BY <1>5 DEF Create, row
  <2>2. TargetsFit("lookup", t, Visible(c)')
    BY DEF TargetsFit
  <2> QED
    BY <1>4, <2>1, <2>2, GotoTargets
<1>6. CASE ~Taken(c, Key(row))
  <2>1. NextText(c, u)
    BY <1>6 DEF Create, row
  <2>2. row \in Visible(c)'
    BY <1>3, <1>6 DEF InsertRow, Visible, TypeOK, StoreTypeOK
  <2>3. HasNode(Visible(c)', IdOf(row))
    BY <1>2, <2>2 DEF HasNode
  <2>4. u.from = IdOf(row) /\ u.req.op \in OpsAt("insert")
    BY <1>1 DEF TaskFits, TaskTyped, NoTask, OpsAt
  <2> HIDE DEF u
  <2> QED
    BY <1>4, <2>1, <2>3, <2>4, NextTextTargets
<1> QED
  BY <1>5, <1>6

LEMMA LookupExistingTargets ==
    ASSUME TypeOK, TargetsExist, NEW c \in Client, LookupExisting(c)
    PROVE  TargetsExist'
<1> DEFINE t  == task[c]
           id == [project |-> Item(t).project, name |-> Item(t).name]
           u  == [t EXCEPT !.from = id, !.nodes = @ + 1]
<1>1. pc[c] = "lookup" /\ TaskFits("lookup", t) /\ t.req.op = "create_nodes"
  BY TaskOf DEF LookupExisting, TaskFits, OpsAt
<1>2. CASE /\ \E r \in Live(c) : r.tab = "nodes" /\ IdOf(r) = id
           /\ NextText(c, u) /\ UNCHANGED storeVars
  <2>1. SeenByOthers(c) /\ Visible(c) \subseteq Visible(c)'
    BY <1>2, StatementSeen
  <2>2. HasNode(Visible(c), id)
    BY <1>2 DEF HasNode, Live
  <2>3. u.from = id /\ u.req.op \in OpsAt("insert")
    BY <1>1 DEF TaskFits, TaskTyped, NoTask, OpsAt
  <2> HIDE DEF u, id
  <2> QED
    BY <1>2, <2>1, <2>2, <2>3, StayInSight, NextTextTargets
<1>3. CASE Abort(c, "error")
  BY <1>3, AbortTargets
<1> QED
  BY <1>2, <1>3 DEF LookupExisting

LEMMA FindNodeTargets ==
    ASSUME TypeOK, TargetsExist, NEW c \in Client, FindNode(c)
    PROVE  TargetsExist'
<1> DEFINE t  == task[c]
           op == t.req.op
           nm == CASE op = "create_relations" -> Item(t).from
                   [] op = "mark_superseded"  -> Item(t).to
                   [] OTHER                   -> Item(t).name
           id == FirstHomonym(Homonyms(c, nm))
<1>1. /\ pc[c] = "find" /\ TaskFits("find", t) /\ StoreTypeOK
      /\ op \in {"add_observations", "update_observations",
                 "create_relations", "mark_superseded"}
  BY TaskOf DEF FindNode, TaskFits, OpsAt
<1>2. CASE Homonyms(c, nm) = {}
  <2>1. Abort(c, "rejected")
    BY <1>2 DEF FindNode
  <2> QED
    BY <2>1, AbortTargets
<1>3. CASE Homonyms(c, nm) # {}
  <2>1. SeenByOthers(c) /\ Visible(c) \subseteq Visible(c)'
    BY <1>3, StatementSeen DEF FindNode
  <2> HIDE DEF nm
  <2>2. HasNode(Visible(c)', id)
    BY <1>1, <1>3, <2>1, Resolved, StayInSight
  <2> USE DEF nm
  <2> HIDE DEF id
  <2>3. CASE op = "add_observations"
    <3> DEFINE u == [t EXCEPT !.from = id]
    <3>1. NextText(c, u)
      BY <1>3, <2>3 DEF FindNode, id
    <3>2. u.from = id /\ u.req.op \in OpsAt("insert")
      BY <1>1, <2>3 DEF TaskFits, TaskTyped, NoTask, OpsAt
    <3> HIDE DEF u
    <3> QED
      BY <2>1, <2>2, <3>1, <3>2, NextTextTargets
  <2>4. CASE op = "update_observations"
    <3> DEFINE u == [t EXCEPT !.from = id]
    <3>1. Goto(c, "stamp", u)
      BY <1>3, <2>4 DEF FindNode, id
    <3>2. TargetsFit("stamp", u, Visible(c)')
      BY <1>1, <2>2 DEF TaskFits, TaskTyped, NoTask, TargetsFit
    <3> HIDE DEF u
    <3> QED
      BY <2>1, <3>1, <3>2, GotoTargets
  <2>5. CASE op = "create_relations"
    <3> DEFINE u == [t EXCEPT !.from = id]
    <3>1. Goto(c, "find2", u)
      BY <1>3, <2>5 DEF FindNode, id
    <3>2. TargetsFit("find2", u, Visible(c)')
      BY <1>1, <2>2, <2>5 DEF TaskFits, TaskTyped, NoTask, TargetsFit
    <3> HIDE DEF u
    <3> QED
      BY <2>1, <3>1, <3>2, GotoTargets
  <2>6. CASE op = "mark_superseded"
    <3> DEFINE u == [t EXCEPT !.to = id]
    <3>1. Goto(c, "find2", u)
      BY <1>3, <2>6 DEF FindNode, id
    <3>2. TargetsFit("find2", u, Visible(c)')
      BY <1>1, <2>2, <2>6 DEF TaskFits, TaskTyped, NoTask, TargetsFit
    <3> HIDE DEF u
    <3> QED
      BY <2>1, <3>1, <3>2, GotoTargets
  <2> QED
    BY <1>1, <2>3, <2>4, <2>5, <2>6
<1> QED
  BY <1>2, <1>3

LEMMA FindOtherTargets ==
    ASSUME TypeOK, TargetsExist, NEW c \in Client, FindOther(c)
    PROVE  TargetsExist'
<1> DEFINE t  == task[c]
           nm == IF t.req.op = "create_relations" THEN Item(t).to
                 ELSE Item(t).from
           id == FirstHomonym(Homonyms(c, nm))
<1>1. /\ pc[c] = "find2" /\ TaskFits("find2", t) /\ StoreTypeOK
  BY TaskOf DEF FindOther
<1>2. CASE Homonyms(c, nm) = {}
  <2>1. Abort(c, "rejected")
    BY <1>2 DEF FindOther
  <2> QED
    BY <2>1, AbortTargets
<1>3. CASE Homonyms(c, nm) # {}
  <2>1. SeenByOthers(c) /\ Visible(c) \subseteq Visible(c)'
    BY <1>3, StatementSeen DEF FindOther
  <2> HIDE DEF nm
  <2>2. HasNode(Visible(c)', id)
    BY <1>1, <1>3, <2>1, Resolved, StayInSight
  <2>3. IF t.req.op = "create_relations" THEN HasNode(Visible(c)', t.from)
        ELSE HasNode(Visible(c)', t.to)
    BY <1>1, <2>1, StayInSight DEF TargetsExist, TargetsFit
  <2> USE DEF nm
  <2> HIDE DEF id
  <2> DEFINE u == IF t.req.op = "create_relations" THEN [t EXCEPT !.to = id]
                  ELSE [t EXCEPT !.from = id]
  <2>4. Goto(c, "relate", u)
    BY <1>3 DEF FindOther, id
  <2>5. TargetsFit("relate", u, Visible(c)')
    BY <1>1, <2>2, <2>3 DEF TaskFits, TaskTyped, NoTask, TargetsFit
  <2> HIDE DEF u
  <2> QED
    BY <2>1, <2>4, <2>5, GotoTargets
<1> QED
  BY <1>2, <1>3

LEMMA InsertObservationTargets ==
    ASSUME TypeOK, TargetsExist, NEW c \in Client, InsertObservation(c)
    PROVE  TargetsExist'
<1> DEFINE t   == task[c]
           row == Obs(t.from, TextsOf(t.req.op, Item(t))[t.j])
           u   == [t EXCEPT !.j = @ + 1,
                            !.n = IF Taken(c, Key(row)) THEN @ ELSE @ + 1]
<1>1. /\ pc[c] = "insert" /\ TaskFits("insert", t) /\ t.from \in NodeId
      /\ t.req.op \in OpsAt("insert") /\ HasNode(Visible(c), t.from)
  BY TaskOf DEF InsertObservation, TaskFits, TargetsExist, TargetsFit
<1>2. row \in Row
  BY <1>1, TextTyped, ObsTyped
<1>3. InsertRow(c, row) /\ NextText(c, u)
  BY DEF InsertObservation
<1> HIDE DEF row
<1>4. SeenByOthers(c) /\ Visible(c) \subseteq Visible(c)'
  BY <1>2, <1>3, StatementSeen
<1>5. u.from = t.from /\ u.req = t.req
  BY <1>1 DEF TaskFits, TaskTyped, NoTask
<1> HIDE DEF u
<1> QED
  BY <1>1, <1>3, <1>4, <1>5, StayInSight, NextTextTargets

LEMMA MarkObservationDeletedTargets ==
    ASSUME TypeOK, TargetsExist, NEW c \in Client, MarkObservationDeleted(c)
    PROVE  TargetsExist'
<1> DEFINE t   == task[c]
           row == Obs(t.from, Item(t).old)
<1>1. CASE row \in Live(c) /\ StampRow(c, row) /\ Goto(c, "insert", t)
  <2>1. row \in Row
    BY <1>1 DEF Live, Visible, TypeOK, StoreTypeOK
  <2>2. SeenByOthers(c) /\ Visible(c) \subseteq Visible(c)'
    BY <1>1, <2>1, StatementSeen
  <2>3. HasNode(Visible(c), t.from)
    BY DEF MarkObservationDeleted, TargetsExist, TargetsFit
  <2>4. TargetsFit("insert", t, Visible(c)')
    BY <2>2, <2>3, StayInSight DEF TargetsFit
  <2> QED
    BY <1>1, <2>2, <2>4, GotoTargets
<1>2. CASE Abort(c, "rejected")
  BY <1>2, AbortTargets
<1> QED
  BY <1>1, <1>2 DEF MarkObservationDeleted

LEMMA RelateTargets ==
    ASSUME TypeOK, TargetsExist, NEW c \in Client, Relate(c)
    PROVE  TargetsExist'
<1> DEFINE t     == task[c]
           row   == Rel(t.from, t.to, Item(t).type, t.from.project)
           taken == Taken(c, Key(row))
           u     == [t EXCEPT !.n = IF taken THEN @ ELSE @ + 1]
<1>1. /\ TaskFits("relate", t) /\ t.from \in NodeId /\ t.to \in NodeId
      /\ t.req.op \in {"create_relations", "mark_superseded"}
  BY TaskOf DEF Relate, TaskFits, OpsAt
<1>2. CASE Abort(c, "rejected")
  BY <1>2, AbortTargets
<1>3. CASE InsertRow(c, row) /\ \/ NextItem(c, u) \/ NextItem(c, t)
                                \/ Goto(c, "archive", t)
  <2>1. row \in Row
    <3>1. Item(t).type \in RelType
      BY <1>1, ItemTyped, SupersedesIsAType
      DEF TaskFits, TaskTyped, ItemLabels, SessionOp, EdgeItem, Supersedes
    <3> QED
      BY <1>1, <3>1, RelTyped DEF NodeId
  <2> HIDE DEF row
  <2>2. SeenByOthers(c)
    BY <1>3, <2>1, StatementSeen
  <2>3. ~SessionOp(t.req) /\ ~SessionOp(u.req)
    BY <1>1 DEF SessionOp, TaskFits, TaskTyped, NoTask
  <2> HIDE DEF u
  <2>4. TargetsFit("archive", t, Visible(c)')
    BY DEF TargetsFit
  <2> QED
    BY <1>3, <2>2, <2>3, <2>4, NextItemTargets, GotoTargets
<1>4. \/ Abort(c, "rejected")
      \/ InsertRow(c, row) /\ \/ NextItem(c, u) \/ NextItem(c, t)
                              \/ Goto(c, "archive", t)
  <2> HIDE DEF row
  <2> QED
    BY <1>1 DEF Relate, row
<1> QED
  BY <1>2, <1>3, <1>4

LEMMA ArchiveTargets ==
    ASSUME TypeOK, TargetsExist, NEW c \in Client, Archive(c) \/ ArchiveRow(c)
    PROVE  TargetsExist'
<1> DEFINE t == task[c]
<1>1. CASE Archive(c)
  <2> DEFINE u == [t EXCEPT !.left = {r \in Live(c) : r.tab = "observations"
                                                      /\ r.node = t.to}]
  <2>1. Goto(c, "archiving", u) /\ SeenByOthers(c)
    BY <1>1, StatementSeen DEF Archive
  <2> HIDE DEF u
  <2>2. TargetsFit("archiving", u, Visible(c)')
    BY DEF TargetsFit
  <2> QED
    BY <2>1, <2>2, GotoTargets
<1>2. CASE ArchiveRow(c)
  <2>1. TaskFits("archiving", t)
    BY <1>2, TaskOf DEF ArchiveRow
  <2>2. CASE NextItem(c, t) /\ UNCHANGED storeVars
    BY <2>1, <2>2, StatementSeen, NextItemTargets DEF TaskFits, OpsAt, SessionOp
  <2>3. ASSUME NEW r \in t.left, NEW u, StampRow(c, r), Goto(c, "archiving", u)
        PROVE  TargetsExist'
    <3>1. r \in Row
      BY <2>1 DEF TaskFits, TaskTyped, Row
    <3>2. SeenByOthers(c)
      BY <2>3, <3>1, StatementSeen
    <3>3. TargetsFit("archiving", u, Visible(c)')
      BY DEF TargetsFit
    <3> QED
      BY <2>3, <3>2, <3>3, GotoTargets
  <2> QED
    BY <1>2, <2>2, <2>3 DEF ArchiveRow
<1> QED
  BY <1>1, <1>2

LEMMA SessionTargets ==
    ASSUME TypeOK, TargetsExist, NEW c \in Client, StartSession(c) \/ EndSession(c)
    PROVE  TargetsExist'
<1>1. TargetsFit("commit", task[c], Visible(c)')
  BY DEF TargetsFit
<1>2. CASE StartSession(c)
  <2>1. SeenByOthers(c)
    BY <1>2, SessTyped, StatementSeen DEF StartSession
  <2> QED
    BY <1>1, <1>2, <2>1, GotoTargets DEF StartSession
<1>3. CASE EndSession(c)
  <2> DEFINE row == Sess(task[c].req.session)
  <2>1. CASE row \in Visible(c) /\ StampRow(c, row) /\ Goto(c, "commit", task[c])
    <3>1. SeenByOthers(c)
      BY <2>1, StatementSeen DEF Visible, TypeOK, StoreTypeOK
    <3> QED
      BY <1>1, <2>1, <3>1, GotoTargets
  <2>2. CASE Abort(c, "rejected")
    BY <2>2, AbortTargets
  <2> QED
    BY <1>3, <2>1, <2>2 DEF EndSession
<1> QED
  BY <1>2, <1>3

LEMMA CommitTargets ==
    ASSUME TypeOK, TargetsExist, NEW c \in Client,
           Commit(c) \/ CommitUnacknowledged(c)
    PROVE  TargetsExist'
<1>1. SeenByOthers(c)
  BY StatementSeen DEF Commit, CommitUnacknowledged
<1>2. TargetsFit("count", task[c], Visible(c)')
  BY DEF TargetsFit
<1>3. \/ Goto(c, "count", task[c])
      \/ \E answer : Reply(c, answer)
  BY Zenon DEF Commit, CommitUnacknowledged
<1> QED
  BY <1>1, <1>2, <1>3, GotoTargets, ReplyTargets

LEMMA OutsideTargets ==
    ASSUME TypeOK, TargetsExist, NEW c \in Client,
           CheckSession(c) \/ Begin(c) \/ CountSessionNodes(c)
    PROVE  TargetsExist'
<1>1. SeenByOthers(c)
  BY StatementSeen DEF CheckSession, Begin, CountSessionNodes
<1>2. \A label \in {"begin", "commit", "create", "find", "start", "end"} :
         TargetsFit(label, task[c], Visible(c)')
  BY DEF TargetsFit
<1>2a. TargetsFit("begin", [task[c] EXCEPT !.req = Scrubbed(task[c].req)],
                 Visible(c)')
  BY DEF TargetsFit
<1>3. CASE CheckSession(c)
  BY <1>1, <1>2a, <1>3, GotoTargets, ReplyTargets DEF CheckSession
<1>4. CASE Begin(c)
  BY <1>1, <1>2, <1>4, GotoTargets DEF Begin, FirstStep
<1>5. CASE CountSessionNodes(c)
  BY <1>1, <1>5, ReplyTargets DEF CountSessionNodes
<1> QED
  BY <1>3, <1>4, <1>5

LEMMA ReceiveTargets ==
    ASSUME TypeOK, TargetsExist, NEW c \in Client, NEW r \in Request, Receive(c, r)
    PROVE  TargetsExist'
<1>1. SeenByOthers(c) /\ UNCHANGED <<rows, ins>>
  BY StatementSeen DEF Receive, storeVars
<1>2. CASE UNCHANGED <<pc, task>>
  BY <1>1, <1>2 DEF TargetsExist, TargetsFit, Visible
<1>3. ASSUME NEW label \in {"session", "begin"}, NEW t,
             pc' = [pc EXCEPT ![c] = label], task' = [task EXCEPT ![c] = t]
      PROVE  TargetsExist'
  <2>1. TargetsFit(label, t, Visible(c)')
    BY DEF TargetsFit
  <2>2. \A d \in Client \ {c} : TargetsFit(pc[d], task[d], Visible(d)')
    BY <1>1 DEF TargetsExist, Visible
  <2> QED
    BY <1>3, <2>1, <2>2 DEF TargetsExist, TypeOK
<1> QED
  BY <1>2, <1>3 DEF Receive

LEMMA TargetsStep ==
    ASSUME TypeOK, TargetsExist, [Next]_vars
    PROVE  TargetsExist'
<1>1. ASSUME NEW c \in Client, NEW r \in Request, Receive(c, r) PROVE TargetsExist'
  BY <1>1, ReceiveTargets
<1>2. ASSUME NEW c \in Client, HandlerStep(c) PROVE TargetsExist'
  <2>1. CASE CheckSession(c) \/ Begin(c) \/ CountSessionNodes(c)
    BY <2>1, OutsideTargets
  <2>2. CASE Create(c) \/ LookupExisting(c) \/ FindNode(c) \/ FindOther(c)
    BY <2>2, CreateTargets, LookupExistingTargets, FindNodeTargets, FindOtherTargets
  <2>3. CASE InsertObservation(c) \/ MarkObservationDeleted(c) \/ Relate(c)
    BY <2>3, InsertObservationTargets, MarkObservationDeletedTargets, RelateTargets
  <2>4. CASE Archive(c) \/ ArchiveRow(c) \/ StartSession(c) \/ EndSession(c)
    BY <2>4, ArchiveTargets, SessionTargets
  <2>5. CASE Commit(c)
    BY <2>5, CommitTargets
  <2>6. CASE DeadlockVictim(c)
    BY <2>6, AbortTargets DEF DeadlockVictim
  <2> QED
    BY <1>2, <2>1, <2>2, <2>3, <2>4, <2>5, <2>6 DEF HandlerStep
<1>3. ASSUME NEW c \in Client, Fail(c) \/ CommitUnacknowledged(c)
      PROVE  TargetsExist'
  BY <1>3, AbortTargets, CommitTargets DEF Fail
<1>4. CASE AdminStep
  <2>1. UNCHANGED <<rows, ins, pc, task>>
    BY <1>4 DEF AdminStep, AdminDeleteNode, AdminDeleteObservation,
                AdminDeleteRelation, StampNow, handlerVars
  <2> QED
    BY <2>1 DEF TargetsExist, TargetsFit, Visible
<1>5. CASE UNCHANGED vars
  BY <1>5 DEF vars, TargetsExist, TargetsFit, Visible
<1> QED
  BY <1>1, <1>2, <1>3, <1>4, <1>5 DEF Next

-------------------------------------------------------------------------------
(* The invariant and what it gives. *)

LEMMA GraphInvInductive == Spec => []GraphInv
<1>1. Init => GraphInv
  <2> SUFFICES ASSUME Init PROVE GraphInv
    OBVIOUS
  <2>1. TypeOK
    BY InitType
  <2>2. UniqueKeys /\ KeysApart
    BY SeedIsAGraph DEF Init, StoreInit, UniqueKeys, KeysApart
  <2>3. RelationsStayInProject /\ InFlightInProject
    BY SeedIsAGraph DEF Init, StoreInit, RelationsStayInProject,
                        InFlightInProject, InOneProject
  <2>4. ForeignKeys /\ InFlightReferences /\ TargetsExist
    BY SeedIsAGraph DEF Init, StoreInit, ForeignKeys, InFlightReferences,
                        TargetsExist, TargetsFit
  <2> QED
    BY <2>1, <2>2, <2>3, <2>4 DEF GraphInv
<1>2. GraphInv /\ [Next]_vars => GraphInv'
  <2> SUFFICES ASSUME GraphInv, [Next]_vars PROVE GraphInv'
    OBVIOUS
  <2>1. TypeOK' /\ Statement /\ TargetsExist'
    BY NextType, StepIsStatement, TargetsStep DEF GraphInv
  <2>2. UniqueKeys' /\ KeysApart'
    BY <2>1, KeysStep DEF GraphInv
  <2>3. RelationsStayInProject' /\ InFlightInProject'
    BY <2>1, ProjectStep DEF GraphInv
  <2>4. ForeignKeys' /\ InFlightReferences'
    BY <2>1, ReferenceStep DEF GraphInv
  <2> QED
    BY <2>1, <2>2, <2>3, <2>4 DEF GraphInv
<1> QED
  BY <1>1, <1>2, PTL DEF Spec

\* Concurrent creates, adds and relates of the same thing leave one row of it:
\* the guarantee behind re-sending a request whose answer was lost.
THEOREM KeysStayUnique == Spec => []UniqueKeys
<1>1. GraphInv => UniqueKeys
  BY DEF GraphInv
<1> QED
  BY <1>1, GraphInvInductive, PTL

\* However names resolve among homonyms, and whatever is deleted or created
\* between the two look-ups, no stored relation leaves its project.
THEOREM NoCrossProjectRelation == Spec => []RelationsStayInProject
<1>1. GraphInv => RelationsStayInProject
  BY DEF GraphInv
<1> QED
  BY <1>1, GraphInvInductive, PTL

\* An observation or a relation never outlives, or precedes, the node it was
\* written for: no transaction reads a node that another may still roll back.
THEOREM ReferencesHold == Spec => []ForeignKeys
<1>1. GraphInv => ForeignKeys
  BY DEF GraphInv
<1> QED
  BY <1>1, GraphInvInductive, PTL

===============================================================================
