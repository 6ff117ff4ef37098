-------------------------- MODULE GraphPromiseProofs --------------------------
(***************************************************************************)
(* GraphTools implements GraphPromise, and its answers count what its      *)
(* transactions did.                                                       *)
(*                                                                         *)
(* GraphInv says nothing about what an open transaction has done so far,   *)
(* so neither is inductive with it alone.  WorkInv adds that: the rows a   *)
(* transaction has inserted and stamped are some its request asks for, the *)
(* items behind the handler's index are done, the counter is their number, *)
(* and no row is stamped by two.  It splits into LocksApart, which follows *)
(* from what a statement is, and Work, kept by each step of a handler for  *)
(* itself and, as the others only add to what it sees, for everybody else. *)
(***************************************************************************)
EXTENDS GraphToolsProofs

-------------------------------------------------------------------------------
(* Row locks. *)

LEMMA LocksStep ==
    ASSUME TypeOK, LocksApart, Statement
    PROVE  LocksApart'
<1> USE DEF TypeOK, StoreTypeOK, LocksApart
<1>1. CASE UNCHANGED storeVars
  BY <1>1 DEF storeVars
<1>2. CASE \E c \in Client, r \in Row : WellPlaced(c, r) /\ InsertRow(c, r)
  BY <1>2 DEF InsertRow
<1>3. ASSUME NEW c \in Client, NEW r \in Row, StampRow(c, r)
      PROVE  LocksApart'
  <2>1. dead' = dead
    BY <1>3 DEF StampRow
  <2>2. CASE r \in Live(c)
    <3>1. del' = [del EXCEPT ![c] = @ \cup {r}]
      BY <1>3, <2>2 DEF StampRow
    <3>2. r \notin dead /\ \A d \in Client \ {c} : r \notin del[d]
      BY <1>3, <2>2 DEF StampRow, Live, Lockers
    <3>3. \A d \in Client : del'[d] = IF d = c THEN del[d] \cup {r} ELSE del[d]
      BY <3>1
    <3> HIDE DEF TypeOK, StoreTypeOK
    <3>4. \A d \in Client : del'[d] \cap dead' = {}
      BY <2>1, <3>2, <3>3
    <3>5. ASSUME NEW d \in Client, NEW e \in Client, d # e
          PROVE  del'[d] \cap del'[e] = {}
      <4>1. del[d] \cap del[e] = {}
        BY <3>5
      <4>2. CASE d # c /\ e # c
        BY <3>3, <4>1, <4>2
      <4>3. CASE d = c
        <5>1. del'[d] = del[d] \cup {r} /\ del'[e] = del[e] /\ r \notin del[e]
          BY <3>2, <3>3, <3>5, <4>3
        <5> QED
          BY <4>1, <5>1
      <4>4. CASE e = c
        <5>1. del'[e] = del[e] \cup {r} /\ del'[d] = del[d] /\ r \notin del[d]
          BY <3>2, <3>3, <3>5, <4>4
        <5> QED
          BY <4>1, <5>1
      <4> QED
        BY <4>2, <4>3, <4>4
    <3> QED
      BY <3>4, <3>5
  <2>3. CASE r \notin Live(c)
    BY <1>3, <2>1, <2>3 DEF StampRow
  <2> QED
    BY <2>2, <2>3
<1>4. ASSUME NEW c \in Client, CommitTx(c) \/ RollbackTx(c)
      PROVE  LocksApart'
  <2>1. \A d \in Client : del'[d] = IF d = c THEN {} ELSE del[d]
    BY <1>4 DEF CommitTx, RollbackTx
  <2>2. dead' \subseteq dead \cup del[c]
    BY <1>4 DEF CommitTx, RollbackTx
  <2> QED
    BY <2>1, <2>2
<1>5. CASE \E S \in SUBSET rows : StampNow(S)
  BY <1>5 DEF StampNow
<1> QED
  BY <1>1, <1>2, <1>3, <1>4, <1>5 DEF Statement

-------------------------------------------------------------------------------
(* What a statement of c leaves to the others, and what it brings to c. *)

Undisturbed(c) ==
    /\ dead \subseteq dead'
    /\ \A d \in Client \ {c} :
          /\ ins'[d] = ins[d] /\ del'[d] = del[d]
          /\ Visible(d) \subseteq Visible(d)'

LEMMA InsertEffect ==
    ASSUME StoreTypeOK, NEW c \in Client, NEW r \in Row, InsertRow(c, r)
    PROVE  /\ Undisturbed(c)
           /\ del'[c] = del[c] /\ dead' = dead /\ rows' = rows
           /\ ins'[c] = IF Taken(c, Key(r)) THEN ins[c] ELSE ins[c] \cup {r}
           /\ Visible(c) \subseteq Visible(c)'
           /\ \E x \in Visible(c)' : Key(x) = Key(r)
<1> DEFINE taken == Taken(c, Key(r))
<1>1. rows' = rows /\ dead' = dead /\ del' = del
  BY DEF InsertRow
<1>2. /\ \A d \in Client \ {c} : ins'[d] = ins[d]
      /\ ins'[c] = IF taken THEN ins[c] ELSE ins[c] \cup {r}
  BY DEF InsertRow, StoreTypeOK
<1>3. \E x \in Visible(c)' : Key(x) = Key(r)
  <2>1. CASE taken
    BY <1>1, <1>2, <2>1 DEF Taken, Visible
  <2>2. CASE ~taken
    BY <1>2, <2>2 DEF Visible
  <2> QED
    BY <2>1, <2>2
<1> QED
  BY <1>1, <1>2, <1>3 DEF Undisturbed, Visible

LEMMA StampEffect ==
    ASSUME StoreTypeOK, NEW c \in Client, NEW r, StampRow(c, r)
    PROVE  /\ Undisturbed(c)
           /\ ins'[c] = ins[c] /\ dead' = dead /\ rows' = rows
           /\ Visible(c)' = Visible(c)
           /\ del'[c] = IF r \in Live(c) THEN del[c] \cup {r} ELSE del[c]
<1>1. rows' = rows /\ dead' = dead /\ ins' = ins
  BY DEF StampRow
<1>2. /\ \A d \in Client \ {c} : del'[d] = del[d]
      /\ del'[c] = IF r \in Live(c) THEN del[c] \cup {r} ELSE del[c]
  BY DEF StampRow, StoreTypeOK
<1> QED
  BY <1>1, <1>2 DEF Undisturbed, Visible

LEMMA EndEffect ==
    ASSUME StoreTypeOK, NEW c \in Client, CommitTx(c) \/ RollbackTx(c)
    PROVE  Undisturbed(c) /\ ins'[c] = {} /\ del'[c] = {}
<1>1. \A d \in Client : /\ ins'[d] = IF d = c THEN {} ELSE ins[d]
                        /\ del'[d] = IF d = c THEN {} ELSE del[d]
  BY DEF CommitTx, RollbackTx, StoreTypeOK
<1>2. rows \subseteq rows' /\ dead \subseteq dead'
  BY DEF CommitTx, RollbackTx
<1> QED
  BY <1>1, <1>2 DEF Undisturbed, Visible

LEMMA NoEffect ==
    ASSUME UNCHANGED storeVars
    PROVE  \A c \in Client : Undisturbed(c) /\ ins'[c] = ins[c] /\ del'[c] = del[c]
                             /\ Visible(c)' = Visible(c) /\ dead' = dead
BY DEF storeVars, Undisturbed, Visible

-------------------------------------------------------------------------------
(* The work of a transaction, as others commit. *)

LEMMA WorkMonotone ==
    ASSUME NEW label, NEW t, NEW I, NEW D, NEW seen, NEW gone, NEW more, NEW lost,
           WorkFits(label, t, I, D, seen, gone),
           seen \subseteq more, gone \subseteq lost
    PROVE  WorkFits(label, t, I, D, more, lost)
<1>1. \A k : ItemDone(t.req, k, D, seen) => ItemDone(t.req, k, D, more)
  BY DEF ItemDone, HasNode
<1>2. HereFits(label, t, D, seen) => HereFits(label, t, D, more)
  BY DEF HereFits
<1>3. LoopWork(label, t, I, D, seen) => LoopWork(label, t, I, D, more)
  BY <1>1, <1>2 DEF LoopWork
<1>4. SessionWork(label, t, I, D, seen, gone) => SessionWork(label, t, I, D, more, lost)
  BY DEF SessionWork
<1> QED
  BY <1>3, <1>4 DEF WorkFits

Work == \A c \in Client :
    /\ WorkFits(pc[c], task[c], ins[c], del[c], Visible(c), dead \cup del[c])
    /\ CountFits(pc[c], task[c], ins[c], del[c])

\* A step of c that leaves c itself with fitting work.
LEMMA WorkStep ==
    ASSUME TypeOK, Work, NEW c \in Client, Undisturbed(c), NEW label, NEW t,
           pc' = [pc EXCEPT ![c] = label], task' = [task EXCEPT ![c] = t],
           WorkFits(label, t, ins'[c], del'[c], Visible(c)', (dead \cup del[c])'),
           CountFits(label, t, ins'[c], del'[c])
    PROVE  Work'
<1> SUFFICES ASSUME NEW d \in Client
             PROVE  /\ WorkFits(pc'[d], task'[d], ins'[d], del'[d], Visible(d)', (dead \cup del[d])')
                    /\ CountFits(pc'[d], task'[d], ins'[d], del'[d])
  BY DEF Work
<1>1. CASE d = c
  <2>1. pc'[d] = label /\ task'[d] = t
    BY <1>1 DEF TypeOK
  <2> QED
    BY <1>1, <2>1
<1>2. CASE d # c
  <2>1. pc'[d] = pc[d] /\ task'[d] = task[d] /\ ins'[d] = ins[d] /\ del'[d] = del[d]
    BY <1>2 DEF TypeOK, Undisturbed
  <2>2. Visible(d) \subseteq Visible(d)' /\ (dead \cup del[d]) \subseteq (dead \cup del[d])'
    BY <1>2 DEF Undisturbed
  <2>3. WorkFits(pc[d], task[d], ins[d], del[d], Visible(d), dead \cup del[d])
        /\ CountFits(pc[d], task[d], ins[d], del[d])
    BY DEF Work
  <2>4. WorkFits(pc[d], task[d], ins[d], del[d], Visible(d)', (dead \cup del[d])')
    BY <2>2, <2>3, WorkMonotone
  <2> QED
    BY <2>1, <2>3, <2>4
<1> QED
  BY <1>1, <1>2

\* What the work of a looping handler has to be, whatever its statement.
OwnWork(t, I, D) ==
    /\ \E r \in Request : t.req = Scrubbed(r)
    /\ t.req.op \in LoopOps
    /\ \A x \in I : \E k \in DOMAIN t.req.items : Asked(t.req, k, x)
    /\ \A x \in D :
          /\ t.req.op = "update_observations"
          /\ \E k \in DOMAIN t.req.items, id \in NodeId : x = Obs(id, t.req.items[k].old)

\* The counter of a looping handler that has stamped the old texts of k items.
Counted(t, I, D, k) ==
    /\ t.req.op \in {"create_nodes", "add_observations"} =>
          t.n = Cardinality({r \in I : r.tab = "observations"})
    /\ t.req.op = "create_relations" =>
          t.n = Cardinality({r \in I : r.tab = "relations"})
    /\ t.req.op = "update_observations" => Cardinality(D) = k

LEMMA CountItems ==
    ASSUME NEW k \in Nat
    PROVE  Cardinality(1..k) = k
BY FS_Interval

LEMMA LoopCount ==
    ASSUME NEW t, NEW I, NEW D, t.req.op \in LoopOps, TaskTyped(t)
    PROVE  /\ Counted(t, I, D, t.i - 1) =>
                 \A label \in Label \ {"insert", "commit", "session", "begin"} :
                    CountFits(label, t, I, D)
           /\ Counted(t, I, D, t.i) => CountFits("insert", t, I, D)
           /\ Counted(t, I, D, Len(t.req.items)) => CountFits("commit", t, I, D)
           /\ \A label \in {"create", "lookup", "find", "find2", "stamp", "relate"} :
                 CountFits(label, t, I, D) => Counted(t, I, D, t.i - 1)
           /\ CountFits("insert", t, I, D) => Counted(t, I, D, t.i)
           /\ CountFits("commit", t, I, D) => Counted(t, I, D, Len(t.req.items))
<1>1. /\ t.i - 1 \in Nat /\ t.i \in Nat /\ Cardinality(1..(t.i - 1)) = t.i - 1
  BY CountItems DEF TaskTyped
<1>2. Len(t.req.items) \in Nat /\ Cardinality(DOMAIN t.req.items) = Len(t.req.items)
  <2>1. t.req.items \in Seq(NodeItem) \cup Seq(AddItem) \cup Seq(UpdateItem) \cup Seq(EdgeItem)
    BY RequestTyped DEF TaskTyped, LoopOps, TextOps
  <2>2. DOMAIN t.req.items = 1..Len(t.req.items) /\ Len(t.req.items) \in Nat
    BY <2>1
  <2> QED
    BY <2>2, CountItems
<1>3. /\ Behind("commit", t) = DOMAIN t.req.items
      /\ \A label \in Label \ {"commit"} : Behind(label, t) = 1..(t.i - 1)
  BY DEF Behind
<1>4. t.req.op # "mark_superseded"
  BY DEF LoopOps, TextOps
<1>5. ASSUME NEW label \in Label \ {"insert", "commit", "session", "begin"},
             Counted(t, I, D, t.i - 1)
      PROVE  CountFits(label, t, I, D)
  BY <1>1, <1>3, <1>4, <1>5 DEF Counted, CountFits
<1>6. Counted(t, I, D, t.i) => CountFits("insert", t, I, D)
  BY <1>1, <1>3, <1>4 DEF Counted, CountFits, Label
<1>7. Counted(t, I, D, Len(t.req.items)) => CountFits("commit", t, I, D)
  BY <1>2, <1>3, <1>4 DEF Counted, CountFits
<1>8. ASSUME NEW label \in {"create", "lookup", "find", "find2", "stamp", "relate"},
             CountFits(label, t, I, D)
      PROVE  Counted(t, I, D, t.i - 1)
  <2>1. label \in Label \ {"insert", "commit"} /\ label \notin OutsideTx
    BY DEF Label, OutsideTx
  <2> QED
    BY <1>1, <1>3, <1>8, <2>1 DEF Counted, CountFits
<1>9. CountFits("insert", t, I, D) => Counted(t, I, D, t.i)
  BY <1>1, <1>3 DEF Counted, CountFits, OutsideTx, Label
<1>10. CountFits("commit", t, I, D) => Counted(t, I, D, Len(t.req.items))
  BY <1>2, <1>3 DEF Counted, CountFits, OutsideTx
<1> QED
  BY <1>5, <1>6, <1>7, <1>8, <1>9, <1>10

-------------------------------------------------------------------------------
(* Control. *)

LEMMA GotoWork ==
    ASSUME TypeOK, Work, NEW c \in Client, NEW label, NEW t,
           Goto(c, label, t), Undisturbed(c),
           WorkFits(label, t, ins'[c], del'[c], Visible(c)', (dead \cup del[c])'),
           CountFits(label, t, ins'[c], del'[c])
    PROVE  Work'
BY WorkStep DEF Goto

LEMMA ReplyWork ==
    ASSUME TypeOK, Work, NEW c \in Client, NEW answer, Reply(c, answer),
           Undisturbed(c), ins'[c] = {}, del'[c] = {}
    PROVE  Work'
<1>1. WorkFits("idle", NoTask, ins'[c], del'[c], Visible(c)', (dead \cup del[c])')
  BY DEF WorkFits, OutsideTx
<1>2. CountFits("idle", NoTask, ins'[c], del'[c])
  BY DEF CountFits, OutsideTx
<1> QED
  BY <1>1, <1>2, WorkStep DEF Reply

LEMMA AbortWork ==
    ASSUME TypeOK, Work, NEW c \in Client, NEW s, Abort(c, s)
    PROVE  Work'
BY EndEffect, ReplyWork DEF Abort, TypeOK

\* The loop goes on once item t.i is done.
LEMMA NextItemWork ==
    ASSUME TypeOK, Work, NEW c \in Client, NEW t, TaskTyped(t),
           NextItem(c, t), Undisturbed(c), t.i <= Len(t.req.items),
           OwnWork(t, ins'[c], del'[c]),
           \A k \in 1..t.i : ItemDone(t.req, k, del'[c], Visible(c)'),
           Counted(t, ins'[c], del'[c], t.i)
    PROVE  Work'
<1> DEFINE u == [t EXCEPT !.i = @ + 1, !.j = 1]
           first == FirstStep(t.req.op)
<1>0. t.req.op \in LoopOps /\ ~SessionOp(t.req) /\ t.req.op # "mark_superseded"
  BY DEF OwnWork, LoopOps, TextOps, SessionOp
<1>1. DOMAIN t.req.items = 1..Len(t.req.items) /\ Len(t.req.items) \in Nat
  <2>1. t.req.items \in Seq(NodeItem) \cup Seq(AddItem) \cup Seq(UpdateItem) \cup Seq(EdgeItem)
    BY RequestTyped DEF OwnWork, TaskTyped, LoopOps, TextOps
  <2> QED
    BY <2>1
<1>2. CASE t.i < Len(t.req.items)
  <2>1. Goto(c, first, u)
    BY <1>2 DEF NextItem
  <2>2. u.req = t.req /\ u.i = t.i + 1 /\ u.j = 1 /\ u.n = t.n
    BY DEF TaskTyped, NoTask
  <2>3. TaskTyped(u)
    BY DEF TaskTyped, NoTask
  <2>4. first \in {"create", "find"}
    BY <1>0 DEF FirstStep, SessionOp
  <2> HIDE DEF u, first
  <2>5. Behind(first, u) = 1..t.i
    BY <2>2, <2>4 DEF Behind, TaskTyped
  <2>6. LoopWork(first, u, ins'[c], del'[c], Visible(c)')
    <3>1. \A k \in Behind(first, u) : ItemDone(u.req, k, del'[c], Visible(c)')
      BY <2>2, <2>5
    <3>2. HereFits(first, u, del'[c], Visible(c)')
      BY <2>2, <2>4 DEF HereFits
    <3> QED
      BY <3>1, <3>2, <2>2 DEF LoopWork, OwnWork
  <2>7. WorkFits(first, u, ins'[c], del'[c], Visible(c)', (dead \cup del[c])')
    BY <1>0, <2>2, <2>4, <2>6 DEF WorkFits, OutsideTx, LinkFits, OwnWork
  <2>8. Counted(u, ins'[c], del'[c], u.i - 1)
    BY <2>2 DEF Counted, TaskTyped
  <2>9. CountFits(first, u, ins'[c], del'[c])
    BY <1>0, <2>2, <2>3, <2>4, <2>8, LoopCount DEF Label
  <2> QED
    BY <2>1, <2>7, <2>9, GotoWork
<1>3. CASE t.i >= Len(t.req.items)
  <2>1. Goto(c, "commit", t)
    BY <1>1, <1>3 DEF NextItem, TaskTyped
  <2>2. t.i = Len(t.req.items)
    BY <1>1, <1>3 DEF TaskTyped
  <2>3. LoopWork("commit", t, ins'[c], del'[c], Visible(c)')
    BY <1>1, <2>2 DEF LoopWork, OwnWork, Behind, HereFits
  <2>4. WorkFits("commit", t, ins'[c], del'[c], Visible(c)', (dead \cup del[c])')
    BY <1>0, <2>3 DEF WorkFits, OutsideTx, LinkFits, OwnWork
  <2>5. CountFits("commit", t, ins'[c], del'[c])
    BY <1>0, <2>2, LoopCount
  <2> QED
    BY <2>1, <2>4, <2>5, GotoWork
<1> QED
  BY <1>1, <1>2, <1>3 DEF TaskTyped

\* The texts before t.j of item t.i are in sight.
LEMMA NextTextWork ==
    ASSUME TypeOK, Work, NEW c \in Client, NEW t, TaskTyped(t),
           NextText(c, t), Undisturbed(c), t.i <= Len(t.req.items),
           OwnWork(t, ins'[c], del'[c]), t.req.op \in TextOps,
           Meant(t.req.op, Item(t), t.from),
           t.req.op = "create_nodes" => HasNode(Visible(c)', t.from),
           t.req.op = "update_observations" => Obs(t.from, Item(t).old) \in del'[c],
           \A m \in 1..(t.j - 1) : Obs(t.from, TextsOf(t.req.op, Item(t))[m]) \in Visible(c)',
           \A k \in 1..(t.i - 1) : ItemDone(t.req, k, del'[c], Visible(c)'),
           Counted(t, ins'[c], del'[c], t.i)
    PROVE  Work'
<1> DEFINE texts == TextsOf(t.req.op, Item(t))
<1>0. t.req.op \in LoopOps /\ ~SessionOp(t.req) /\ t.req.op # "mark_superseded"
  BY DEF LoopOps, TextOps, SessionOp
<1>1. texts \in Seq(Text)
  BY <1>0, ItemTyped DEF TaskTyped
<1>2. CASE t.j <= Len(texts)
  <2>1. Goto(c, "insert", t)
    BY <1>2 DEF NextText
  <2>2. LoopWork("insert", t, ins'[c], del'[c], Visible(c)')
    BY DEF LoopWork, OwnWork, Behind, HereFits
  <2>3. WorkFits("insert", t, ins'[c], del'[c], Visible(c)', (dead \cup del[c])')
    BY <1>0, <2>2 DEF WorkFits, OutsideTx, LinkFits, OwnWork
  <2>4. CountFits("insert", t, ins'[c], del'[c])
    BY <1>0, LoopCount
  <2> QED
    BY <2>1, <2>3, <2>4, GotoWork
<1>3. CASE ~(t.j <= Len(texts))
  <2>1. NextItem(c, t)
    BY <1>3 DEF NextText
  <2>2. \A m \in DOMAIN texts : m \in 1..(t.j - 1)
    BY <1>1, <1>3 DEF TaskTyped
  <2>3. Meant(t.req.op, t.req.items[t.i], t.from) /\ t.from \in NodeId
    BY DEF Meant, Item
  <2>4. ItemDone(t.req, t.i, del'[c], Visible(c)')
    BY <2>2, <2>3 DEF ItemDone, Item
  <2>5. \A k \in 1..t.i : ItemDone(t.req, k, del'[c], Visible(c)')
    <3>1. \A k \in 1..t.i : k = t.i \/ k \in 1..(t.i - 1)
      BY DEF TaskTyped
    <3> QED
      BY <2>4, <3>1
  <2> QED
    BY <2>1, <2>5, NextItemWork
<1> QED
  BY <1>2, <1>3

-------------------------------------------------------------------------------
(* The statements of the loops. *)

LEMMA KeyOfObs ==
    ASSUME NEW x \in Row, NEW id, NEW text, Key(x) = Key(Obs(id, text))
    PROVE  x = Obs(id, text)
<1>1. Key(x) = <<"observations", id, text>>
  BY DEF Key, Obs
<1>2. x \in ObsRow
  BY <1>1 DEF Key, Row, NodeRow, ObsRow, RelRow, SessRow
<1>3. x.node = id /\ x.text = text
  BY <1>1, <1>2 DEF Key, ObsRow
<1> QED
  BY <1>2, <1>3 DEF ObsRow, Obs

LEMMA KeyOfNode ==
    ASSUME NEW x \in Row, NEW p, NEW n, NEW s, Key(x) = Key(Node(p, n, s))
    PROVE  x.tab = "nodes" /\ IdOf(x) = [project |-> p, name |-> n]
<1>1. Key(x) = <<"nodes", p, n>>
  BY DEF Key, Node
<1>2. x \in NodeRow
  BY <1>1 DEF Key, Row, NodeRow, ObsRow, RelRow, SessRow
<1> QED
  BY <1>1, <1>2 DEF Key, NodeRow, IdOf

LEMMA ItemStaysDone ==
    ASSUME NEW req, NEW k, NEW D, NEW seen, NEW more, NEW wider,
           ItemDone(req, k, D, seen), D \subseteq wider, seen \subseteq more
    PROVE  ItemDone(req, k, wider, more)
BY DEF ItemDone, HasNode

\* What the invariant says of a handler that is in one of its loops.
LEMMA InLoop ==
    ASSUME TypeOK, Work, NEW c \in Client, pc[c] \in ItemLabels,
           task[c].req.op \in LoopOps
    PROVE  LET t == task[c]
           IN /\ TaskFits(pc[c], t) /\ TaskTyped(t)
              /\ t.i <= Len(t.req.items) /\ t.i \in DOMAIN t.req.items
              /\ OwnWork(t, ins[c], del[c])
              /\ \A k \in 1..(t.i - 1) : ItemDone(t.req, k, del[c], Visible(c))
              /\ HereFits(pc[c], t, del[c], Visible(c))
              /\ LinkFits(pc[c], t)
              /\ CountFits(pc[c], t, ins[c], del[c])
<1> DEFINE t == task[c]
<1>1. TaskFits(pc[c], t) /\ TaskTyped(t) /\ t.i <= Len(t.req.items)
  BY TaskOf DEF TaskFits, ItemLabels
<1>2. pc[c] \notin OutsideTx /\ pc[c] # "commit"
  BY DEF ItemLabels, OutsideTx
<1>3. /\ WorkFits(pc[c], t, ins[c], del[c], Visible(c), dead \cup del[c])
      /\ CountFits(pc[c], t, ins[c], del[c])
  BY DEF Work
<1>4. /\ LoopWork(pc[c], t, ins[c], del[c], Visible(c)) /\ LinkFits(pc[c], t)
      /\ \E r \in Request : t.req = Scrubbed(r)
  BY <1>2, <1>3 DEF WorkFits, OutsideTx
<1>5. t.i \in DOMAIN t.req.items
  <2>1. t.req.items \in Seq(NodeItem) \cup Seq(AddItem) \cup Seq(UpdateItem) \cup Seq(EdgeItem)
    BY <1>1, RequestTyped DEF TaskTyped, LoopOps, TextOps
  <2> QED
    BY <1>1, <2>1 DEF TaskTyped
<1> QED
  BY <1>1, <1>2, <1>3, <1>4, <1>5 DEF LoopWork, OwnWork, Behind

LEMMA CreateWork ==
    ASSUME TypeOK, Work, NEW c \in Client, Create(c)
    PROVE  Work'
<1> DEFINE t   == task[c]
           row == Node(Item(t).project, Item(t).name, t.req.session)
           u   == [t EXCEPT !.from = IdOf(row), !.nodes = @ + 1]
<1>1. /\ pc[c] = "create" /\ t.req.op = "create_nodes" /\ TaskFits("create", t)
      /\ StoreTypeOK
  BY TaskOf DEF Create, TaskFits, OpsAt
<1>2. /\ TaskTyped(t) /\ t.i <= Len(t.req.items) /\ t.i \in DOMAIN t.req.items
      /\ OwnWork(t, ins[c], del[c]) /\ t.j = 1
      /\ \A k \in 1..(t.i - 1) : ItemDone(t.req, k, del[c], Visible(c))
      /\ CountFits("create", t, ins[c], del[c])
  BY <1>1, InLoop DEF ItemLabels, LoopOps, TextOps, HereFits
<1>3. Item(t) \in NodeItem /\ t.req.session \in Session \cup {None}
  BY <1>1, <1>2, ItemTyped, RequestTyped DEF TaskTyped, SessionOp
<1>4. row \in Row /\ row.tab = "nodes"
      /\ IdOf(row) = [project |-> Item(t).project, name |-> Item(t).name]
  BY <1>3, NodeTyped DEF NodeItem, Node, IdOf
<1>5. InsertRow(c, row)
  BY DEF Create
<1>6. Asked(t.req, t.i, row)
  BY <1>1 DEF Asked, TextOps, Item
<1>7. Item(t).project \in Project /\ Item(t).name \in Name
  BY <1>3 DEF NodeItem
<1> HIDE DEF row
<1>8. /\ Undisturbed(c) /\ del'[c] = del[c] /\ dead' = dead
      /\ ins'[c] = IF Taken(c, Key(row)) THEN ins[c] ELSE ins[c] \cup {row}
      /\ Visible(c) \subseteq Visible(c)'
      /\ \E x \in Visible(c)' : Key(x) = Key(row)
  BY <1>1, <1>4, <1>5, InsertEffect
<1>9. \A k \in 1..(t.i - 1) : ItemDone(t.req, k, del'[c], Visible(c)')
  BY <1>2, <1>8, ItemStaysDone
<1>10. OwnWork(t, ins'[c], del'[c])
  BY <1>2, <1>6, <1>8 DEF OwnWork
<1>11. {r \in ins'[c] : r.tab = "observations"} = {r \in ins[c] : r.tab = "observations"}
  BY <1>4, <1>8
<1>12. Counted(t, ins'[c], del'[c], t.i - 1) /\ Counted(t, ins'[c], del'[c], t.i)
  <2>1. Counted(t, ins[c], del[c], t.i - 1)
    BY <1>1, <1>2, LoopCount DEF LoopOps, TextOps
  <2> QED
    BY <1>1, <1>11, <2>1 DEF Counted
<1>13. CASE Taken(c, Key(row))
  <2>1. Goto(c, "lookup", t)
    BY <1>13 DEF Create, row
  <2>2. LoopWork("lookup", t, ins'[c], del'[c], Visible(c)')
    BY <1>2, <1>9, <1>10 DEF LoopWork, OwnWork, Behind, HereFits
  <2>3. WorkFits("lookup", t, ins'[c], del'[c], Visible(c)', (dead \cup del[c])')
    BY <1>1, <1>10, <2>2 DEF WorkFits, OutsideTx, LinkFits, OwnWork, SessionOp
  <2>4. CountFits("lookup", t, ins'[c], del'[c])
    BY <1>1, <1>2, <1>12, LoopCount DEF LoopOps, TextOps, Label
  <2> QED
    BY <1>8, <2>1, <2>3, <2>4, GotoWork
<1>14. CASE ~Taken(c, Key(row))
  <2>1. NextText(c, u)
    BY <1>14 DEF Create, row
  <2>2. /\ u.req = t.req /\ u.i = t.i /\ u.j = 1 /\ u.n = t.n /\ u.from = IdOf(row)
        /\ TaskTyped(u) /\ Item(u) = Item(t)
    BY <1>2 DEF TaskTyped, NoTask, Item
  <2> HIDE DEF u
  <2>3. HasNode(Visible(c)', u.from)
    <3>1. row \in Visible(c)'
      BY <1>8, <1>14 DEF Visible
    <3> QED
      BY <1>4, <2>2, <3>1 DEF HasNode
  <2>4. Meant(u.req.op, Item(u), u.from)
    BY <1>4, <1>7, <2>2 DEF Meant, NodeId
  <2>5. OwnWork(u, ins'[c], del'[c]) /\ Counted(u, ins'[c], del'[c], u.i)
    BY <1>10, <1>12, <2>2 DEF OwnWork, Counted
  <2> QED
    BY <1>1, <1>2, <1>8, <1>9, <2>1, <2>2, <2>3, <2>4, <2>5, NextTextWork DEF TextOps
<1> QED
  BY <1>13, <1>14

LEMMA LookupExistingWork ==
    ASSUME TypeOK, Work, NEW c \in Client, LookupExisting(c)
    PROVE  Work'
<1> DEFINE t  == task[c]
           id == [project |-> Item(t).project, name |-> Item(t).name]
           u  == [t EXCEPT !.from = id, !.nodes = @ + 1]
<1>1. /\ pc[c] = "lookup" /\ t.req.op = "create_nodes" /\ TaskFits("lookup", t)
  BY TaskOf DEF LookupExisting, TaskFits, OpsAt
<1>2. /\ TaskTyped(t) /\ t.i <= Len(t.req.items)
      /\ OwnWork(t, ins[c], del[c]) /\ t.j = 1
      /\ \A k \in 1..(t.i - 1) : ItemDone(t.req, k, del[c], Visible(c))
      /\ CountFits("lookup", t, ins[c], del[c])
  BY <1>1, InLoop DEF ItemLabels, LoopOps, TextOps, HereFits
<1>3. Item(t) \in NodeItem
  BY <1>1, <1>2, ItemTyped DEF TaskTyped, SessionOp
<1>4. CASE Abort(c, "error")
  BY <1>4, AbortWork
<1>5. CASE /\ \E r \in Live(c) : r.tab = "nodes" /\ IdOf(r) = id
           /\ NextText(c, u) /\ UNCHANGED storeVars
  <2>1. /\ u.req = t.req /\ u.i = t.i /\ u.j = 1 /\ u.n = t.n /\ u.from = id
        /\ TaskTyped(u) /\ Item(u) = Item(t)
    BY <1>2 DEF TaskTyped, NoTask, Item
  <2>2. HasNode(Visible(c), id)
    BY <1>5 DEF HasNode, Live
  <2>3. Meant(t.req.op, Item(t), id)
    BY <1>3 DEF Meant, NodeId, NodeItem
  <2>4. Counted(t, ins[c], del[c], t.i - 1)
    BY <1>1, <1>2, LoopCount DEF LoopOps, TextOps
  <2> HIDE DEF id, u
  <2>5. /\ Undisturbed(c) /\ ins'[c] = ins[c] /\ del'[c] = del[c]
        /\ Visible(c)' = Visible(c)
    BY <1>5, NoEffect
  <2>6. OwnWork(u, ins'[c], del'[c]) /\ Counted(u, ins'[c], del'[c], u.i)
    BY <1>1, <1>2, <2>1, <2>4, <2>5 DEF OwnWork, Counted
  <2> QED
    BY <1>1, <1>2, <1>5, <2>1, <2>2, <2>3, <2>5, <2>6, NextTextWork DEF TextOps
<1> QED
  BY <1>4, <1>5 DEF LookupExisting

LEMMA ResolvedName ==
    ASSUME StoreTypeOK, NEW c \in Client, NEW n, Homonyms(c, n) # {}
    PROVE  LET id == FirstHomonym(Homonyms(c, n))
           IN id \in NodeId /\ id.name = n
<1>1. Homonyms(c, n) \subseteq NodeRow
  BY RowOfTable DEF Homonyms, Live, Visible, StoreTypeOK
<1>2. PICK r \in Homonyms(c, n) : FirstHomonym(Homonyms(c, n)) = IdOf(r)
  BY <1>1, FirstHomonymIsOne
<1>3. r \in NodeRow /\ r.name = n
  BY <1>1 DEF Homonyms
<1>4. IdOf(r) \in NodeId /\ IdOf(r).name = n
  BY <1>3 DEF NodeRow, IdOf, NodeId
<1> QED
  BY <1>2, <1>4

\* What the invariant says of a mark_superseded that is under way.
LEMMA InSupersede ==
    ASSUME TypeOK, Work, NEW c \in Client, pc[c] \in ItemLabels,
           task[c].req.op = "mark_superseded"
    PROVE  LET t == task[c]
           IN /\ TaskFits(pc[c], t) /\ TaskTyped(t)
              /\ t.i = 1 /\ Len(t.req.items) = 1 /\ Item(t) \in Supersedes
              /\ t.req.archive \in BOOLEAN
              /\ \E r \in Request : t.req = Scrubbed(r)
              /\ SupersedeWork(pc[c], t, ins[c], del[c])
              /\ LinkFits(pc[c], t)
              /\ t.n = Cardinality(del[c])
<1> DEFINE t == task[c]
<1>1. TaskFits(pc[c], t) /\ TaskTyped(t) /\ t.i <= Len(t.req.items)
  BY TaskOf DEF TaskFits, ItemLabels
<1>2. pc[c] \notin OutsideTx
  BY DEF ItemLabels, OutsideTx
<1>3. /\ WorkFits(pc[c], t, ins[c], del[c], Visible(c), dead \cup del[c])
      /\ CountFits(pc[c], t, ins[c], del[c])
  BY DEF Work
<1>4. Len(t.req.items) = 1 /\ t.i = 1 /\ t.req.archive \in BOOLEAN
  <2>1. t.req \in RequestType /\ t.i \in Nat \ {0}
    BY <1>1 DEF TaskTyped
  <2>2. Len(t.req.items) = 1 /\ t.req.archive \in BOOLEAN
    BY <2>1, RequestTyped
  <2> QED
    BY <1>1, <2>1, <2>2
<1>5. Item(t) \in Supersedes
  BY <1>1, ItemTyped DEF TaskTyped, SessionOp
<1> QED
  BY <1>1, <1>2, <1>3, <1>4, <1>5 DEF WorkFits, CountFits, OutsideTx

\* The work of a mark_superseded that has not inserted its relation yet.
LEMMA SupersedeUntouched ==
    ASSUME NEW label \in {"find", "find2", "relate"}, NEW t, NEW seen, NEW gone,
           t.req.op = "mark_superseded", \E r \in Request : t.req = Scrubbed(r),
           LinkFits(label, t), t.n = Cardinality({})
    PROVE  WorkFits(label, t, {}, {}, seen, gone) /\ CountFits(label, t, {}, {})
BY DEF WorkFits, CountFits, OutsideTx, SupersedeWork, LoopOps, TextOps, SessionOp

LEMMA FindNodeWork ==
    ASSUME TypeOK, Work, NEW c \in Client, FindNode(c)
    PROVE  Work'
<1> DEFINE t  == task[c]
           op == t.req.op
           nm == CASE op = "create_relations" -> Item(t).from
                   [] op = "mark_superseded"  -> Item(t).to
                   [] OTHER                   -> Item(t).name
           id == FirstHomonym(Homonyms(c, nm))
<1>1. /\ pc[c] = "find" /\ pc[c] \in ItemLabels /\ StoreTypeOK
      /\ op \in {"add_observations", "update_observations",
                 "create_relations", "mark_superseded"}
  BY TaskOf DEF FindNode, TaskFits, OpsAt, ItemLabels
<1>2. CASE Homonyms(c, nm) = {}
  <2>1. Abort(c, "rejected")
    BY <1>2 DEF FindNode
  <2> QED
    BY <2>1, AbortWork
<1>3. CASE Homonyms(c, nm) # {}
  <2>1. /\ Undisturbed(c) /\ ins'[c] = ins[c] /\ del'[c] = del[c]
        /\ Visible(c)' = Visible(c)
    BY <1>3, NoEffect DEF FindNode
  <2> HIDE DEF nm
  <2>2. id \in NodeId /\ id.name = nm
    BY <1>1, <1>3, ResolvedName
  <2> USE DEF nm
  <2> HIDE DEF id
  <2>3. CASE op = "mark_superseded"
    <3> DEFINE u == [t EXCEPT !.to = id]
    <3>1. Goto(c, "find2", u)
      BY <1>3, <2>3 DEF FindNode, id
    <3>2. /\ TaskTyped(t) /\ ins[c] = {} /\ del[c] = {} /\ t.n = Cardinality(del[c])
          /\ \E r \in Request : t.req = Scrubbed(r)
      BY <1>1, <2>3, InSupersede DEF SupersedeWork
    <3>3. u.req = t.req /\ u.n = t.n /\ u.to = id /\ Item(u) = Item(t)
      BY <3>2 DEF TaskTyped, NoTask, Item
    <3> HIDE DEF u
    <3>4. LinkFits("find2", u)
      BY <2>2, <2>3, <3>3 DEF LinkFits
    <3> QED
      BY <2>1, <2>3, <3>1, <3>2, <3>3, <3>4, SupersedeUntouched, GotoWork
  <2>4. CASE op # "mark_superseded"
    <3>0. op \in LoopOps
      BY <1>1, <2>4 DEF LoopOps, TextOps
    <3>1. /\ TaskTyped(t) /\ t.i <= Len(t.req.items)
          /\ OwnWork(t, ins[c], del[c]) /\ t.j = 1
          /\ \A k \in 1..(t.i - 1) : ItemDone(t.req, k, del[c], Visible(c))
          /\ Counted(t, ins[c], del[c], t.i - 1)
      BY <1>1, <3>0, InLoop, LoopCount DEF HereFits
    <3> DEFINE u == [t EXCEPT !.from = id]
    <3>2. /\ u.req = t.req /\ u.i = t.i /\ u.j = 1 /\ u.n = t.n /\ u.from = id
          /\ TaskTyped(u) /\ Item(u) = Item(t)
      BY <3>1 DEF TaskTyped, NoTask, Item
    <3>3. \/ op = "add_observations" /\ NextText(c, u)
          \/ op = "update_observations" /\ Goto(c, "stamp", u)
          \/ op = "create_relations" /\ Goto(c, "find2", u)
      BY <1>1, <1>3, <2>4 DEF FindNode, id
    <3> HIDE DEF u
    <3>4. OwnWork(u, ins'[c], del'[c]) /\ Counted(u, ins'[c], del'[c], u.i - 1)
      BY <2>1, <3>1, <3>2 DEF OwnWork, Counted
    <3>5. op # "create_relations" => Meant(op, Item(u), id)
      BY <1>1, <2>2, <2>4, <3>2 DEF Meant
    <3>6. CASE op = "add_observations" /\ NextText(c, u)
      <4>1. Counted(u, ins'[c], del'[c], u.i)
        BY <3>2, <3>4, <3>6 DEF Counted
      <4> QED
        BY <2>1, <3>1, <3>2, <3>4, <3>5, <3>6, <4>1, NextTextWork DEF TextOps
    <3>7. CASE op \in {"update_observations", "create_relations"}
      <4> DEFINE label == IF op = "update_observations" THEN "stamp" ELSE "find2"
      <4>1. Goto(c, label, u)
        BY <3>3, <3>7
      <4>2. HereFits(label, u, del'[c], Visible(c)')
        BY <3>2, <3>5, <3>7 DEF HereFits
      <4>3. LinkFits(label, u)
        BY <2>2, <3>2, <3>7 DEF LinkFits
      <4>4. Behind(label, u) = 1..(t.i - 1)
        BY <3>2 DEF Behind
      <4>5. LoopWork(label, u, ins'[c], del'[c], Visible(c)')
        BY <2>1, <3>1, <3>2, <3>4, <4>2, <4>4 DEF LoopWork, OwnWork
      <4>6. WorkFits(label, u, ins'[c], del'[c], Visible(c)', (dead \cup del[c])')
        BY <3>2, <3>4, <3>7, <4>3, <4>5 DEF WorkFits, OutsideTx, OwnWork, SessionOp
      <4>7. CountFits(label, u, ins'[c], del'[c])
        BY <3>0, <3>2, <3>4, LoopCount DEF Label
      <4> HIDE DEF label
      <4> QED
        BY <2>1, <4>1, <4>6, <4>7, GotoWork
    <3> QED
      BY <3>3, <3>6, <3>7
  <2> QED
    BY <2>3, <2>4
<1> QED
  BY <1>2, <1>3

LEMMA FindOtherWork ==
    ASSUME TypeOK, Work, NEW c \in Client, FindOther(c)
    PROVE  Work'
<1> DEFINE t  == task[c]
           op == t.req.op
           nm == IF t.req.op = "create_relations" THEN Item(t).to
                 ELSE Item(t).from
           id == FirstHomonym(Homonyms(c, nm))
<1>1. /\ pc[c] = "find2" /\ pc[c] \in ItemLabels /\ StoreTypeOK
      /\ op \in {"create_relations", "mark_superseded"}
  BY TaskOf DEF FindOther, TaskFits, OpsAt, ItemLabels
<1>2. CASE Homonyms(c, nm) = {}
  <2>1. Abort(c, "rejected")
    BY <1>2 DEF FindOther
  <2> QED
    BY <2>1, AbortWork
<1>3. CASE Homonyms(c, nm) # {}
  <2>1. /\ Undisturbed(c) /\ ins'[c] = ins[c] /\ del'[c] = del[c]
        /\ Visible(c)' = Visible(c)
    BY <1>3, NoEffect DEF FindOther
  <2> HIDE DEF nm
  <2>2. id \in NodeId /\ id.name = nm
    BY <1>1, <1>3, ResolvedName
  <2> USE DEF nm
  <2> HIDE DEF id
  <2>3. CASE op = "mark_superseded"
    <3> DEFINE u == [t EXCEPT !.from = id]
    <3>1. Goto(c, "relate", u)
      BY <1>3, <2>3 DEF FindOther, id
    <3>2. /\ TaskTyped(t) /\ ins[c] = {} /\ del[c] = {} /\ t.n = Cardinality(del[c])
          /\ \E r \in Request : t.req = Scrubbed(r)
          /\ t.to.name = Item(t).to
      BY <1>1, <2>3, InSupersede DEF SupersedeWork, LinkFits
    <3>3. u.req = t.req /\ u.n = t.n /\ u.from = id /\ u.to = t.to /\ Item(u) = Item(t)
      BY <3>2 DEF TaskTyped, NoTask, Item
    <3> HIDE DEF u
    <3>4. LinkFits("relate", u)
      BY <2>2, <2>3, <3>2, <3>3 DEF LinkFits
    <3> QED
      BY <2>1, <2>3, <3>1, <3>2, <3>3, <3>4, SupersedeUntouched, GotoWork
  <2>4. CASE op = "create_relations"
    <3>0. op \in LoopOps
      BY <2>4 DEF LoopOps
    <3>1. /\ TaskTyped(t) /\ t.i <= Len(t.req.items)
          /\ OwnWork(t, ins[c], del[c])
          /\ \A k \in 1..(t.i - 1) : ItemDone(t.req, k, del[c], Visible(c))
          /\ Counted(t, ins[c], del[c], t.i - 1)
          /\ t.from.name = Item(t).from
      BY <1>1, <2>4, <3>0, InLoop, LoopCount DEF LinkFits
    <3> DEFINE u == [t EXCEPT !.to = id]
    <3>2. /\ u.req = t.req /\ u.i = t.i /\ u.n = t.n /\ u.from = t.from /\ u.to = id
          /\ TaskTyped(u) /\ Item(u) = Item(t)
      BY <3>1 DEF TaskTyped, NoTask, Item
    <3>3. Goto(c, "relate", u)
      BY <1>3, <2>4 DEF FindOther, id
    <3> HIDE DEF u
    <3>4. OwnWork(u, ins'[c], del'[c]) /\ Counted(u, ins'[c], del'[c], u.i - 1)
      BY <2>1, <3>1, <3>2 DEF OwnWork, Counted
    <3>5. HereFits("relate", u, del'[c], Visible(c)') /\ Behind("relate", u) = 1..(t.i - 1)
      BY <3>2 DEF HereFits, Behind
    <3>6. LinkFits("relate", u)
      BY <2>2, <2>4, <3>1, <3>2 DEF LinkFits
    <3>7. LoopWork("relate", u, ins'[c], del'[c], Visible(c)')
      BY <2>1, <3>1, <3>2, <3>4, <3>5 DEF LoopWork, OwnWork
    <3>8. WorkFits("relate", u, ins'[c], del'[c], Visible(c)', (dead \cup del[c])')
      BY <2>4, <3>2, <3>4, <3>6, <3>7 DEF WorkFits, OutsideTx, OwnWork, SessionOp
    <3>9. CountFits("relate", u, ins'[c], del'[c])
      BY <3>0, <3>2, <3>4, LoopCount DEF Label
    <3> QED
      BY <2>1, <3>3, <3>8, <3>9, GotoWork
  <2> QED
    BY <1>1, <2>3, <2>4
<1> QED
  BY <1>2, <1>3
RowsOf(tab, S) == {r \in S : r.tab = tab}

LEMMA OneMore ==
    ASSUME NEW S, IsFiniteSet(S), NEW x, NEW tab
    PROVE  /\ IsFiniteSet(RowsOf(tab, S)) /\ Cardinality(RowsOf(tab, S)) \in Nat
           /\ x \notin S /\ x.tab = tab =>
                 Cardinality(RowsOf(tab, S \cup {x})) = Cardinality(RowsOf(tab, S)) + 1
           /\ x.tab # tab => RowsOf(tab, S \cup {x}) = RowsOf(tab, S)
<1> DEFINE old == RowsOf(tab, S)
           new == RowsOf(tab, S \cup {x})
<1>1. IsFiniteSet(old) /\ Cardinality(old) \in Nat
  BY FS_Subset, FS_CardinalityType DEF RowsOf
<1>2. x.tab = tab => new = old \cup {x}
  BY DEF RowsOf
<1>3. x.tab # tab => new = old
  BY DEF RowsOf
<1>4. x \notin S => x \notin old
  BY DEF RowsOf
<1> HIDE DEF old, new
<1>5. x \notin old => Cardinality(old \cup {x}) = Cardinality(old) + 1
  BY <1>1, FS_AddElement
<1> QED
  BY <1>1, <1>2, <1>3, <1>4, <1>5 DEF old, new

LEMMA FiniteWork ==
    ASSUME StoreTypeOK, NEW c \in Client
    PROVE  IsFiniteSet(ins[c]) /\ IsFiniteSet(del[c])
<1>1. IsFiniteSet(rows \cup ins[c])
  BY FS_Union DEF StoreTypeOK
<1>2. del[c] \subseteq rows \cup ins[c]
  BY DEF StoreTypeOK, Visible
<1> QED
  BY <1>1, <1>2, FS_Subset DEF StoreTypeOK

LEMMA InsertObservationWork ==
    ASSUME TypeOK, TargetsExist, Work, NEW c \in Client, InsertObservation(c)
    PROVE  Work'
<1> DEFINE t     == task[c]
           texts == TextsOf(t.req.op, Item(t))
           row   == Obs(t.from, texts[t.j])
           taken == Taken(c, Key(row))
           u     == [t EXCEPT !.j = @ + 1, !.n = IF taken THEN @ ELSE @ + 1]
<1>1. /\ pc[c] = "insert" /\ pc[c] \in ItemLabels /\ StoreTypeOK
      /\ TaskFits("insert", t) /\ t.req.op \in TextOps /\ t.req.op \in LoopOps
  BY TaskOf DEF InsertObservation, TaskFits, OpsAt, ItemLabels, TextOps, LoopOps
<1>2. /\ TaskTyped(t) /\ t.i <= Len(t.req.items) /\ t.i \in DOMAIN t.req.items
      /\ OwnWork(t, ins[c], del[c])
      /\ \A k \in 1..(t.i - 1) : ItemDone(t.req, k, del[c], Visible(c))
      /\ HereFits("insert", t, del[c], Visible(c))
      /\ CountFits("insert", t, ins[c], del[c])
  BY <1>1, InLoop
<1>3. Counted(t, ins[c], del[c], t.i)
  BY <1>1, <1>2, LoopCount
<1>4. /\ Meant(t.req.op, Item(t), t.from) /\ t.from \in NodeId
      /\ \A m \in 1..(t.j - 1) : Obs(t.from, texts[m]) \in Visible(c)
      /\ t.req.op = "update_observations" => Obs(t.from, Item(t).old) \in del[c]
  BY <1>2 DEF HereFits, Meant
<1>5. texts \in Seq(Text) /\ t.j \in DOMAIN texts /\ t.j \in Nat \ {0}
  <2>1. texts \in Seq(Text)
    BY <1>1, <1>2, ItemTyped DEF TaskTyped, TextOps, SessionOp
  <2>2. t.j <= Len(texts) /\ t.j \in Nat \ {0}
    BY <1>1 DEF TaskFits, TaskTyped
  <2> QED
    BY <2>1, <2>2
<1>6. InsertRow(c, row) /\ NextText(c, u)
  BY DEF InsertObservation
<1>7. row \in Row /\ row.tab = "observations"
  BY <1>4, <1>5, ObsTyped DEF Obs
<1>8. Asked(t.req, t.i, row)
  BY <1>1, <1>4, <1>5 DEF Asked, Item
<1>9. /\ u.req = t.req /\ u.i = t.i /\ u.j = t.j + 1 /\ u.from = t.from
      /\ u.n = (IF taken THEN t.n ELSE t.n + 1)
      /\ TaskTyped(u) /\ Item(u) = Item(t)
  BY <1>2 DEF TaskTyped, NoTask, Item
<1>10. \A x \in Row : Key(x) = Key(row) => x = row
  BY KeyOfObs
<1> HIDE DEF row, u
<1>11. /\ Undisturbed(c) /\ del'[c] = del[c]
       /\ ins'[c] = IF taken THEN ins[c] ELSE ins[c] \cup {row}
       /\ Visible(c) \subseteq Visible(c)'
       /\ \E x \in Visible(c)' : Key(x) = Key(row)
  BY <1>1, <1>6, <1>7, InsertEffect
<1>12. row \in Visible(c)'
  <2>1. StoreTypeOK'
    BY <1>1, <1>6, <1>7, InsertRowType
  <2>2. Visible(c)' \subseteq Row
    BY <2>1 DEF StoreTypeOK, Visible
  <2> QED
    BY <1>10, <1>11, <2>2
<1>13. \A m \in 1..(u.j - 1) : Obs(u.from, TextsOf(u.req.op, Item(u))[m]) \in Visible(c)'
  <2>1. \A m \in 1..(u.j - 1) : m = t.j \/ m \in 1..(t.j - 1)
    BY <1>5, <1>9
  <2> QED
    BY <1>4, <1>9, <1>11, <1>12, <2>1 DEF row
<1>14. \A k \in 1..(t.i - 1) : ItemDone(t.req, k, del'[c], Visible(c)')
  BY <1>2, <1>11, ItemStaysDone
<1>15. OwnWork(u, ins'[c], del'[c])
  BY <1>2, <1>8, <1>9, <1>11 DEF OwnWork
<1>16. Counted(u, ins'[c], del'[c], u.i)
  <2> DEFINE before == Cardinality(RowsOf("observations", ins[c]))
             after  == Cardinality(RowsOf("observations", ins'[c]))
  <2>1. before \in Nat /\ after = before + (IF taken THEN 0 ELSE 1)
    <3>1. IsFiniteSet(ins[c])
      BY <1>1, FiniteWork
    <3>2. before \in Nat
      BY <3>1, OneMore
    <3>3. CASE taken
      BY <1>11, <3>2, <3>3
    <3>4. CASE ~taken
      <4>1. row \notin ins[c]
        BY <3>4 DEF Taken, Visible
      <4>2. Cardinality(RowsOf("observations", ins[c] \cup {row})) = before + 1
        BY <1>7, <3>1, <4>1, OneMore
      <4> QED
        BY <1>11, <3>2, <3>4, <4>2
    <3> QED
      BY <3>3, <3>4
  <2>2. t.req.op \in {"create_nodes", "add_observations"} => t.n = before
    BY <1>3 DEF Counted, RowsOf
  <2>3. t.req.op \in {"create_nodes", "add_observations"} => u.n = after
    BY <1>9, <2>1, <2>2
  <2> QED
    BY <1>1, <1>3, <1>9, <1>11, <2>3 DEF Counted, TextOps, RowsOf
<1>17. t.req.op = "create_nodes" => HasNode(Visible(c)', u.from)
  <2>1. ASSUME t.req.op = "create_nodes" PROVE HasNode(Visible(c), t.from)
    BY <1>1 DEF TargetsExist, TargetsFit
  <2> QED
    BY <1>9, <1>11, <2>1 DEF HasNode
<1> QED
  BY <1>1, <1>2, <1>4, <1>6, <1>9, <1>11, <1>13, <1>14, <1>15, <1>16, <1>17, NextTextWork

LEMMA MarkObservationDeletedWork ==
    ASSUME TypeOK, Work, NEW c \in Client, MarkObservationDeleted(c)
    PROVE  Work'
<1> DEFINE t   == task[c]
           row == Obs(t.from, Item(t).old)
<1>1. /\ pc[c] = "stamp" /\ pc[c] \in ItemLabels /\ StoreTypeOK
      /\ t.req.op = "update_observations" /\ t.req.op \in LoopOps
  BY TaskOf DEF MarkObservationDeleted, TaskFits, OpsAt, ItemLabels, TextOps, LoopOps
<1>2. /\ TaskTyped(t) /\ t.i \in DOMAIN t.req.items /\ t.i \in Nat \ {0}
      /\ OwnWork(t, ins[c], del[c]) /\ t.j = 1
      /\ \A k \in 1..(t.i - 1) : ItemDone(t.req, k, del[c], Visible(c))
      /\ Meant(t.req.op, Item(t), t.from) /\ t.from \in NodeId
      /\ Counted(t, ins[c], del[c], t.i - 1)
  BY <1>1, InLoop, LoopCount DEF HereFits, Meant, TaskTyped
<1>3. CASE Abort(c, "rejected")
  BY <1>3, AbortWork
<1>4. CASE row \in Live(c) /\ StampRow(c, row) /\ Goto(c, "insert", t)
  <2>1. /\ Undisturbed(c) /\ ins'[c] = ins[c] /\ Visible(c)' = Visible(c)
        /\ del'[c] = del[c] \cup {row} /\ row \notin del[c]
    BY <1>1, <1>4, StampEffect DEF Live
  <2>2. OwnWork(t, ins'[c], del'[c])
    BY <1>1, <1>2, <2>1 DEF OwnWork, Item
  <2>3. \A k \in 1..(t.i - 1) : ItemDone(t.req, k, del'[c], Visible(c)')
    BY <1>2, <2>1, ItemStaysDone
  <2>4. HereFits("insert", t, del'[c], Visible(c)')
    BY <1>2, <2>1 DEF HereFits
  <2>5. LoopWork("insert", t, ins'[c], del'[c], Visible(c)')
    BY <2>2, <2>3, <2>4 DEF LoopWork, OwnWork, Behind
  <2>6. WorkFits("insert", t, ins'[c], del'[c], Visible(c)', (dead \cup del[c])')
    BY <1>1, <2>2, <2>5 DEF WorkFits, OutsideTx, LinkFits, OwnWork, SessionOp
  <2>7. Cardinality(del'[c]) = t.i
    <3>1. Cardinality(del[c]) = t.i - 1
      BY <1>1, <1>2 DEF Counted
    <3> HIDE DEF row
    <3>2. IsFiniteSet(del[c])
      BY <1>1, FiniteWork
    <3>3. Cardinality(del[c] \cup {row}) = Cardinality(del[c]) + 1
      BY <2>1, <3>2, FS_AddElement
    <3> QED
      BY <1>2, <2>1, <3>1, <3>3
  <2>8. Counted(t, ins'[c], del'[c], t.i)
    BY <1>1, <2>7 DEF Counted
  <2>9. CountFits("insert", t, ins'[c], del'[c])
    BY <1>1, <1>2, <2>8, LoopCount
  <2> QED
    BY <1>4, <2>1, <2>6, <2>9, GotoWork
<1> QED
  BY <1>3, <1>4 DEF MarkObservationDeleted

\* The row that passes the checks of Relate is one the item stands for.
LEMMA RelateEdge ==
    ASSUME NEW t, t.from \in NodeId, t.to \in NodeId, ~CrossProject(t),
           t.from.name = Item(t).from, t.to.name = Item(t).to
    PROVE  Rel(t.from, t.to, Item(t).type, t.from.project) \in Promise!Edges(Item(t))
<1> DEFINE p == t.from.project
<1>1. p \in Project /\ t.to.project = p /\ Item(t).project \in {None, p}
  BY DEF CrossProject, NodeId
<1>2. /\ t.from = [project |-> p, name |-> Item(t).from]
      /\ t.to = [project |-> p, name |-> Item(t).to]
  BY <1>1 DEF NodeId
<1> HIDE DEF p
<1> QED
  BY <1>1, <1>2 DEF Promise!Edges, Promise!Rel, Rel, p

LEMMA RelateWork ==
    ASSUME TypeOK, Work, NEW c \in Client, Relate(c)
    PROVE  Work'
<1> DEFINE t     == task[c]
           row   == Rel(t.from, t.to, Item(t).type, t.from.project)
           taken == Taken(c, Key(row))
           u     == [t EXCEPT !.n = IF taken THEN @ ELSE @ + 1]
<1>1. /\ pc[c] = "relate" /\ pc[c] \in ItemLabels /\ StoreTypeOK
      /\ TaskFits("relate", t) /\ t.from \in NodeId /\ t.to \in NodeId
      /\ t.req.op \in {"create_relations", "mark_superseded"}
  BY TaskOf DEF Relate, TaskFits, OpsAt, ItemLabels
<1>2. CASE Abort(c, "rejected")
  BY <1>2, AbortWork
<1>3. ASSUME ~CrossProject(t), InsertRow(c, row)
      PROVE  /\ row \in Row /\ row.tab = "relations" /\ row.to = t.to
             /\ Undisturbed(c) /\ del'[c] = del[c]
             /\ ins'[c] = IF taken THEN ins[c] ELSE ins[c] \cup {row}
             /\ Visible(c) \subseteq Visible(c)'
             /\ \E x \in Visible(c)' : Key(x) = Key(row)
  <2>1. Item(t).type \in RelType
    BY <1>1, ItemTyped, SupersedesIsAType
    DEF TaskFits, TaskTyped, ItemLabels, SessionOp, EdgeItem, Supersedes
  <2>2. row \in Row
    BY <1>1, <2>1, RelTyped DEF NodeId
  <2>3. row.tab = "relations" /\ row.to = t.to
    BY DEF Rel
  <2> HIDE DEF row
  <2> QED
    BY <1>1, <1>3, <2>2, <2>3, InsertEffect
<1>4. CASE /\ t.req.op = "create_relations" /\ ~CrossProject(t)
           /\ InsertRow(c, row) /\ NextItem(c, u)
  <2>0. t.req.op \in LoopOps
    BY <1>4 DEF LoopOps
  <2>1. /\ TaskTyped(t) /\ t.i <= Len(t.req.items) /\ t.i \in DOMAIN t.req.items
        /\ OwnWork(t, ins[c], del[c])
        /\ \A k \in 1..(t.i - 1) : ItemDone(t.req, k, del[c], Visible(c))
        /\ Counted(t, ins[c], del[c], t.i - 1)
        /\ t.from.name = Item(t).from /\ t.to.name = Item(t).to
    BY <1>1, <2>0, InLoop, LoopCount DEF LinkFits
  <2>2. row \in Promise!Edges(Item(t))
    BY <1>1, <1>4, <2>1, RelateEdge
  <2>3. u.req = t.req /\ u.i = t.i /\ TaskTyped(u) /\ u.n = (IF taken THEN t.n ELSE t.n + 1)
    BY <2>1 DEF TaskTyped, NoTask
  <2>4. /\ row \in Row /\ row.tab = "relations"
        /\ Undisturbed(c) /\ del'[c] = del[c]
        /\ ins'[c] = IF taken THEN ins[c] ELSE ins[c] \cup {row}
        /\ Visible(c) \subseteq Visible(c)'
        /\ \E x \in Visible(c)' : Key(x) = Key(row)
    BY <1>3, <1>4
  <2> HIDE DEF row, u
  <2>5. Asked(t.req, t.i, row)
    BY <1>4, <2>2 DEF Asked, TextOps, Item
  <2>6. OwnWork(u, ins'[c], del'[c])
    BY <2>1, <2>3, <2>4, <2>5 DEF OwnWork
  <2>7. ItemDone(t.req, t.i, del'[c], Visible(c)')
    BY <1>4, <2>2, <2>4 DEF ItemDone, TextOps, Item
  <2>8. \A k \in 1..t.i : ItemDone(u.req, k, del'[c], Visible(c)')
    <3>1. \A k \in 1..t.i : k = t.i \/ k \in 1..(t.i - 1)
      BY <2>1 DEF TaskTyped
    <3>2. \A k \in 1..(t.i - 1) : ItemDone(t.req, k, del'[c], Visible(c)')
      BY <2>1, <2>4, ItemStaysDone
    <3> QED
      BY <2>3, <2>7, <3>1, <3>2
  <2>9. u.n = Cardinality(RowsOf("relations", ins'[c]))
    <3> DEFINE before == Cardinality(RowsOf("relations", ins[c]))
    <3>1. t.n = before
      BY <1>4, <2>1 DEF Counted, RowsOf
    <3>2. IsFiniteSet(ins[c])
      BY <1>1, FiniteWork
    <3>3. CASE taken
      BY <2>3, <2>4, <3>1, <3>3
    <3>4. CASE ~taken
      <4>1. row \notin ins[c]
        BY <3>4 DEF Taken, Visible
      <4>2. Cardinality(RowsOf("relations", ins[c] \cup {row})) = before + 1
        BY <2>4, <3>2, <4>1, OneMore
      <4> QED
        BY <2>3, <2>4, <3>1, <3>4, <4>2
    <3> QED
      BY <3>3, <3>4
  <2>10. Counted(u, ins'[c], del'[c], u.i)
    BY <1>4, <2>3, <2>9 DEF Counted, RowsOf
  <2> QED
    BY <1>4, <2>1, <2>3, <2>4, <2>6, <2>8, <2>10, NextItemWork
<1>5. CASE /\ t.req.op = "mark_superseded" /\ ~CrossProject(t) /\ ~taken
           /\ InsertRow(c, row)
           /\ IF t.req.archive THEN Goto(c, "archive", t) ELSE NextItem(c, t)
  <2>1. /\ TaskTyped(t) /\ t.i = 1 /\ Len(t.req.items) = 1
        /\ \E r \in Request : t.req = Scrubbed(r)
        /\ ins[c] = {} /\ del[c] = {} /\ t.n = Cardinality({})
        /\ t.from.name = Item(t).from /\ t.to.name = Item(t).to
    BY <1>1, <1>5, InSupersede DEF SupersedeWork, LinkFits
  <2>2. row \in Promise!Edges(t.req.items[1])
    BY <1>1, <1>5, <2>1, RelateEdge DEF Item
  <2>3. /\ Undisturbed(c) /\ del'[c] = {} /\ ins'[c] = {row} /\ row.to = t.to
    BY <1>3, <1>5, <2>1
  <2> DEFINE label == IF t.req.archive THEN "archive" ELSE "commit"
  <2>4. Goto(c, label, t)
    BY <1>5, <2>1 DEF NextItem
  <2> HIDE DEF row
  <2>5. SupersedeWork(label, t, ins'[c], del'[c])
    BY <2>2, <2>3 DEF SupersedeWork
  <2>6. LinkFits(label, t)
    BY DEF LinkFits
  <2>7. WorkFits(label, t, ins'[c], del'[c], Visible(c)', (dead \cup del[c])')
    BY <1>5, <2>1, <2>5, <2>6 DEF WorkFits, OutsideTx, LoopOps, TextOps, SessionOp
  <2>8. CountFits(label, t, ins'[c], del'[c])
    BY <1>5, <2>1, <2>3 DEF CountFits
  <2> HIDE DEF label
  <2> QED
    BY <2>3, <2>4, <2>7, <2>8, GotoWork
<1> HIDE DEF row, u, taken
<1>6. \/ Abort(c, "rejected")
      \/ /\ t.req.op = "create_relations" /\ ~CrossProject(t)
         /\ InsertRow(c, row) /\ NextItem(c, u)
      \/ /\ t.req.op = "mark_superseded" /\ ~CrossProject(t) /\ ~taken
         /\ InsertRow(c, row)
         /\ IF t.req.archive THEN Goto(c, "archive", t) ELSE NextItem(c, t)
  BY <1>1 DEF Relate, row, u, taken
<1> QED
  BY <1>2, <1>4, <1>5, <1>6

LEMMA ArchiveWork ==
    ASSUME TypeOK, Work, NEW c \in Client, Archive(c)
    PROVE  Work'
<1> DEFINE t == task[c]
           texts == {r \in Live(c) : r.tab = "observations" /\ r.node = t.to}
           u == [t EXCEPT !.left = texts]
<1>1. /\ pc[c] = "archive" /\ pc[c] \in ItemLabels
      /\ t.req.op = "mark_superseded"
  BY TaskOf DEF Archive, TaskFits, OpsAt, ItemLabels
<1>2. /\ TaskTyped(t) /\ \E r \in Request : t.req = Scrubbed(r)
      /\ SupersedeWork("archive", t, ins[c], del[c])
      /\ t.n = Cardinality(del[c])
  BY <1>1, InSupersede
<1>3. Goto(c, "archiving", u) /\ UNCHANGED storeVars
  BY DEF Archive
<1>4. Undisturbed(c) /\ ins'[c] = ins[c] /\ del'[c] = del[c]
  BY <1>3, NoEffect
<1>5. u.req = t.req /\ u.to = t.to /\ u.n = t.n /\ u.left = texts
  BY <1>2 DEF TaskTyped, NoTask
<1> HIDE DEF u
<1>6. SupersedeWork("archiving", u, ins'[c], del'[c])
  BY <1>2, <1>4, <1>5 DEF SupersedeWork
<1>7. WorkFits("archiving", u, ins'[c], del'[c], Visible(c)', (dead \cup del[c])')
  BY <1>1, <1>2, <1>5, <1>6
  DEF WorkFits, OutsideTx, LinkFits, LoopOps, TextOps, SessionOp
<1>8. CountFits("archiving", u, ins'[c], del'[c])
  BY <1>1, <1>2, <1>4, <1>5 DEF CountFits
<1> QED
  BY <1>3, <1>4, <1>7, <1>8, GotoWork

LEMMA ArchiveRowWork ==
    ASSUME TypeOK, Work, NEW c \in Client, ArchiveRow(c)
    PROVE  Work'
<1> DEFINE t == task[c]
<1>1. /\ pc[c] = "archiving" /\ pc[c] \in ItemLabels /\ StoreTypeOK
      /\ t.req.op = "mark_superseded"
  BY TaskOf DEF ArchiveRow, TaskFits, OpsAt, ItemLabels
<1>2. /\ TaskTyped(t) /\ t.i = 1 /\ Len(t.req.items) = 1
      /\ \E r \in Request : t.req = Scrubbed(r)
      /\ SupersedeWork("archiving", t, ins[c], del[c])
      /\ t.n = Cardinality(del[c]) /\ t.n \in Nat
  BY <1>1, InSupersede DEF TaskTyped
<1>3. CASE NextItem(c, t) /\ UNCHANGED storeVars
  <2>1. Goto(c, "commit", t)
    BY <1>2, <1>3 DEF NextItem
  <2>2. Undisturbed(c) /\ ins'[c] = ins[c] /\ del'[c] = del[c]
    BY <1>3, NoEffect
  <2>3. SupersedeWork("commit", t, ins'[c], del'[c])
    BY <1>2, <2>2 DEF SupersedeWork
  <2>4. WorkFits("commit", t, ins'[c], del'[c], Visible(c)', (dead \cup del[c])')
    BY <1>1, <1>2, <2>3
    DEF WorkFits, OutsideTx, LinkFits, LoopOps, TextOps, SessionOp
  <2>5. CountFits("commit", t, ins'[c], del'[c])
    BY <1>1, <1>2, <2>2 DEF CountFits
  <2> QED
    BY <2>1, <2>2, <2>4, <2>5, GotoWork
<1>4. ASSUME NEW r \in t.left, StampRow(c, r),
             Goto(c, "archiving",
                  [t EXCEPT !.left = @ \ {r}, !.n = IF r \in Live(c) THEN @ + 1 ELSE @])
      PROVE  Work'
  <2> DEFINE u == [t EXCEPT !.left = @ \ {r}, !.n = IF r \in Live(c) THEN @ + 1 ELSE @]
  <2>1. /\ Undisturbed(c) /\ ins'[c] = ins[c]
        /\ del'[c] = IF r \in Live(c) THEN del[c] \cup {r} ELSE del[c]
    BY <1>1, <1>4, StampEffect
  <2>2. /\ u.req = t.req /\ u.to = t.to /\ u.left = t.left \ {r}
        /\ u.n = IF r \in Live(c) THEN t.n + 1 ELSE t.n
    BY <1>2 DEF TaskTyped, NoTask
  <2>3. Goto(c, "archiving", u)
    BY <1>4
  <2> HIDE DEF u
  <2>4. r \in ObsRow
    BY <1>2 DEF TaskTyped
  <2>5. SupersedeWork("archiving", u, ins'[c], del'[c])
    BY <1>2, <2>1, <2>2, <2>4 DEF SupersedeWork
  <2>6. u.n = Cardinality(del'[c])
    <3>1. CASE r \in Live(c)
      <4>1. r \notin del[c] /\ IsFiniteSet(del[c])
        BY <1>1, <3>1, FiniteWork DEF Live
      <4>2. Cardinality(del[c] \cup {r}) = Cardinality(del[c]) + 1
        BY <4>1, FS_AddElement
      <4> QED
        BY <1>2, <2>1, <2>2, <3>1, <4>2
    <3>2. CASE r \notin Live(c)
      BY <1>2, <2>1, <2>2, <3>2
    <3> QED
      BY <3>1, <3>2
  <2>7. WorkFits("archiving", u, ins'[c], del'[c], Visible(c)', (dead \cup del[c])')
    BY <1>1, <1>2, <2>2, <2>5
    DEF WorkFits, OutsideTx, LinkFits, LoopOps, TextOps, SessionOp
  <2>8. CountFits("archiving", u, ins'[c], del'[c])
    BY <1>1, <2>2, <2>6 DEF CountFits
  <2> QED
    BY <2>1, <2>3, <2>7, <2>8, GotoWork
<1> QED
  BY <1>3, <1>4 DEF ArchiveRow

-------------------------------------------------------------------------------
(* The statements around the loops. *)

LEMMA StartSessionWork ==
    ASSUME TypeOK, Work, NEW c \in Client, StartSession(c)
    PROVE  Work'
<1> DEFINE t == task[c]
<1>1. /\ pc[c] = "start" /\ StoreTypeOK /\ t.req.op = "session_start"
      /\ TaskTyped(t)
  BY TaskOf DEF StartSession, TaskFits, OpsAt
<1>2. PICK s \in Session : ~Taken(c, Key(Sess(s))) /\ InsertRow(c, Sess(s))
  BY DEF StartSession
<1>3. WorkFits("start", t, ins[c], del[c], Visible(c), dead \cup del[c])
  BY <1>1 DEF Work
<1>4. ins[c] = {} /\ del[c] = {} /\ \E r \in Request : t.req = Scrubbed(r)
  BY <1>1, <1>3 DEF WorkFits, OutsideTx, SessionOp, SessionWork
<1>5. Undisturbed(c) /\ del'[c] = {} /\ ins'[c] = {Sess(s)}
  BY <1>1, <1>2, <1>4, SessTyped, InsertEffect
<1>6. WorkFits("commit", t, ins'[c], del'[c], Visible(c)', (dead \cup del[c])')
  BY <1>1, <1>4, <1>5
  DEF WorkFits, OutsideTx, LinkFits, LoopOps, TextOps, SessionWork
<1>7. CountFits("commit", t, ins'[c], del'[c])
  BY <1>1 DEF CountFits
<1> QED
  BY <1>5, <1>6, <1>7, GotoWork DEF StartSession

LEMMA EndSessionWork ==
    ASSUME TypeOK, Work, NEW c \in Client, EndSession(c)
    PROVE  Work'
<1> DEFINE t   == task[c]
           row == Sess(t.req.session)
<1>1. /\ pc[c] = "end" /\ StoreTypeOK /\ t.req.op = "session_end" /\ TaskTyped(t)
  BY TaskOf DEF EndSession, TaskFits, OpsAt
<1>2. CASE Abort(c, "rejected")
  BY <1>2, AbortWork
<1>3. CASE row \in Visible(c) /\ StampRow(c, row) /\ Goto(c, "commit", t)
  <2>1. WorkFits("end", t, ins[c], del[c], Visible(c), dead \cup del[c])
    BY <1>1 DEF Work
  <2>2. ins[c] = {} /\ del[c] = {} /\ \E r \in Request : t.req = Scrubbed(r)
    BY <1>1, <2>1 DEF WorkFits, OutsideTx, SessionOp, SessionWork
  <2> HIDE DEF row
  <2>3. /\ Undisturbed(c) /\ ins'[c] = {} /\ dead' = dead
        /\ Visible(c)' = Visible(c)
        /\ del'[c] = IF row \in Live(c) THEN del[c] \cup {row} ELSE del[c]
    BY <1>1, <1>3, <2>2, StampEffect
  <2>4. row \in dead' \cup del'[c] /\ del'[c] \subseteq {row}
    BY <1>3, <2>2, <2>3 DEF Live
  <2>5. SessionWork("commit", t, ins'[c], del'[c], Visible(c)', (dead \cup del[c])')
    BY <1>1, <1>3, <2>3, <2>4 DEF SessionWork, row
  <2>6. WorkFits("commit", t, ins'[c], del'[c], Visible(c)', (dead \cup del[c])')
    BY <1>1, <2>2, <2>5 DEF WorkFits, OutsideTx, LinkFits, LoopOps, TextOps
  <2>7. CountFits("commit", t, ins'[c], del'[c])
    BY <1>1 DEF CountFits
  <2> QED
    BY <1>3, <2>3, <2>6, <2>7, GotoWork
<1> QED
  BY <1>2, <1>3 DEF EndSession

\* Before its transaction a handler has done nothing.
LEMMA Untouched ==
    ASSUME Work, NEW c \in Client, pc[c] \in OutsideTx
    PROVE  /\ ins[c] = {} /\ del[c] = {}
           /\ pc[c] = "session" => task[c].req \in Request
           /\ pc[c] \in {"begin", "count"} => \E r \in Request : task[c].req = Scrubbed(r)
           /\ pc[c] \in {"session", "begin"} => task[c].n = 0
<1>1. /\ WorkFits(pc[c], task[c], ins[c], del[c], Visible(c), dead \cup del[c])
      /\ CountFits(pc[c], task[c], ins[c], del[c])
  BY DEF Work
<1> QED
  BY <1>1 DEF WorkFits, CountFits

LEMMA CheckSessionWork ==
    ASSUME TypeOK, Work, NEW c \in Client, CheckSession(c)
    PROVE  Work'
<1> DEFINE t == task[c]
           u == [t EXCEPT !.req = Scrubbed(t.req)]
<1>1. /\ pc[c] = "session" /\ TaskTyped(t)
  BY TaskOf DEF CheckSession, TaskFits
<1>2. ins[c] = {} /\ del[c] = {} /\ t.req \in Request /\ t.n = 0
  BY <1>1, Untouched DEF OutsideTx
<1>3. UNCHANGED storeVars
  BY DEF CheckSession
<1>4. Undisturbed(c) /\ ins'[c] = {} /\ del'[c] = {}
  BY <1>2, <1>3, NoEffect
<1>5. CASE Reply(c, Answer("rejected", 0, 0))
  BY <1>4, <1>5, ReplyWork
<1>6. CASE Goto(c, "begin", u)
  <2>1. u.req = Scrubbed(t.req) /\ u.n = 0
    BY <1>1, <1>2 DEF TaskTyped, NoTask
  <2> HIDE DEF u
  <2>2. WorkFits("begin", u, ins'[c], del'[c], Visible(c)', (dead \cup del[c])')
    BY <1>2, <1>4, <2>1 DEF WorkFits, OutsideTx
  <2>3. CountFits("begin", u, ins'[c], del'[c])
    BY <2>1 DEF CountFits, OutsideTx
  <2> QED
    BY <1>4, <1>6, <2>2, <2>3, GotoWork
<1> QED
  BY <1>5, <1>6 DEF CheckSession

\* The empty sequence has no element.
LEMMA NotEmpty ==
    ASSUME NEW s, Len(s) = 1
    PROVE  s # <<>>
  <1>1. Len(<<>>) = 0
    OBVIOUS
  <1> QED
    BY <1>1

LEMMA BeginWork ==
    ASSUME TypeOK, Work, NEW c \in Client, Begin(c)
    PROVE  Work'
<1> DEFINE t == task[c]
<1>1. /\ pc[c] = "begin" /\ TaskTyped(t) /\ t.i = 1 /\ t.j = 1 /\ t.req \in RequestType
  BY TaskOf DEF Begin, TaskFits
<1>2. /\ ins[c] = {} /\ del[c] = {} /\ t.n = 0
      /\ \E r \in Request : t.req = Scrubbed(r)
  BY <1>1, Untouched DEF OutsideTx
<1>3. UNCHANGED storeVars
  BY DEF Begin
<1>4. Undisturbed(c) /\ ins'[c] = {} /\ del'[c] = {}
  BY <1>2, <1>3, NoEffect
<1>5. Cardinality({}) = 0 /\ \A tab : RowsOf(tab, {}) = {}
  BY FS_EmptySet DEF RowsOf
<1>6. Counted(t, {}, {}, 0)
  BY <1>2, <1>5 DEF Counted, RowsOf
<1>7. CASE SessionOp(t.req)
  <2> DEFINE label == FirstStep(t.req.op)
  <2>1. Goto(c, label, t)
    BY <1>7 DEF Begin
  <2>2. label \in {"start", "end"}
    BY <1>7 DEF SessionOp, FirstStep
  <2>3. SessionWork(label, t, {}, {}, Visible(c)', (dead \cup del[c])')
    BY <2>2 DEF SessionWork
  <2>4. WorkFits(label, t, {}, {}, Visible(c)', (dead \cup del[c])')
    BY <1>2, <1>7, <2>2, <2>3 DEF WorkFits, OutsideTx, LinkFits, LoopOps, TextOps, SessionOp
  <2>5. CountFits(label, t, {}, {})
    BY <1>7, <2>2 DEF CountFits, SessionOp
  <2> HIDE DEF label
  <2> QED
    BY <1>4, <2>1, <2>4, <2>5, GotoWork
<1>8. CASE ~SessionOp(t.req) /\ t.req.op = "mark_superseded"
  <2>1. Len(t.req.items) = 1
    BY <1>1, <1>8, RequestTyped
  <2>1a. t.req.items # <<>>
    BY <2>1, NotEmpty
  <2>2. Goto(c, "find", t)
    BY <1>8, <2>1a DEF Begin, FirstStep
  <2>3. LinkFits("find", t)
    BY DEF LinkFits
  <2>4. WorkFits("find", t, {}, {}, Visible(c)', (dead \cup del[c])') /\ CountFits("find", t, {}, {})
    BY <1>2, <1>5, <1>8, <2>3, SupersedeUntouched
  <2> QED
    BY <1>4, <2>2, <2>4, GotoWork
<1>9. CASE ~SessionOp(t.req) /\ t.req.op # "mark_superseded"
  <2>1. t.req.op \in LoopOps
    BY <1>1, <1>9, RequestTyped DEF Op, SessionOp, LoopOps, TextOps
  <2> DEFINE label == IF t.req.items = <<>> THEN "commit" ELSE FirstStep(t.req.op)
  <2>2. Goto(c, label, t)
    BY <1>9 DEF Begin
  <2>3. label \in {"commit", "create", "find"} /\ (label = "commit" => t.req.items = <<>>)
    BY <1>9, <2>1 DEF FirstStep, SessionOp
  <2>4. Behind(label, t) = {}
    BY <1>1, <2>3 DEF Behind
  <2>5. HereFits(label, t, {}, Visible(c)')
    BY <1>1, <2>3 DEF HereFits
  <2>6. LoopWork(label, t, {}, {}, Visible(c)')
    BY <2>4, <2>5 DEF LoopWork
  <2>7. WorkFits(label, t, {}, {}, Visible(c)', (dead \cup del[c])')
    BY <1>2, <1>9, <2>3, <2>6 DEF WorkFits, OutsideTx, LinkFits
  <2>8. CountFits(label, t, {}, {})
    <3>1. CASE label = "commit"
      <4>1. Len(t.req.items) = 0
        BY <2>3, <3>1
      <4> QED
        BY <1>1, <1>6, <2>1, <3>1, <4>1, LoopCount
    <3>2. CASE label # "commit"
      <4>1. label \in Label \ {"insert", "commit", "session", "begin"} /\ t.i - 1 = 0
        BY <1>1, <2>3, <3>2 DEF Label
      <4> QED
        BY <1>1, <1>6, <2>1, <4>1, LoopCount
    <3> QED
      BY <3>1, <3>2
  <2> HIDE DEF label
  <2> QED
    BY <1>4, <2>2, <2>7, <2>8, GotoWork
<1> QED
  BY <1>7, <1>8, <1>9

LEMMA CountSessionNodesWork ==
    ASSUME TypeOK, Work, NEW c \in Client, CountSessionNodes(c)
    PROVE  Work'
<1>1. Undisturbed(c) /\ ins'[c] = {} /\ del'[c] = {}
  BY Untouched, NoEffect DEF CountSessionNodes, OutsideTx
<1> QED
  BY <1>1, ReplyWork DEF CountSessionNodes

LEMMA CommitWork ==
    ASSUME TypeOK, Work, NEW c \in Client, Commit(c) \/ CommitUnacknowledged(c)
    PROVE  Work'
<1> DEFINE t == task[c]
<1>1. pc[c] = "commit" /\ CommitTx(c)
  BY DEF Commit, CommitUnacknowledged
<1>2. Undisturbed(c) /\ ins'[c] = {} /\ del'[c] = {}
  BY <1>1, EndEffect DEF TypeOK
<1>3. \E r \in Request : t.req = Scrubbed(r)
  BY <1>1 DEF Work, WorkFits
<1>4. CASE Goto(c, "count", t)
  <2>1. WorkFits("count", t, ins'[c], del'[c], Visible(c)', (dead \cup del[c])')
    BY <1>2, <1>3 DEF WorkFits, OutsideTx
  <2>2. CountFits("count", t, ins'[c], del'[c])
    BY DEF CountFits, OutsideTx
  <2> QED
    BY <1>2, <1>4, <2>1, <2>2, GotoWork
<1>5. CASE \E answer : Reply(c, answer)
  BY <1>2, <1>5, ReplyWork
<1>6. Goto(c, "count", t) \/ \E answer : Reply(c, answer)
  BY Zenon DEF Commit, CommitUnacknowledged
<1> QED
  BY <1>4, <1>5, <1>6

LEMMA ReceiveWork ==
    ASSUME TypeOK, Work, NEW c \in Client, NEW r \in Request, Receive(c, r)
    PROVE  Work'
<1>1. UNCHANGED storeVars /\ pc[c] = "idle"
  BY DEF Receive
<1>2. Undisturbed(c) /\ ins'[c] = {} /\ del'[c] = {} /\ ins[c] = {} /\ del[c] = {}
  BY <1>1, Untouched, NoEffect DEF OutsideTx
<1>3. CASE UNCHANGED <<pc, task>>
  BY <1>1, <1>3 DEF Work, storeVars, Visible
<1>4. CASE ~UNCHANGED <<pc, task>>
  <2> DEFINE label == IF NeedsSession(r) THEN "session" ELSE "begin"
             t == [NoTask EXCEPT !.req = IF NeedsSession(r) THEN r ELSE Scrubbed(r),
                                 !.i = 1, !.j = 1]
  <2>1. pc' = [pc EXCEPT ![c] = label] /\ task' = [task EXCEPT ![c] = t]
    BY <1>4 DEF Receive
  <2>2. t.n = 0 /\ t.req = (IF NeedsSession(r) THEN r ELSE Scrubbed(r))
    BY DEF NoTask
  <2> HIDE DEF t
  <2>3. WorkFits(label, t, ins'[c], del'[c], Visible(c)', (dead \cup del[c])')
    BY <1>2, <2>2 DEF WorkFits, OutsideTx
  <2>4. CountFits(label, t, ins'[c], del'[c])
    BY <2>2 DEF CountFits, OutsideTx
  <2> HIDE DEF label
  <2> QED
    BY <1>2, <2>1, <2>3, <2>4, WorkStep
<1> QED
  BY <1>3, <1>4

LEMMA WorkInductive ==
    ASSUME TypeOK, TargetsExist, Work, [Next]_vars
    PROVE  Work'
<1>1. ASSUME NEW c \in Client, NEW r \in Request, Receive(c, r) PROVE Work'
  BY <1>1, ReceiveWork
<1>2. ASSUME NEW c \in Client, HandlerStep(c) PROVE Work'
  <2>1. CASE CheckSession(c) \/ Begin(c) \/ CountSessionNodes(c)
    BY <2>1, CheckSessionWork, BeginWork, CountSessionNodesWork
  <2>2. CASE Create(c) \/ LookupExisting(c) \/ FindNode(c) \/ FindOther(c)
    BY <2>2, CreateWork, LookupExistingWork, FindNodeWork, FindOtherWork
  <2>3. CASE InsertObservation(c) \/ MarkObservationDeleted(c) \/ Relate(c)
    BY <2>3, InsertObservationWork, MarkObservationDeletedWork, RelateWork
  <2>4. CASE Archive(c) \/ ArchiveRow(c) \/ StartSession(c) \/ EndSession(c)
    BY <2>4, ArchiveWork, ArchiveRowWork, StartSessionWork, EndSessionWork
  <2>5. CASE Commit(c)
    BY <2>5, CommitWork
  <2>6. CASE DeadlockVictim(c)
    BY <2>6, AbortWork DEF DeadlockVictim
  <2> QED
    BY <1>2, <2>1, <2>2, <2>3, <2>4, <2>5, <2>6 DEF HandlerStep
<1>3. ASSUME NEW c \in Client, Fail(c) \/ CommitUnacknowledged(c)
      PROVE  Work'
  BY <1>3, AbortWork, CommitWork DEF Fail
<1>4. CASE AdminStep
  <2>1. UNCHANGED <<rows, ins, del, pc, task>> /\ dead \subseteq dead'
    BY <1>4 DEF AdminStep, AdminDeleteNode, AdminDeleteObservation,
                AdminDeleteRelation, StampNow, handlerVars
  <2>2. \A c \in Client :
           WorkFits(pc[c], task[c], ins[c], del[c], Visible(c), dead' \cup del[c])
    BY <2>1, WorkMonotone DEF Work
  <2> QED
    BY <2>1, <2>2 DEF Work, Visible
<1>5. CASE UNCHANGED vars
  BY <1>5 DEF vars, Work, Visible
<1> QED
  BY <1>1, <1>2, <1>3, <1>4, <1>5 DEF Next

-------------------------------------------------------------------------------
(* A commit is one request of the promise. *)

LEMMA ScrubbedItems ==
    ASSUME NEW r \in RequestType
    PROVE  LET q == Scrubbed(r)
           IN /\ r.op \in LoopOps => DOMAIN q.items = DOMAIN r.items
              /\ r.op = "create_nodes" =>
                    /\ q.session = r.session
                    /\ \A k \in DOMAIN r.items :
                          /\ q.items[k].project = r.items[k].project
                          /\ q.items[k].name = r.items[k].name
              /\ r.op \in {"create_nodes", "add_observations"} =>
                    \A k \in DOMAIN r.items :
                       /\ q.items[k].name = r.items[k].name
                       /\ TextsOf(r.op, q.items[k]) =
                            [m \in DOMAIN r.items[k].texts |-> Scrub[r.items[k].texts[m]]]
              /\ r.op = "update_observations" =>
                    \A k \in DOMAIN r.items :
                       /\ q.items[k].name = r.items[k].name
                       /\ q.items[k].old = r.items[k].old
                       /\ TextsOf(r.op, q.items[k]) = <<Scrub[r.items[k].new]>>
              /\ r.op \notin TextOps => q = r
<1> DEFINE q == Scrubbed(r)
<1>1. CASE r.op = "create_nodes"
  <2> DEFINE f == [k \in DOMAIN r.items |->
                     [r.items[k] EXCEPT !.texts = [m \in DOMAIN r.items[k].texts |->
                                                     Scrub[r.items[k].texts[m]]]]]
  <2>1. q = [r EXCEPT !.items = f]
    BY <1>1 DEF Scrubbed
  <2>2. r \in [op : {"create_nodes"}, items : Seq(NodeItem), session : Session \cup {None}]
    BY <1>1 DEF RequestType
  <2>3. q.items = f /\ q.session = r.session
    BY <2>1, <2>2
  <2>4. \A k \in DOMAIN r.items : r.items[k] \in NodeItem
    BY <2>2
  <2>5. \A k \in DOMAIN r.items :
           /\ q.items[k].project = r.items[k].project
           /\ q.items[k].name = r.items[k].name
           /\ q.items[k].texts = [m \in DOMAIN r.items[k].texts |-> Scrub[r.items[k].texts[m]]]
    BY <2>3, <2>4 DEF NodeItem
  <2> QED
    BY <1>1, <2>3, <2>5 DEF TextsOf, TextOps
<1>2. CASE r.op = "add_observations"
  <2> DEFINE f == [k \in DOMAIN r.items |->
                     [r.items[k] EXCEPT !.texts = [m \in DOMAIN r.items[k].texts |->
                                                     Scrub[r.items[k].texts[m]]]]]
  <2>1. q = [r EXCEPT !.items = f]
    BY <1>2 DEF Scrubbed
  <2>2. r \in [op : {"add_observations"}, items : Seq(AddItem)]
    BY <1>2 DEF RequestType
  <2>3. q.items = f
    BY <2>1, <2>2
  <2>4. \A k \in DOMAIN r.items : r.items[k] \in AddItem
    BY <2>2
  <2>5. \A k \in DOMAIN r.items :
           /\ q.items[k].name = r.items[k].name
           /\ q.items[k].texts = [m \in DOMAIN r.items[k].texts |-> Scrub[r.items[k].texts[m]]]
    BY <2>3, <2>4 DEF AddItem
  <2> QED
    BY <1>2, <2>3, <2>5 DEF TextsOf, TextOps
<1>3. CASE r.op = "update_observations"
  <2> DEFINE f == [k \in DOMAIN r.items |->
                     [r.items[k] EXCEPT !.new = Scrub[r.items[k].new]]]
  <2>1. q = [r EXCEPT !.items = f]
    BY <1>3 DEF Scrubbed
  <2>2. r \in [op : {"update_observations"}, items : Seq(UpdateItem)]
    BY <1>3 DEF RequestType
  <2>3. q.items = f
    BY <2>1, <2>2
  <2>4. \A k \in DOMAIN r.items : r.items[k] \in UpdateItem
    BY <2>2
  <2>5. \A k \in DOMAIN r.items :
           /\ q.items[k].name = r.items[k].name
           /\ q.items[k].old = r.items[k].old
           /\ q.items[k].new = Scrub[r.items[k].new]
    BY <2>3, <2>4 DEF UpdateItem
  <2> QED
    BY <1>3, <2>3, <2>5 DEF TextsOf, TextOps
<1>4. CASE r.op \notin TextOps
  <2>1. q = r
    BY <1>4 DEF Scrubbed, TextOps
  <2> QED
    BY <1>4, <2>1 DEF TextOps
<1> QED
  BY <1>1, <1>2, <1>3, <1>4 DEF TextOps

LEMMA CommitGrows ==
    ASSUME KeysApart, UniqueKeys', NEW c \in Client, CommitTx(c)
    PROVE  /\ rows' \ rows = ins[c] /\ rows' = Visible(c)
           /\ \A asked : ins[c] \subseteq asked => Promise!GrowsBy(asked)
<1>1. rows' = rows \cup ins[c]
  BY DEF CommitTx
<1>2. rows' \ rows = ins[c]
  BY <1>1 DEF KeysApart
<1>3. \A x \in ins[c], y \in rows' : Key(x) = Key(y) => x = y
  BY <1>1 DEF UniqueKeys
<1>4. \A x, y : Key(x) = Key(y) <=> Promise!Key(x) = Promise!Key(y)
  BY DEF Key, Promise!Key
<1> QED
  BY <1>1, <1>2, <1>3, <1>4 DEF Visible, Promise!GrowsBy, Promise!New

-------------------------------------------------------------------------------
(* What a commit makes of the graph. *)

LEMMA AtCommit ==
    ASSUME TypeOK, Work, LocksApart, KeysApart, UniqueKeys',
           NEW c \in Client, pc[c] = "commit", CommitTx(c)
    PROVE  LET t == task[c]
           IN /\ t.req \in RequestType /\ \E r \in Request : t.req = Scrubbed(r)
              /\ rows' \ rows = ins[c] /\ rows' = Visible(c) /\ rows \subseteq rows'
              /\ dead' = dead \cup del[c] /\ dead' \ dead = del[c]
              /\ \A asked : ins[c] \subseteq asked => Promise!GrowsBy(asked)
              /\ t.req.op \in LoopOps =>
                    /\ \A x \in ins[c] : \E k \in DOMAIN t.req.items : Asked(t.req, k, x)
                    /\ \A x \in del[c] :
                          /\ t.req.op = "update_observations"
                          /\ \E k \in DOMAIN t.req.items, id \in NodeId :
                                x = Obs(id, t.req.items[k].old)
                    /\ \A k \in DOMAIN t.req.items : ItemDone(t.req, k, del[c], rows')
              /\ t.req.op = "mark_superseded" => SupersedeWork("commit", t, ins[c], del[c])
              /\ SessionOp(t.req) =>
                    SessionWork("commit", t, ins[c], del[c], rows', dead')
              /\ CountFits("commit", t, ins[c], del[c])
<1> DEFINE t == task[c]
<1>1. WorkFits("commit", t, ins[c], del[c], Visible(c), dead \cup del[c])
      /\ CountFits("commit", t, ins[c], del[c])
  BY DEF Work
<1>2. t.req \in RequestType
  BY TaskOf
<1>3. /\ rows' \ rows = ins[c] /\ rows' = Visible(c) /\ rows \subseteq rows'
      /\ \A asked : ins[c] \subseteq asked => Promise!GrowsBy(asked)
  BY CommitGrows DEF CommitTx
<1>4. dead' = dead \cup del[c] /\ dead' \ dead = del[c]
  BY DEF CommitTx, LocksApart
<1>5. /\ \E r \in Request : t.req = Scrubbed(r)
      /\ t.req.op \in LoopOps => LoopWork("commit", t, ins[c], del[c], rows')
      /\ t.req.op = "mark_superseded" => SupersedeWork("commit", t, ins[c], del[c])
      /\ SessionOp(t.req) => SessionWork("commit", t, ins[c], del[c], rows', dead')
  BY <1>1, <1>3, <1>4 DEF WorkFits, OutsideTx
<1>6. t.req.op \in LoopOps =>
         /\ \A x \in ins[c] : \E k \in DOMAIN t.req.items : Asked(t.req, k, x)
         /\ \A x \in del[c] :
               /\ t.req.op = "update_observations"
               /\ \E k \in DOMAIN t.req.items, id \in NodeId :
                     x = Obs(id, t.req.items[k].old)
         /\ \A k \in DOMAIN t.req.items : ItemDone(t.req, k, del[c], rows')
  BY <1>5 DEF LoopWork, Behind
<1> QED
  BY <1>1, <1>2, <1>3, <1>4, <1>5, <1>6

\* The promise has rows of its own, which are those of GraphTools.
LEMMA SameRows ==
    /\ \A p, n, s : Promise!Node(p, n, s) = Node(p, n, s)
    /\ \A id, x : Promise!Obs(id, x) = Obs(id, x)
    /\ \A s : Promise!Sess(s) = Sess(s)
    /\ \A r : Promise!Key(r) = Key(r)
    /\ Promise!NodeId = NodeId /\ Promise!ObsRow = ObsRow
BY DEF Promise!Node, Node, Promise!Obs, Obs, Promise!Sess, Sess, Promise!Key, Key,
       Promise!NodeId, NodeId, Promise!ObsRow, ObsRow

LEMMA CreateNodesKept ==
    ASSUME NEW r \in RequestType, r.op = "create_nodes", NEW I,
           \A asked : I \subseteq asked => Promise!GrowsBy(asked),
           \A x \in I : \E k \in DOMAIN Scrubbed(r).items : Asked(Scrubbed(r), k, x),
           \A k \in DOMAIN Scrubbed(r).items : ItemDone(Scrubbed(r), k, {}, rows'),
           dead' = dead
    PROVE  Promise!CreateNodes(r)
<1> DEFINE q == Scrubbed(r)
           Id(k) == [project |-> r.items[k].project, name |-> r.items[k].name]
           nodes(k) == {Node(r.items[k].project, r.items[k].name, r.session)}
           obs(k) == {Obs(Id(k), Scrub[r.items[k].texts[m]]) : m \in DOMAIN r.items[k].texts}
           asked == UNION {nodes(k) \cup obs(k) : k \in DOMAIN r.items}
<1>1. /\ q.op = "create_nodes" /\ DOMAIN q.items = DOMAIN r.items /\ q.session = r.session
      /\ \A k \in DOMAIN r.items :
            /\ q.items[k].project = r.items[k].project
            /\ q.items[k].name = r.items[k].name
            /\ TextsOf("create_nodes", q.items[k]) =
                  [m \in DOMAIN r.items[k].texts |-> Scrub[r.items[k].texts[m]]]
  BY ScrubbedItems, ScrubbedTyped DEF LoopOps, TextOps
<1>2. ASSUME NEW k \in DOMAIN r.items, NEW id, Meant("create_nodes", q.items[k], id)
      PROVE  id = Id(k)
  BY <1>1, <1>2 DEF Meant, NodeId
<1> HIDE DEF q
<1>3. ASSUME NEW x \in I PROVE x \in asked
  <2>1. PICK k \in DOMAIN r.items : Asked(q, k, x)
    BY <1>1 DEF q
  <2>2. \/ x = Node(r.items[k].project, r.items[k].name, r.session)
        \/ \E m \in DOMAIN r.items[k].texts : x = Obs(Id(k), Scrub[r.items[k].texts[m]])
    <3>1. CASE x = Node(q.items[k].project, q.items[k].name, q.session)
      BY <1>1, <3>1
    <3>2. ASSUME NEW id \in NodeId, NEW m \in DOMAIN TextsOf(q.op, q.items[k]),
                 Meant(q.op, q.items[k], id), x = Obs(id, TextsOf(q.op, q.items[k])[m])
          PROVE  \E n \in DOMAIN r.items[k].texts : x = Obs(Id(k), Scrub[r.items[k].texts[n]])
      <4>1. id = Id(k)
        BY <1>1, <1>2, <3>2
      <4>2. m \in DOMAIN r.items[k].texts
            /\ TextsOf(q.op, q.items[k])[m] = Scrub[r.items[k].texts[m]]
        BY <1>1, <3>2
      <4> QED
        BY <3>2, <4>1, <4>2
    <3> QED
      BY <1>1, <2>1, <3>1, <3>2 DEF Asked, TextOps
  <2>3. x \in nodes(k) \cup obs(k)
    BY <2>2
  <2> QED
    BY <2>3
<1>4. ASSUME NEW k \in DOMAIN r.items, NEW x \in nodes(k) \cup obs(k)
      PROVE  \E y \in rows' : Key(y) = Key(x)
  <2>1. ItemDone(q, k, {}, rows')
    BY <1>1 DEF q
  <2>2. /\ \A m \in DOMAIN TextsOf("create_nodes", q.items[k]) :
              Obs(Id(k), TextsOf("create_nodes", q.items[k])[m]) \in rows'
        /\ HasNode(rows', Id(k))
    BY <1>1, <1>2, <2>1 DEF ItemDone, TextOps
  <2>3. CASE x \in obs(k)
    <3>1. PICK m \in DOMAIN r.items[k].texts : x = Obs(Id(k), Scrub[r.items[k].texts[m]])
      BY <2>3
    <3>2. /\ m \in DOMAIN TextsOf("create_nodes", q.items[k])
          /\ TextsOf("create_nodes", q.items[k])[m] = Scrub[r.items[k].texts[m]]
      BY <1>1
    <3> HIDE DEF Id
    <3>3. x \in rows'
      BY <2>2, <3>1, <3>2
    <3> QED
      BY <3>3
  <2>4. CASE x \in nodes(k)
    <3>1. PICK y \in rows' : y.tab = "nodes" /\ IdOf(y) = Id(k)
      BY <2>2 DEF HasNode
    <3>2. y.project = r.items[k].project /\ y.name = r.items[k].name
      BY <3>1 DEF IdOf
    <3>3. Key(y) = Key(x)
      BY <2>4, <3>1, <3>2 DEF Key, Node
    <3> QED
      BY <3>3
  <2> QED
    BY <2>3, <2>4
<1>5. Promise!GrowsBy(asked)
  BY <1>3
<1>6. \A x \in asked : Promise!Has(Promise!Key(x))
  BY <1>4, SameRows DEF Promise!Has
<1>7. asked = UNION {{Promise!Node(r.items[k].project, r.items[k].name, r.session)} \cup
                     {Promise!Obs([project |-> r.items[k].project, name |-> r.items[k].name],
                                  Scrub[r.items[k].texts[m]]) : m \in DOMAIN r.items[k].texts}
                       : k \in DOMAIN r.items}
  BY SameRows
<1> QED
  BY <1>5, <1>6, <1>7 DEF Promise!CreateNodes, Promise!NoRowStamped

LEMMA AddObservationsKept ==
    ASSUME NEW r \in RequestType, r.op = "add_observations", NEW I,
           \A asked : I \subseteq asked => Promise!GrowsBy(asked),
           \A x \in I : \E k \in DOMAIN Scrubbed(r).items : Asked(Scrubbed(r), k, x),
           \A k \in DOMAIN Scrubbed(r).items : ItemDone(Scrubbed(r), k, {}, rows'),
           dead' = dead
    PROVE  Promise!AddObservations(r)
<1> DEFINE q == Scrubbed(r)
           named(k) == {id \in NodeId : id.name = r.items[k].name}
           on(id, k) == {Obs(id, Scrub[r.items[k].texts[m]]) : m \in DOMAIN r.items[k].texts}
           asked == UNION {UNION {on(id, k) : id \in named(k)} : k \in DOMAIN r.items}
<1>1. /\ q.op = "add_observations" /\ DOMAIN q.items = DOMAIN r.items
      /\ \A k \in DOMAIN r.items :
            /\ q.items[k].name = r.items[k].name
            /\ TextsOf("add_observations", q.items[k]) =
                  [m \in DOMAIN r.items[k].texts |-> Scrub[r.items[k].texts[m]]]
  BY ScrubbedItems, ScrubbedTyped DEF LoopOps, TextOps
<1>2. \A k \in DOMAIN r.items : \A id :
         Meant("add_observations", q.items[k], id) => id \in named(k)
  BY <1>1 DEF Meant
<1> HIDE DEF q
<1>3. ASSUME NEW x \in I PROVE x \in asked
  <2>1. PICK k \in DOMAIN r.items : Asked(q, k, x)
    BY <1>1 DEF q
  <2>2. PICK id \in NodeId, m \in DOMAIN TextsOf(q.op, q.items[k]) :
           Meant(q.op, q.items[k], id) /\ x = Obs(id, TextsOf(q.op, q.items[k])[m])
    BY <1>1, <2>1 DEF Asked, TextOps
  <2> DEFINE texts == r.items[k].texts
  <2>3. id \in named(k)
    BY <1>1, <1>2, <2>2
  <2>5. TextsOf(q.op, q.items[k]) = [n \in DOMAIN texts |-> Scrub[texts[n]]]
    BY <1>1
  <2>6. m \in DOMAIN texts /\ x = Obs(id, Scrub[texts[m]])
    BY <2>2, <2>5
  <2>4. x \in on(id, k)
    BY <2>6
  <2> HIDE DEF on
  <2> QED
    BY <2>3, <2>4
<1>4. ASSUME NEW k \in DOMAIN r.items
      PROVE  \E id \in named(k) : on(id, k) \subseteq rows'
  <2>1. ItemDone(q, k, {}, rows')
    BY <1>1 DEF q
  <2>2. PICK id \in NodeId :
           /\ Meant("add_observations", q.items[k], id)
           /\ \A m \in DOMAIN TextsOf("add_observations", q.items[k]) :
                 Obs(id, TextsOf("add_observations", q.items[k])[m]) \in rows'
    BY <1>1, <2>1 DEF ItemDone, TextOps
  <2>3. id \in named(k)
    BY <1>2, <2>2
  <2> DEFINE texts == r.items[k].texts
  <2>5. TextsOf("add_observations", q.items[k]) = [n \in DOMAIN texts |-> Scrub[texts[n]]]
    BY <1>1
  <2>4. \A m \in DOMAIN texts : Obs(id, Scrub[texts[m]]) \in rows'
    BY <2>2, <2>5
  <2> QED
    BY <2>3, <2>4
<1>5. Promise!GrowsBy(asked)
  BY <1>3
<1>6. \A k \in DOMAIN r.items : Promise!OfName(r.items[k].name) = named(k)
  BY SameRows DEF Promise!OfName
<1>7. \A id, k : {Promise!Obs(id, Scrub[r.items[k].texts[m]]) : m \in DOMAIN r.items[k].texts}
                 = on(id, k)
  BY SameRows
<1> DEFINE one(id, item) == {Promise!Obs(id, Scrub[item.texts[m]]) : m \in DOMAIN item.texts}
<1> HIDE DEF named, on, one
<1>8. asked = UNION {UNION {one(id, r.items[k]) : id \in Promise!OfName(r.items[k].name)}
                       : k \in DOMAIN r.items}
  <2>1. \A id, k : one(id, r.items[k]) = on(id, k)
    BY <1>7 DEF one
  <2>2. ASSUME NEW x PROVE x \in asked <=>
          \E k \in DOMAIN r.items : \E id \in Promise!OfName(r.items[k].name) : x \in one(id, r.items[k])
    BY <1>6, <2>1
  <2> DEFINE whole == UNION {UNION {one(id, r.items[k]) : id \in Promise!OfName(r.items[k].name)}
                               : k \in DOMAIN r.items}
  <2>3. ASSUME NEW x PROVE x \in whole <=>
          \E k \in DOMAIN r.items : \E id \in Promise!OfName(r.items[k].name) : x \in one(id, r.items[k])
    OBVIOUS
  <2> HIDE DEF asked, whole
  <2>4. asked = whole
    BY <2>2, <2>3
  <2> QED
    BY <2>4 DEF whole
<1>9. \A k \in DOMAIN r.items : \E id \in Promise!OfName(r.items[k].name) :
         one(id, r.items[k]) \subseteq rows'
  <2>1. \A id, k : one(id, r.items[k]) = on(id, k)
    BY <1>7 DEF one
  <2> QED
    BY <1>4, <1>6, <2>1
<1> HIDE DEF asked
<1> QED
  BY <1>5, <1>8, <1>9 DEF Promise!AddObservations, Promise!NoRowStamped, one

LEMMA UpdateObservationsKept ==
    ASSUME NEW r \in RequestType, r.op = "update_observations", NEW I, NEW D,
           \A asked : I \subseteq asked => Promise!GrowsBy(asked),
           \A x \in I : \E k \in DOMAIN Scrubbed(r).items : Asked(Scrubbed(r), k, x),
           \A x \in D : \E k \in DOMAIN Scrubbed(r).items, id \in NodeId :
              x = Obs(id, Scrubbed(r).items[k].old),
           \A k \in DOMAIN Scrubbed(r).items : ItemDone(Scrubbed(r), k, D, rows'),
           dead \subseteq dead', dead' \ dead = D
    PROVE  Promise!UpdateObservations(r)
<1> DEFINE q == Scrubbed(r)
           asked == {Obs(id, Scrub[r.items[k].new]) : id \in NodeId, k \in DOMAIN r.items}
<1>1. /\ q.op = "update_observations" /\ DOMAIN q.items = DOMAIN r.items
      /\ \A k \in DOMAIN r.items :
            /\ q.items[k].name = r.items[k].name
            /\ q.items[k].old = r.items[k].old
            /\ TextsOf("update_observations", q.items[k]) = <<Scrub[r.items[k].new]>>
  BY ScrubbedItems, ScrubbedTyped DEF LoopOps, TextOps
<1> HIDE DEF q
<1>2. ASSUME NEW x \in I PROVE x \in asked
  <2>1. PICK k \in DOMAIN r.items : Asked(q, k, x)
    BY <1>1 DEF q
  <2>2. PICK id \in NodeId, m \in DOMAIN <<Scrub[r.items[k].new]>> :
           x = Obs(id, <<Scrub[r.items[k].new]>>[m])
    BY <1>1, <2>1 DEF Asked, TextOps
  <2>3. x = Obs(id, Scrub[r.items[k].new])
    BY <2>2
  <2> QED
    BY <2>3
<1>3. ASSUME NEW k \in DOMAIN r.items
      PROVE  \E id \in Promise!OfName(r.items[k].name) :
                Obs(id, r.items[k].old) \in D /\ Obs(id, Scrub[r.items[k].new]) \in rows'
  <2>1. ItemDone(q, k, D, rows')
    BY <1>1 DEF q
  <2>2. PICK id \in NodeId :
           /\ Meant("update_observations", q.items[k], id)
           /\ \A m \in DOMAIN <<Scrub[r.items[k].new]>> :
                 Obs(id, <<Scrub[r.items[k].new]>>[m]) \in rows'
           /\ Obs(id, r.items[k].old) \in D
    BY <1>1, <2>1 DEF ItemDone, TextOps
  <2>3. id \in Promise!OfName(r.items[k].name)
    BY <1>1, <2>2, SameRows DEF Meant, Promise!OfName
  <2>4. 1 \in DOMAIN <<Scrub[r.items[k].new]>>
    OBVIOUS
  <2> QED
    BY <2>2, <2>3, <2>4
<1>4. D \subseteq {Obs(id, r.items[k].old) : id \in NodeId, k \in DOMAIN r.items}
  BY <1>1 DEF q
<1>5. Promise!GrowsBy(asked)
  BY <1>2
<1>6. asked = {Promise!Obs(id, Scrub[r.items[k].new]) :
                  id \in Promise!NodeId, k \in DOMAIN r.items}
  BY SameRows
<1> HIDE DEF asked
<1>7. Promise!Stamped = D
  BY DEF Promise!Stamped
<1>8. Promise!Stamped \subseteq {Promise!Obs(id, r.items[k].old) :
                                   id \in Promise!NodeId, k \in DOMAIN r.items}
  BY <1>4, <1>7, SameRows
<1>9. \A k \in DOMAIN r.items : \E id \in Promise!OfName(r.items[k].name) :
         /\ Promise!Obs(id, r.items[k].old) \in Promise!Stamped
         /\ Promise!Obs(id, Scrub[r.items[k].new]) \in rows'
  BY <1>3, <1>7, SameRows
<1> QED
  BY <1>5, <1>6, <1>8, <1>9 DEF Promise!UpdateObservations

LEMMA CreateRelationsKept ==
    ASSUME NEW r \in RequestType, r.op = "create_relations", NEW I,
           \A asked : I \subseteq asked => Promise!GrowsBy(asked),
           \A x \in I : \E k \in DOMAIN Scrubbed(r).items : Asked(Scrubbed(r), k, x),
           \A k \in DOMAIN Scrubbed(r).items : ItemDone(Scrubbed(r), k, {}, rows'),
           dead' = dead
    PROVE  Promise!CreateRelations(r)
<1> DEFINE asked == UNION {Promise!Edges(r.items[k]) : k \in DOMAIN r.items}
<1>1. Scrubbed(r) = r
  BY ScrubbedItems DEF TextOps
<1>2. \A x \in I : \E k \in DOMAIN r.items : x \in Promise!Edges(r.items[k])
  BY <1>1 DEF Asked, TextOps
<1>3. Promise!GrowsBy(asked)
  BY <1>2
<1>4. \A k \in DOMAIN r.items : \E e \in Promise!Edges(r.items[k]) :
         Promise!Has(Promise!Key(e))
  BY <1>1, SameRows DEF ItemDone, TextOps, Promise!Has
<1> QED
  BY <1>3, <1>4 DEF Promise!CreateRelations, Promise!NoRowStamped

LEMMA MarkSupersededKept ==
    ASSUME NEW r \in RequestType, r.op = "mark_superseded", NEW t, NEW D,
           t.req = Scrubbed(r), SupersedeWork("commit", t, rows' \ rows, D),
           \A asked : rows' \ rows \subseteq asked => Promise!GrowsBy(asked),
           dead \subseteq dead', dead' \ dead = D
    PROVE  Promise!MarkSuperseded(r)
<1>1. t.req = r
  BY ScrubbedItems DEF TextOps
<1>2. PICK e \in Promise!Edges(r.items[1]) :
         /\ rows' \ rows = {e}
         /\ \A x \in D : x \in ObsRow /\ r.archive /\ x.node = e.to
  BY <1>1 DEF SupersedeWork
<1>3. D \subseteq {o \in Promise!ObsRow : r.archive /\ o.node = e.to}
  BY <1>2, SameRows
<1>4. Promise!New = {e} /\ Promise!Stamped = D /\ Promise!GrowsBy({e})
  BY <1>2 DEF Promise!New, Promise!Stamped
<1>5. e \notin rows
  BY <1>2
<1> QED
  BY <1>3, <1>4, <1>5 DEF Promise!MarkSuperseded

\* The transaction of a request takes effect as that request, applied at once.
LEMMA CommitKept ==
    ASSUME TypeOK, Work, LocksApart, KeysApart, UniqueKeys',
           NEW c \in Client, pc[c] = "commit", CommitTx(c)
    PROVE  \E r \in Request : Promise!Apply(r)
<1> DEFINE t == task[c]
<1> HIDE DEF t
<1>1. PICK r \in Request : t.req = Scrubbed(r)
  BY AtCommit DEF t
<1>2. r \in RequestType /\ t.req \in RequestType /\ t.req.op = r.op /\ r.op \in Op
  BY <1>1, RequestsAreTyped, ScrubbedTyped, RequestTyped
<1>3. /\ rows' \ rows = ins[c] /\ rows \subseteq rows'
      /\ dead' = dead \cup del[c] /\ dead' \ dead = del[c]
      /\ \A asked : ins[c] \subseteq asked => Promise!GrowsBy(asked)
  BY AtCommit
<1>4. CASE r.op \in LoopOps
  <2>1. /\ \A x \in ins[c] : \E k \in DOMAIN t.req.items : Asked(t.req, k, x)
        /\ \A x \in del[c] :
              /\ t.req.op = "update_observations"
              /\ \E k \in DOMAIN t.req.items, id \in NodeId :
                    x = Obs(id, t.req.items[k].old)
        /\ \A k \in DOMAIN t.req.items : ItemDone(t.req, k, del[c], rows')
    BY <1>2, <1>4, AtCommit DEF t
  <2>2. r.op # "update_observations" => del[c] = {} /\ dead' = dead
    BY <1>2, <1>3, <2>1
  <2>7. /\ \A x \in ins[c] : \E k \in DOMAIN Scrubbed(r).items : Asked(Scrubbed(r), k, x)
        /\ \A k \in DOMAIN Scrubbed(r).items : ItemDone(Scrubbed(r), k, del[c], rows')
    BY <1>1, <2>1
  <2>8. r.op # "update_observations" =>
           \A k \in DOMAIN Scrubbed(r).items : ItemDone(Scrubbed(r), k, {}, rows')
    BY <2>2, <2>7
  <2>3. CASE r.op = "create_nodes"
    <3>1. Promise!CreateNodes(r)
      BY <1>2, <1>3, <2>2, <2>7, <2>8, <2>3, CreateNodesKept
    <3> QED
      BY <2>3, <3>1 DEF Promise!Apply
  <2>4. CASE r.op = "add_observations"
    <3>1. Promise!AddObservations(r)
      BY <1>2, <1>3, <2>2, <2>7, <2>8, <2>4, AddObservationsKept
    <3> QED
      BY <2>4, <3>1 DEF Promise!Apply
  <2>5. CASE r.op = "update_observations"
    <3>1. /\ \A x \in del[c] : \E k \in DOMAIN Scrubbed(r).items, id \in NodeId :
                x = Obs(id, Scrubbed(r).items[k].old)
          /\ dead \subseteq dead'
      BY <1>1, <1>3, <2>1
    <3>2. Promise!UpdateObservations(r)
      BY <1>2, <1>3, <2>5, <2>7, <3>1, UpdateObservationsKept
    <3> QED
      BY <2>5, <3>2 DEF Promise!Apply
  <2>6. CASE r.op = "create_relations"
    <3>1. Promise!CreateRelations(r)
      BY <1>2, <1>3, <2>2, <2>7, <2>8, <2>6, CreateRelationsKept
    <3> QED
      BY <2>6, <3>1 DEF Promise!Apply
  <2> QED
    BY <1>4, <2>3, <2>4, <2>5, <2>6 DEF LoopOps, TextOps
<1>5. CASE r.op = "mark_superseded"
  <2>1. SupersedeWork("commit", t, rows' \ rows, del[c])
    BY <1>2, <1>3, <1>5, AtCommit DEF t
  <2>2. /\ \A asked : rows' \ rows \subseteq asked => Promise!GrowsBy(asked)
        /\ dead \subseteq dead'
    BY <1>3
  <2>3. Promise!MarkSuperseded(r)
    BY <1>1, <1>2, <1>3, <1>5, <2>1, <2>2, MarkSupersededKept
  <2> QED
    BY <1>5, <2>3 DEF Promise!Apply
<1>6. CASE r.op \in {"session_start", "session_end"}
  <2>1. t.req = r
    BY <1>1, <1>2, <1>6, ScrubbedItems DEF TextOps
  <2>2. SessionWork("commit", t, ins[c], del[c], rows', dead')
    BY <1>6, <2>1, AtCommit DEF t, SessionOp
  <2>3. CASE r.op = "session_start"
    <3>1. PICK s \in Session : ins[c] = {Sess(s)} /\ del[c] = {}
      BY <2>1, <2>2, <2>3 DEF SessionWork
    <3>2. /\ Promise!New = {Promise!Sess(s)} /\ Promise!GrowsBy({Promise!Sess(s)})
          /\ dead' = dead
      BY <1>3, <3>1, SameRows DEF Promise!New
    <3>3. Promise!StartSession
      BY <3>2 DEF Promise!StartSession, Promise!NoRowStamped
    <3> QED
      BY <2>3, <3>3 DEF Promise!Apply
  <2>4. CASE r.op = "session_end"
    <3>1. /\ ins[c] = {} /\ del[c] \subseteq {Sess(r.session)}
          /\ Sess(r.session) \in rows' /\ Sess(r.session) \in dead'
      BY <2>1, <2>2, <2>4 DEF SessionWork
    <3>2. rows' = rows /\ dead' = dead \cup {Sess(r.session)}
      BY <1>3, <3>1
    <3>3. Promise!EndSession(r)
      BY <3>1, <3>2, SameRows DEF Promise!EndSession
    <3> QED
      BY <2>4, <3>3 DEF Promise!Apply
  <2> QED
    BY <1>6, <2>3, <2>4
<1> QED
  BY <1>2, <1>4, <1>5, <1>6 DEF Op, LoopOps, TextOps

-------------------------------------------------------------------------------
(* The two properties. *)

LEMMA WorkInvHolds == Spec => [](GraphInv /\ WorkInv)
<1>1. Init => WorkInv
  <2> SUFFICES ASSUME Init PROVE WorkInv
    OBVIOUS
  <2>1. LocksApart
    BY DEF Init, StoreInit, LocksApart
  <2>2. \A c \in Client : pc[c] = "idle" /\ ins[c] = {} /\ del[c] = {}
    BY DEF Init, StoreInit
  <2>3. \A c \in Client :
           /\ WorkFits(pc[c], task[c], ins[c], del[c], Visible(c), dead \cup del[c])
           /\ CountFits(pc[c], task[c], ins[c], del[c])
    BY <2>2 DEF WorkFits, CountFits, OutsideTx
  <2> QED
    BY <2>1, <2>3 DEF WorkInv
<1>2. WorkInv <=> LocksApart /\ Work
  BY DEF WorkInv, Work
<1>3. GraphInv /\ WorkInv /\ [Next]_vars => WorkInv'
  <2> SUFFICES ASSUME GraphInv, WorkInv, [Next]_vars PROVE WorkInv'
    OBVIOUS
  <2>1. TypeOK /\ TargetsExist /\ Statement
    BY StepIsStatement DEF GraphInv
  <2>2. LocksApart' /\ Work'
    BY <1>2, <2>1, LocksStep, WorkInductive
  <2> QED
    BY <2>2 DEF WorkInv, Work
<1> QED
  BY <1>1, <1>3, GraphInvInductive, PTL DEF Spec

\* Between any two of its statements, and whatever the other transactions do
\* meanwhile, a write handler (internal/mcp) has done what it is past of its
\* request: the invariant that the next two theorems rest on.
THEOREM TransactionsDoTheirWork == Spec => []WorkInv
BY WorkInvHolds, PTL

\* Only a commit and an operator change the graph.
LEMMA WhatChangesTheGraph ==
    ASSUME [Next]_vars
    PROVE  \/ \E c \in Client : pc[c] = "commit" /\ CommitTx(c)
           \/ AdminStep
           \/ UNCHANGED <<rows, dead>>
<1>1. ASSUME NEW c \in Client, HandlerStep(c)
      PROVE  (pc[c] = "commit" /\ CommitTx(c)) \/ UNCHANGED <<rows, dead>>
  <2>1. CASE CheckSession(c) \/ Begin(c) \/ FindNode(c) \/ FindOther(c) \/ Archive(c)
             \/ CountSessionNodes(c) \/ LookupExisting(c)
    BY <2>1 DEF CheckSession, Begin, FindNode, FindOther, Archive, CountSessionNodes,
                LookupExisting, Abort, RollbackTx, storeVars
  <2>2. CASE Create(c) \/ InsertObservation(c) \/ Relate(c) \/ StartSession(c)
    BY <2>2 DEF Create, InsertObservation, Relate, StartSession, InsertRow, Abort, RollbackTx
  <2>3. CASE MarkObservationDeleted(c) \/ ArchiveRow(c) \/ EndSession(c)
    BY <2>3 DEF MarkObservationDeleted, ArchiveRow, EndSession, StampRow, Abort,
                RollbackTx, storeVars
  <2>4. CASE Commit(c) \/ DeadlockVictim(c)
    BY <2>4 DEF Commit, DeadlockVictim, Abort, RollbackTx
  <2> QED
    BY <1>1, <2>1, <2>2, <2>3, <2>4 DEF HandlerStep
<1>2. ASSUME NEW c \in Client, Fail(c) \/ CommitUnacknowledged(c)
      PROVE  (pc[c] = "commit" /\ CommitTx(c)) \/ UNCHANGED <<rows, dead>>
  BY <1>2 DEF Fail, CommitUnacknowledged, Abort, RollbackTx
<1>3. ASSUME NEW c \in Client, NEW r \in Request, Receive(c, r)
      PROVE  UNCHANGED <<rows, dead>>
  BY <1>3 DEF Receive, storeVars
<1>4. CASE UNCHANGED vars
  BY <1>4 DEF vars
<1> QED
  BY <1>1, <1>2, <1>3, <1>4 DEF Next

LEMMA AdminKept ==
    ASSUME TypeOK, AdminStep
    PROVE  Promise!OperatorDelete
<1>1. ASSUME NEW S, S \subseteq rows, NEW tab \in {"nodes", "observations", "relations"},
             \A r \in S : r.tab = tab, StampNow(S)
      PROVE  Promise!OperatorDelete
  <2>1. rows' = rows /\ dead' = dead \cup S
    BY <1>1 DEF StampNow
  <2>2. \A r \in Promise!Stamped : r \in rows /\ r.tab = tab
    BY <1>1, <2>1 DEF Promise!Stamped
  <2> QED
    BY <2>1, <2>2 DEF Promise!OperatorDelete
<1>2. PICK d \in Deletion :
         AdminDeleteNode(d) \/ AdminDeleteObservation(d) \/ AdminDeleteRelation(d)
  BY DEF AdminStep
<1>3. CASE AdminDeleteNode(d)
  <2>1. \A r \in NodesNamed(d.name) : r \in rows /\ r.tab = "nodes"
    BY DEF NodesNamed, LiveRows
  <2> QED
    BY <1>1, <1>3, <2>1 DEF AdminDeleteNode
<1>4. CASE AdminDeleteObservation(d)
  <2> DEFINE S == {Obs(d.node, d.text)} \cap LiveRows
  <2>1. \A r \in S : r \in rows /\ r.tab = "observations"
    BY DEF Obs, LiveRows
  <2>2. StampNow(S)
    BY <1>4 DEF AdminDeleteObservation
  <2> HIDE DEF S
  <2> QED
    BY <1>1, <2>1, <2>2
<1>5. CASE AdminDeleteRelation(d)
  <2> DEFINE from == FirstHomonym(NodesNamed(d.from))
             to   == FirstHomonym(NodesNamed(d.to))
             S    == {r \in LiveRows : /\ r.tab = "relations"
                                       /\ r.from = from /\ r.to = to /\ r.type = d.type}
  <2>1. \A r \in S : r \in rows /\ r.tab = "relations"
    BY DEF LiveRows
  <2>2. StampNow(S)
    BY <1>5 DEF AdminDeleteRelation
  <2> HIDE DEF S
  <2> QED
    BY <1>1, <2>1, <2>2
<1> QED
  BY <1>2, <1>3, <1>4, <1>5

\* However the statements of concurrent requests interleave, abort, wait for
\* each other and fail to be acknowledged, the graph only ever changes by one
\* whole request, scrubbed, or by one operator's delete (internal/mcp over
\* internal/store): GraphTools implements GraphPromise.
THEOREM GraphToolsImplementsPromise == Spec => Implements
<1>1. Init => Promise!Init
  BY DEF Init, StoreInit, Promise!Init
<1>2. GraphInv /\ WorkInv /\ GraphInv' /\ [Next]_vars => [Promise!Next]_<<rows, dead>>
  <2> SUFFICES ASSUME GraphInv, WorkInv, GraphInv', [Next]_vars
               PROVE  [Promise!Next]_<<rows, dead>>
    OBVIOUS
  <2>1. TypeOK /\ KeysApart /\ UniqueKeys' /\ LocksApart /\ Work
    BY DEF GraphInv, WorkInv, Work
  <2>2. ASSUME NEW c \in Client, pc[c] = "commit", CommitTx(c)
        PROVE  Promise!Next
    BY <2>1, <2>2, CommitKept DEF Promise!Next
  <2>3. CASE AdminStep
    BY <2>1, <2>3, AdminKept DEF Promise!Next
  <2> QED
    BY <2>2, <2>3, WhatChangesTheGraph
<1> QED
  BY <1>1, <1>2, WorkInvHolds, GraphInvInductive, PTL DEF Spec, Implements, Promise!Spec

\* Only the commit of a request, and the count that follows session_end's,
\* answer with success.
LEMMA OkComesFromCommit ==
    ASSUME TypeOK, [Next]_vars, NEW c \in Client,
           res[c].status = "pending", res'[c].status = "ok"
    PROVE  Commit(c) \/ (pc[c] = "count" /\ CountSessionNodes(c))
<1>1. res \in [Client -> [status : Status, nodes : Nat, n : Nat]]
  BY DEF TypeOK
<1>2. ASSUME NEW d \in Client, NEW s, s # "ok", Abort(d, s) PROVE FALSE
  BY <1>1, <1>2 DEF Abort, Reply, Answer
<1>3. ASSUME NEW d \in Client, NEW label, NEW t, Goto(d, label, t) PROVE FALSE
  BY <1>3 DEF Goto
<1>4. ASSUME NEW d \in Client, NEW t, NextItem(d, t) PROVE FALSE
  BY <1>3, <1>4 DEF NextItem
<1>5. ASSUME NEW d \in Client, NEW t, NextText(d, t) PROVE FALSE
  BY <1>3, <1>4, <1>5 DEF NextText
<1>6. ASSUME NEW d \in Client, HandlerStep(d)
      PROVE  d = c /\ (Commit(c) \/ (pc[c] = "count" /\ CountSessionNodes(c)))
  <2>1. CASE CheckSession(d)
    <3>1. Reply(d, Answer("rejected", 0, 0)) => FALSE
      BY <1>1 DEF Reply, Answer
    <3> QED
      BY <1>3, <2>1, <3>1 DEF CheckSession
  <2>2. CASE Begin(d) \/ Archive(d) \/ StartSession(d)
    BY <1>3, <2>2 DEF Begin, Archive, StartSession
  <2>3. CASE Create(d) \/ InsertObservation(d)
    BY <1>3, <1>5, <2>3 DEF Create, InsertObservation
  <2>4. CASE LookupExisting(d)
    BY <1>2, <1>5, <2>4 DEF LookupExisting
  <2>5. CASE FindNode(d) \/ FindOther(d)
    BY <1>2, <1>3, <1>5, <2>5 DEF FindNode, FindOther
  <2>6. CASE MarkObservationDeleted(d) \/ EndSession(d)
    BY <1>2, <1>3, <2>6 DEF MarkObservationDeleted, EndSession
  <2>7. CASE Relate(d)
    BY <1>2, <1>3, <1>4, <2>7 DEF Relate
  <2>8. CASE ArchiveRow(d)
    BY <1>3, <1>4, <2>8 DEF ArchiveRow
  <2>9. CASE DeadlockVictim(d)
    BY <1>2, <2>9 DEF DeadlockVictim
  <2>10. CASE Commit(d)
    <3>1. d # c => res'[c] = res[c]
      BY <1>1, <2>10 DEF Commit, Goto, Reply
    <3> QED
      BY <2>10, <3>1
  <2>11. CASE CountSessionNodes(d)
    <3>1. d # c => res'[c] = res[c]
      BY <1>1, <2>11 DEF CountSessionNodes, Reply
    <3> QED
      BY <2>11, <3>1 DEF CountSessionNodes
  <2> QED
    BY <1>6, <2>1, <2>2, <2>3, <2>4, <2>5, <2>6, <2>7, <2>8, <2>9, <2>10, <2>11
    DEF HandlerStep
<1>7. ASSUME NEW d \in Client, Fail(d) \/ CommitUnacknowledged(d) PROVE FALSE
  BY <1>1, <1>2, <1>7 DEF Fail, CommitUnacknowledged, Reply, Answer
<1>8. ASSUME NEW d \in Client, NEW r \in Request, Receive(d, r) PROVE FALSE
  BY <1>1, <1>8 DEF Receive, Answer
<1>9. AdminStep \/ UNCHANGED vars => FALSE
  BY DEF AdminStep, handlerVars, vars
<1> QED
  BY <1>6, <1>7, <1>8, <1>9 DEF Next

LEMMA CommitIsExact ==
    ASSUME TypeOK, Work, LocksApart, KeysApart, UniqueKeys', NEW c \in Client,
           Commit(c), res'[c].status = "ok", res[c].status = "pending"
    PROVE  LET op == task[c].req.op
           IN /\ op \in {"create_nodes", "add_observations"} =>
                    res'[c].n = Cardinality(AddedTo("observations"))
              /\ op = "create_relations" => res'[c].n = Cardinality(AddedTo("relations"))
              /\ op \in {"update_observations", "mark_superseded"} =>
                    res'[c].n = Cardinality(Retired)
<1> DEFINE t == task[c]
<1>1. pc[c] = "commit" /\ CommitTx(c) /\ res \in [Client -> [status : Status, nodes : Nat, n : Nat]]
  BY DEF Commit, TypeOK
<1>2. /\ t.req \in RequestType
      /\ rows' \ rows = ins[c] /\ dead' \ dead = del[c]
      /\ t.req.op \in LoopOps =>
            \A x \in del[c] : \E k \in DOMAIN t.req.items, id \in NodeId :
               x = Obs(id, t.req.items[k].old)
      /\ t.req.op = "mark_superseded" => SupersedeWork("commit", t, ins[c], del[c])
      /\ CountFits("commit", t, ins[c], del[c])
  BY <1>1, AtCommit
<1>3. TaskTyped(t)
  BY <1>1, TaskOf DEF TaskFits
<1>4. \A tab : AddedTo(tab) = RowsOf(tab, ins[c])
  BY <1>2 DEF AddedTo, RowsOf
<1>5. res'[c].n = IF t.req.op = "update_observations" THEN Len(t.req.items) ELSE t.n
  <2>1. CASE t.req.op = "session_end"
    BY <1>1, <2>1 DEF Commit, Goto
  <2>2. CASE t.req.op = "update_observations"
    BY <1>1, <2>2 DEF Commit, Reply, Answer
  <2>3. CASE t.req.op \notin {"session_end", "update_observations"}
    BY <1>1, <2>3 DEF Commit, Reply, Answer
  <2> QED
    BY <2>1, <2>2, <2>3
<1>6. CASE t.req.op \in LoopOps
  <2>1. Counted(t, ins[c], del[c], Len(t.req.items))
    BY <1>2, <1>3, <1>6, LoopCount
  <2>2. t.req.op = "update_observations" => Retired = del[c]
    <3>1. \A x \in del[c] : x.tab = "observations"
      BY <1>2, <1>6 DEF Obs
    <3> QED
      BY <1>2, <3>1 DEF Retired
  <2> QED
    BY <1>4, <1>5, <1>6, <2>1, <2>2 DEF Counted, RowsOf, LoopOps, TextOps
<1>7. CASE t.req.op = "mark_superseded"
  <2>1. t.n = Cardinality(del[c])
    BY <1>2, <1>7 DEF CountFits, OutsideTx
  <2>2. \A x \in del[c] : x.tab = "observations"
    BY <1>2, <1>7 DEF SupersedeWork, ObsRow
  <2>3. Retired = del[c]
    BY <1>2, <2>2 DEF Retired
  <2> QED
    BY <1>5, <1>7, <2>1, <2>3
<1> QED
  BY <1>6, <1>7 DEF LoopOps, TextOps

\* The counters that the write tools return (createdObs, created, deleted,
\* archived in internal/mcp) are the rows that the request's own transaction
\* brought to, or retired from, the committed tables.
THEOREM AnswersCountOwnRows == Spec => AnswersAreExact
<1> DEFINE Exact == \A c \in Client :
             res[c].status = "pending" /\ res'[c].status = "ok" =>
               CASE task[c].req.op \in {"create_nodes", "add_observations"} ->
                      res'[c].n = Cardinality(AddedTo("observations"))
                 [] task[c].req.op = "create_relations" ->
                      res'[c].n = Cardinality(AddedTo("relations"))
                 [] task[c].req.op \in {"update_observations", "mark_superseded"} ->
                      res'[c].n = Cardinality(Retired)
                 [] OTHER -> TRUE
<1>1. GraphInv /\ WorkInv /\ GraphInv' /\ [Next]_vars => [Exact]_vars
  <2> SUFFICES ASSUME GraphInv, WorkInv, GraphInv', [Next]_vars,
                      NEW c \in Client, res[c].status = "pending", res'[c].status = "ok"
               PROVE  LET op == task[c].req.op
                      IN /\ op \in {"create_nodes", "add_observations"} =>
                               res'[c].n = Cardinality(AddedTo("observations"))
                         /\ op = "create_relations" =>
                               res'[c].n = Cardinality(AddedTo("relations"))
                         /\ op \in {"update_observations", "mark_superseded"} =>
                               res'[c].n = Cardinality(Retired)
    OBVIOUS
  <2>1. TypeOK /\ KeysApart /\ UniqueKeys' /\ LocksApart /\ Work
    BY DEF GraphInv, WorkInv, Work
  <2>2. Commit(c) \/ (pc[c] = "count" /\ CountSessionNodes(c))
    BY <2>1, OkComesFromCommit
  <2>3. pc[c] = "count" => task[c].req.op = "session_end"
    BY <2>1, TaskOf DEF TaskFits, OpsAt
  <2> QED
    BY <2>1, <2>2, <2>3, CommitIsExact
<1> QED
  BY <1>1, WorkInvHolds, GraphInvInductive, PTL DEF Spec, AnswersAreExact
===============================================================================
