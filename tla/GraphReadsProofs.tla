-------------------------- MODULE GraphReadsProofs --------------------------
(***************************************************************************)
(* Theorems about GraphReads, for any graph, writers, queries, limits and  *)
(* number of requests in flight.                                           *)
(***************************************************************************)
EXTENDS GraphReads, FiniteSetTheorems, WellFoundedInduction, TLAPS

-------------------------------------------------------------------------------
(* Finite sets. *)

\* A minimal element of a family of finite sets stands in for induction.
LEMMA FamilyHasMinimal ==
    ASSUME NEW F, F # {}, \A A \in F : IsFiniteSet(A)
    PROVE  \E A \in F : \A B \in F : B \subseteq A => B = A
<1> DEFINE S == UNION F
<1>1. F \subseteq FiniteSubsetsOf(S)
  BY DEF FiniteSubsetsOf
<1>2. PICK A \in F : \A B \in F : ~(<<B, A>> \in StrictSubsetOrdering(S))
  <2>1. IsWellFoundedOn(StrictSubsetOrdering(S), FiniteSubsetsOf(S))
    BY FS_StrictSubsetOrderingWellFounded
  <2> QED
    BY <1>1, <2>1, WFMin
<1> QED
  BY <1>2 DEF StrictSubsetOrdering

LEMMA LeastNumber ==
    ASSUME NEW A \in SUBSET Nat, A # {}
    PROVE  \E m \in A : \A n \in A : m <= n
<1> DEFINE Below(n) == 0..n
           F == {Below(n) : n \in A}
<1>1. F # {}
  OBVIOUS
<1>2. \A B \in F : IsFiniteSet(B)
  BY FS_Interval
<1>3. PICK B \in F : \A C \in F : C \subseteq B => C = B
  <2> HIDE DEF F
  <2> QED
    BY <1>1, <1>2, FamilyHasMinimal
<1>4. PICK m \in A : B = Below(m)
  OBVIOUS
<1>5. ASSUME NEW n \in A PROVE m <= n
  <2>1. SUFFICES ASSUME n < m PROVE FALSE
    OBVIOUS
  <2>2. m \in Nat /\ n \in Nat
    OBVIOUS
  <2>3. Below(n) \subseteq Below(m)
    BY <2>1, <2>2
  <2>4. Below(n) = Below(m)
    BY <1>3, <1>4, <2>3
  <2>5. m \in Below(m) /\ m \notin Below(n)
    BY <2>1, <2>2
  <2> QED
    BY <2>4, <2>5
<1> QED
  BY <1>5

\* A nonempty finite set of numbers has a largest one, and Max is it.
LEMMA MaxIsLargest ==
    ASSUME NEW A \in SUBSET Nat, IsFiniteSet(A), A # {}
    PROVE  Max(A) \in A /\ \A n \in A : Max(A) >= n
<1> DEFINE Above(n) == {k \in A : k > n}
           F == {Above(n) : n \in A}
<1>1. F # {}
  OBVIOUS
<1>2. \A B \in F : IsFiniteSet(B)
  BY FS_Subset
<1>3. PICK B \in F : \A C \in F : C \subseteq B => C = B
  <2> HIDE DEF F
  <2> QED
    BY <1>1, <1>2, FamilyHasMinimal
<1>4. PICK m \in A : B = Above(m)
  OBVIOUS
<1>5. ASSUME NEW n \in A PROVE m >= n
  <2>1. SUFFICES ASSUME n > m PROVE FALSE
    OBVIOUS
  <2>2. m \in Nat /\ n \in Nat
    OBVIOUS
  <2>3. Above(n) \subseteq Above(m)
    <3>1. ASSUME NEW k \in A, k > n PROVE k > m
      BY <2>1, <2>2, <3>1
    <3> QED
      BY <3>1
  <2>4. Above(n) = Above(m)
    BY <1>3, <1>4, <2>3
  <2>5. n \in Above(m) /\ n \notin Above(n)
    BY <2>1, <2>2
  <2> QED
    BY <2>4, <2>5
<1> QED
  BY <1>5 DEF Max

\* A nonempty result of Lowest is cut from the front of the set.
LEMMA SomeOfK ==
    ASSUME NEW S, IsFiniteSet(S), S # {}, NEW k \in Nat \ {0},
           NEW T \in kSubset(IF Cardinality(S) < k THEN Cardinality(S) ELSE k, S)
    PROVE  T \subseteq S /\ T # {} /\ IsFiniteSet(T)
<1>1. Cardinality(S) \in Nat /\ Cardinality(S) # 0
  BY FS_CardinalityType, FS_EmptySet
<1>2. T \subseteq S /\ Cardinality(T) = IF Cardinality(S) < k THEN Cardinality(S) ELSE k
  BY DEF kSubset
<1>3. Cardinality(T) # 0
  BY <1>1, <1>2
<1> QED
  BY <1>2, <1>3, FS_EmptySet, FS_Subset

-------------------------------------------------------------------------------
(* Rows and their times: C and W are came and went, K is created.             *)

IdsOf(S) == {IdOf(x) : x \in {y \in S : y.tab = "nodes"}}

Was(x, t, C, W) == x \in DOMAIN C /\ (x \in DOMAIN W => W[x] > t)

Since(x, t, C, W) == x \in DOMAIN C \ DOMAIN W /\ C[x] <= t

IsNode(x, id) == x.tab = "nodes" /\ IdOf(x) = id

NodeWas(id, t, C, W) == \E x \in DOMAIN C : IsNode(x, id) /\ Was(x, t, C, W)

NodeSince(id, t, C, W) == \E x \in DOMAIN C : IsNode(x, id) /\ Since(x, t, C, W)

LiveIds(C, W) == IdsOf(DOMAIN C \ DOMAIN W)

\* Keys are apart, rows refer to nodes, and times are in order.
Tables(n, C, W, K) ==
    /\ n \in Nat
    /\ DOMAIN C \subseteq Row /\ IsFiniteSet(DOMAIN C) /\ DOMAIN W \subseteq DOMAIN C
    /\ \A x, y \in DOMAIN C : Key(x) = Key(y) => x = y
    /\ \A x \in DOMAIN C : NodesOf(x) \subseteq DOMAIN K
    /\ \A x \in DOMAIN C : C[x] \in Nat /\ C[x] <= n
    /\ \A x \in DOMAIN W : W[x] \in Nat /\ C[x] < W[x] /\ W[x] <= n
    /\ DOMAIN K = IdsOf(DOMAIN C)
    /\ \A id \in DOMAIN K : K[id] \in Nat

\* What a tick of the clock may do to the tables.
Grown(n, C, W, K, C2, W2, K2) ==
    /\ DOMAIN C \subseteq DOMAIN C2 /\ DOMAIN W \subseteq DOMAIN W2
    /\ DOMAIN K \subseteq DOMAIN K2
    /\ \A x \in DOMAIN C2 : C2[x] = IF x \in DOMAIN C THEN C[x] ELSE n + 1
    /\ \A x \in DOMAIN W2 : W2[x] = IF x \in DOMAIN W THEN W[x] ELSE n + 1
    /\ \A id \in DOMAIN K : K2[id] = K[id]

LEMMA IdTyped ==
    ASSUME NEW x \in Row, x.tab = "nodes"
    PROVE  /\ x \in NodeRow /\ IdOf(x) \in NodeId
           /\ Key(x) = <<"nodes", IdOf(x).project, IdOf(x).name>>
BY DEF Row, NodeRow, ObsRow, RelRow, SessRow, IdOf, NodeId, Key

LEMMA IdsTyped ==
    ASSUME NEW S \in SUBSET Row
    PROVE  IdsOf(S) \subseteq NodeId
BY IdTyped DEF IdsOf

LEMMA OneRowPerNode ==
    ASSUME NEW n, NEW C, NEW W, NEW K, Tables(n, C, W, K),
           NEW x \in DOMAIN C, NEW y \in DOMAIN C, NEW id, IsNode(x, id), IsNode(y, id)
    PROVE  x = y
<1>1. Key(x) = Key(y)
  BY IdTyped DEF Tables, IsNode
<1> QED
  BY <1>1 DEF Tables

LEMMA NodeOfId ==
    ASSUME NEW S, NEW id \in IdsOf(S)
    PROVE  \E x \in S : IsNode(x, id)
BY DEF IdsOf, IsNode

LEMMA IdOfNode ==
    ASSUME NEW S, NEW x \in S, NEW id, IsNode(x, id)
    PROVE  id \in IdsOf(S)
BY DEF IdsOf, IsNode

LEMMA FewIds ==
    ASSUME NEW S, IsFiniteSet(S)
    PROVE  IsFiniteSet(IdsOf(S))
<1> DEFINE N == {x \in S : x.tab = "nodes"}
           f == [x \in N |-> IdOf(x)]
<1>1. IsFiniteSet(N)
  BY FS_Subset
<1>2. f \in Surjection(N, IdsOf(S))
  BY DEF Surjection, IdsOf
<1> QED
  BY <1>1, <1>2, FS_Surjection

\* A row is live since t only if it was before the tables grew, and was live at
\* some moment since t whatever they have grown to.
LEMMA TimesStay ==
    ASSUME NEW n, NEW C, NEW W, NEW K, NEW C2, NEW W2, NEW K2, Tables(n, C, W, K),
           Grown(n, C, W, K, C2, W2, K2), NEW x, NEW t \in Nat, t <= n
    PROVE  /\ Was(x, t, C, W) => Was(x, t, C2, W2)
           /\ Since(x, t, C2, W2) => Since(x, t, C, W)
<1>1. ASSUME Was(x, t, C, W) PROVE Was(x, t, C2, W2)
  <2>1. CASE x \in DOMAIN W
    BY <1>1, <2>1 DEF Was, Grown
  <2>2. CASE x \notin DOMAIN W
    <3>1. x \in DOMAIN W2 => W2[x] = n + 1
      BY <2>2 DEF Grown
    <3>2. n + 1 > t
      BY DEF Tables
    <3> QED
      BY <1>1, <3>1, <3>2 DEF Was, Grown
  <2> QED
    BY <2>1, <2>2
<1>2. ASSUME Since(x, t, C2, W2) PROVE Since(x, t, C, W)
  <2>1. x \in DOMAIN C2 /\ x \notin DOMAIN W /\ C2[x] <= t
    BY <1>2 DEF Since, Grown
  <2>2. C2[x] = IF x \in DOMAIN C THEN C[x] ELSE n + 1
    BY <2>1 DEF Grown
  <2>3. x \in DOMAIN C
    BY <2>1, <2>2 DEF Tables
  <2> QED
    BY <2>1, <2>2, <2>3 DEF Since
<1> QED
  BY <1>1, <1>2

LEMMA NodeTimesStay ==
    ASSUME NEW n, NEW C, NEW W, NEW K, NEW C2, NEW W2, NEW K2, Tables(n, C, W, K),
           Grown(n, C, W, K, C2, W2, K2), NEW id, NEW t \in Nat, t <= n
    PROVE  /\ NodeWas(id, t, C, W) => NodeWas(id, t, C2, W2)
           /\ NodeSince(id, t, C2, W2) => NodeSince(id, t, C, W) /\ id \in DOMAIN K
<1>1. ASSUME NodeWas(id, t, C, W) PROVE NodeWas(id, t, C2, W2)
  <2>1. PICK x \in DOMAIN C : IsNode(x, id) /\ Was(x, t, C, W)
    BY <1>1 DEF NodeWas
  <2>2. Was(x, t, C2, W2)
    BY <2>1, TimesStay
  <2> QED
    BY <2>1, <2>2 DEF NodeWas, Was
<1>2. ASSUME NodeSince(id, t, C2, W2) PROVE NodeSince(id, t, C, W) /\ id \in DOMAIN K
  <2>1. PICK x \in DOMAIN C2 : IsNode(x, id) /\ Since(x, t, C2, W2)
    BY <1>2 DEF NodeSince
  <2>2. Since(x, t, C, W)
    BY <2>1, TimesStay
  <2>3. x \in DOMAIN C
    BY <2>2 DEF Since
  <2> QED
    BY <2>1, <2>2, <2>3, IdOfNode DEF NodeSince, Tables
<1> QED
  BY <1>1, <1>2

-------------------------------------------------------------------------------
(* The inductive invariant.                                                    *)

ToolOp == GraphOp \cup ViewerOp

Best == {<<>>} \cup UNION {[S -> 0..100] : S \in SUBSET NodeId}

Task ==
    [q : Query \cup {None}, t0 : Nat, ids : SUBSET NodeId, obs : SUBSET Row,
     rels : SUBSET Row, best : Best, left : SUBSET Row, off : Nat, more : BOOLEAN,
     start : Nat, shown : SUBSET NodeId]

\* Which statements a tool runs, and that it has nothing before the first.
Control(p, t) ==
    /\ p \in {"observations", "relations"} => t.q.op \in ToolOp
    /\ p = "by_type" => t.q.op = "stats"
    /\ p \in {"target", "embeddings", "similar"} => t.q.op = "find_conflicts"
    /\ p \in {"session", "audit"} => t.q.op = "session_summary"
    /\ p \in {"cached", "centroids", "put"} => t.q.op = "suggest_node_type"
    /\ p = "nodes" => t.q.op \notin {"find_conflicts", "session_summary"}
    /\ p = "next_page" \/ t.more => t.q.op = "timeline"
    /\ p # "idle" => t.q \in Query
    /\ p \in {"idle", "nodes", "target", "session", "audit", "cached", "centroids",
               "next_page"} =>
         /\ t.ids = {} /\ t.obs = {} /\ t.rels = {} /\ t.left = {}
         /\ DOMAIN t.best = {} /\ ~t.more

\* The answer so far is of the tables, and no older than the request.
Current(p, t, n, C, W, K) ==
    /\ t.ids \subseteq DOMAIN K /\ t.obs \cup t.rels \cup t.left \subseteq DOMAIN C
    /\ DOMAIN t.best \subseteq DOMAIN K
    /\ t.t0 <= n /\ t.start <= n
    /\ t.q.op \in ToolOp \cup {"stats"} =>
         /\ \A id \in t.ids : NodeWas(id, t.t0, C, W)
         /\ \A x \in t.obs \cup t.rels : Was(x, t.t0, C, W)
    /\ t.q.op = "find_conflicts" => \A id \in DOMAIN t.best : NodeWas(id, t.t0, C, W)

Together(t, C, W) ==
    t.q.op \in ToolOp =>
      /\ \A o \in t.obs : o.node \in t.ids
      /\ \A l \in t.rels :
            /\ NodeWas(l.from, t.t0, C, W) /\ NodeWas(l.to, t.t0, C, W)
            /\ t.q.op \in GraphOp => {l.from, l.to} \subseteq t.ids
            /\ l.from \in t.ids \/ l.to \in t.ids

Complete(p, t, C, W, K) ==
    /\ p \in {"by_type", "observations", "relations", "reply"}
       /\ t.q.op \in {"read_graph", "open_nodes", "stats"} =>
         \A id \in DOMAIN K :
            /\ NodeSince(id, t.t0, C, W) /\ InScope(id, t.q.project)
            /\ t.q.op = "open_nodes" => id.name \in t.q.names
            => id \in t.ids
    /\ p \in {"relations", "reply"} /\ t.q.op \in ToolOp =>
         \A x \in DOMAIN C : Since(x, t.t0, C, W) /\ x.tab = "observations"
                             /\ x.node \in t.ids => x \in t.obs
    /\ p = "reply" /\ t.q.op \in ToolOp =>
         \A x \in DOMAIN C :
            Since(x, t.t0, C, W) /\ x.tab = "relations"
            /\ {x.from, x.to} \subseteq t.ids \cap LiveIds(C, W) => x \in t.rels
    /\ p = "reply" /\ t.q.op = "session_summary" =>
         \A x \in DOMAIN C : x.tab = "nodes" /\ x.session = t.q.session /\ C[x] <= t.t0
                             => IdOf(x) \in t.ids

\* The observations find_conflicts should compare.
Steady(x, t, C, W) ==
    /\ x.tab = "observations" /\ x.text \in Embedded
    /\ Since(x, t, C, W) /\ NodeSince(x.node, t, C, W)

Alike(own, x, tgt) ==
    /\ own.node = tgt /\ x.node # tgt /\ x.node.project = tgt.project
    /\ Likeness[own.text][x.text] >= MinSim

Reported(best, sim) == \E id \in DOMAIN best : best[id] >= sim

Closest(p, t, C, W, K) ==
    t.q.op = "find_conflicts" /\ p \in {"embeddings", "similar", "reply"} =>
      \E tgt \in DOMAIN K :
         /\ t.ids = {tgt} /\ tgt \notin DOMAIN t.best
         /\ p = "embeddings" => DOMAIN t.best = {}
         /\ p # "similar" => t.left = {}
         /\ \A o \in t.left : o.tab = "observations"
         /\ p # "embeddings" =>
              \A own, x \in DOMAIN C :
                 Steady(own, t.t0, C, W) /\ Steady(x, t.t0, C, W) /\ Alike(own, x, tgt)
                 => own \in t.left \/ Reported(t.best, Likeness[own.text][x.text])

\* The list a client pages through.
Before(id, jd, K) == K[id] > K[jd] \/ (K[id] = K[jd] /\ Rank[id] > Rank[jd])

Window(id, q, K) ==
    (q.since = None \/ K[id] >= q.since) /\ (q.until = None \/ K[id] <= q.until)

Listing(q, C, W, K) == {id \in LiveIds(C, W) : InScope(id, q.project) /\ Window(id, q, K)}

PlaceIn(id, S, K) == Cardinality({jd \in S : Before(jd, id, K)})

\* The nodes a client that pages should see.
Awaited(id, t, C, W, K) ==
    NodeSince(id, t.start, C, W) /\ InScope(id, t.q.project) /\ Window(id, t.q, K)

\* Unless a node has gone since, the places passed hold no node to be seen yet.
Paging(p, t, C, W, K) ==
    t.q.op = "timeline" =>
      /\ p \in {"observations", "relations", "reply"} /\ t.more =>
           Cardinality(t.ids) = ClampLimit(t.q.limit)
      /\ (\A x \in DOMAIN W : x.tab = "nodes" => W[x] <= t.start) =>
         \A id \in DOMAIN K : Awaited(id, t, C, W, K) =>
           LET place == PlaceIn(id, Listing(t.q, C, W, K), K)
               off == ClampOffset(t.off)
           IN /\ p \in {"nodes", "next_page"} => (place < off => id \in t.shown)
              /\ p \in {"observations", "relations", "reply"} =>
                   (place < off + ClampLimit(t.q.limit) \/ ~t.more
                    => id \in t.shown \cup t.ids)

Fits(p, t, n, C, W, K) ==
    /\ Control(p, t) /\ Current(p, t, n, C, W, K) /\ Together(t, C, W)
    /\ Complete(p, t, C, W, K) /\ Closest(p, t, C, W, K) /\ Paging(p, t, C, W, K)

\* The entries of the cache hold rows of the tables, and none is of the future.
Stored(c, n, C) ==
    /\ DOMAIN c \subseteq Project \cup {None}
    /\ \A k \in DOMAIN c : c[k].obs \subseteq DOMAIN C /\ c[k].at \in Nat /\ c[k].at <= n

Inv ==
    /\ now \in 1..MaxTime /\ Tables(now, came, went, created)
    /\ pc \in [Reader -> Label] /\ task \in [Reader -> Task]
    /\ \A r \in Reader : Busy(r) => now - task[r].t0 <= MaxCallTicks
    /\ \A r \in Reader : Fits(pc[r], task[r], now, came, went, created)
    /\ Stored(cache, now, came)

-------------------------------------------------------------------------------
(* A tick of the clock.                                                        *)

LEMMA CurrentStays ==
    ASSUME NEW n, NEW C, NEW W, NEW K, NEW C2, NEW W2, NEW K2, Tables(n, C, W, K),
           Grown(n, C, W, K, C2, W2, K2), NEW p, NEW t \in Task, Current(p, t, n, C, W, K)
    PROVE  Current(p, t, n + 1, C2, W2, K2)
<1>1. n \in Nat /\ t.t0 \in Nat /\ t.t0 <= n /\ t.start \in Nat /\ t.start <= n
  BY DEF Current, Task, Tables
<1>2. /\ t.ids \subseteq DOMAIN K2 /\ t.obs \cup t.rels \cup t.left \subseteq DOMAIN C2
      /\ DOMAIN t.best \subseteq DOMAIN K2
  BY DEF Current, Grown
<1>3. t.t0 <= n + 1 /\ t.start <= n + 1
  BY <1>1
<1>4. \A id : NodeWas(id, t.t0, C, W) => NodeWas(id, t.t0, C2, W2)
  BY <1>1, NodeTimesStay
<1>5. \A x : Was(x, t.t0, C, W) => Was(x, t.t0, C2, W2)
  BY <1>1, TimesStay
<1> QED
  BY <1>2, <1>3, <1>4, <1>5 DEF Current

LEMMA TogetherStays ==
    ASSUME NEW n, NEW C, NEW W, NEW K, NEW C2, NEW W2, NEW K2, Tables(n, C, W, K),
           Grown(n, C, W, K, C2, W2, K2), NEW t \in Task, t.t0 <= n, Together(t, C, W)
    PROVE  Together(t, C2, W2)
<1>1. \A id : NodeWas(id, t.t0, C, W) => NodeWas(id, t.t0, C2, W2)
  BY NodeTimesStay DEF Task
<1> QED
  BY <1>1 DEF Together

\* A node that is live after the tick, and was there before it, was live before.
LEMMA LiveBefore ==
    ASSUME NEW n, NEW C, NEW W, NEW K, NEW C2, NEW W2, NEW K2, Tables(n, C, W, K),
           Tables(n + 1, C2, W2, K2), Grown(n, C, W, K, C2, W2, K2), NEW id \in DOMAIN K,
           id \in LiveIds(C2, W2)
    PROVE  id \in LiveIds(C, W)
<1>1. PICK x \in DOMAIN C : IsNode(x, id)
  BY NodeOfId DEF Tables
<1>2. PICK y \in DOMAIN C2 \ DOMAIN W2 : IsNode(y, id)
  BY NodeOfId DEF LiveIds
<1>3. x \in DOMAIN C2
  BY DEF Grown
<1>4. x = y
  BY <1>1, <1>2, <1>3, OneRowPerNode
<1>5. x \in DOMAIN C \ DOMAIN W
  BY <1>2, <1>4 DEF Grown
<1> QED
  BY <1>1, <1>5, IdOfNode DEF LiveIds

LEMMA CompleteStays ==
    ASSUME NEW n, NEW C, NEW W, NEW K, NEW C2, NEW W2, NEW K2, Tables(n, C, W, K),
           Tables(n + 1, C2, W2, K2), Grown(n, C, W, K, C2, W2, K2),
           NEW p, NEW t \in Task, t.t0 <= n, t.ids \subseteq DOMAIN K, Complete(p, t, C, W, K)
    PROVE  Complete(p, t, C2, W2, K2)
<1>1. n \in Nat /\ t.t0 \in Nat
  BY DEF Tables, Task
<1>2. \A id : NodeSince(id, t.t0, C2, W2) => NodeSince(id, t.t0, C, W) /\ id \in DOMAIN K
  BY <1>1, NodeTimesStay
<1>3. \A x : Since(x, t.t0, C2, W2) => Since(x, t.t0, C, W) /\ x \in DOMAIN C
  BY <1>1, TimesStay DEF Since
<1>4. \A x \in DOMAIN C2 : C2[x] <= t.t0 => x \in DOMAIN C /\ C[x] <= t.t0
  BY <1>1 DEF Grown
<1>5. \A id \in t.ids : id \in LiveIds(C2, W2) => id \in LiveIds(C, W)
  BY LiveBefore
<1>6. ASSUME p \in {"by_type", "observations", "relations", "reply"},
             t.q.op \in {"read_graph", "open_nodes", "stats"}, NEW id \in DOMAIN K2,
             NodeSince(id, t.t0, C2, W2), InScope(id, t.q.project),
             t.q.op = "open_nodes" => id.name \in t.q.names
      PROVE  id \in t.ids
  BY <1>2, <1>6 DEF Complete
<1>7. ASSUME p \in {"relations", "reply"}, t.q.op \in ToolOp, NEW x \in DOMAIN C2,
             Since(x, t.t0, C2, W2), x.tab = "observations", x.node \in t.ids
      PROVE  x \in t.obs
  BY <1>3, <1>7 DEF Complete
<1>8. ASSUME p = "reply", t.q.op \in ToolOp, NEW x \in DOMAIN C2, Since(x, t.t0, C2, W2),
             x.tab = "relations", {x.from, x.to} \subseteq t.ids \cap LiveIds(C2, W2)
      PROVE  x \in t.rels
  <2>1. {x.from, x.to} \subseteq t.ids \cap LiveIds(C, W)
    BY <1>5, <1>8
  <2> QED
    BY <1>3, <1>8, <2>1 DEF Complete
<1>9. ASSUME p = "reply", t.q.op = "session_summary", NEW x \in DOMAIN C2,
             x.tab = "nodes", x.session = t.q.session, C2[x] <= t.t0
      PROVE  IdOf(x) \in t.ids
  BY <1>4, <1>9 DEF Complete
<1> QED
  BY <1>6, <1>7, <1>8, <1>9 DEF Complete

LEMMA ClosestStays ==
    ASSUME NEW n, NEW C, NEW W, NEW K, NEW C2, NEW W2, NEW K2, Tables(n, C, W, K),
           Grown(n, C, W, K, C2, W2, K2), NEW p, NEW t \in Task, t.t0 <= n,
           Closest(p, t, C, W, K)
    PROVE  Closest(p, t, C2, W2, K2)
<1>1. \A x : Steady(x, t.t0, C2, W2) => Steady(x, t.t0, C, W) /\ x \in DOMAIN C
  <2>1. t.t0 \in Nat
    BY DEF Task
  <2> QED
    BY <2>1, TimesStay, NodeTimesStay DEF Steady, Since
<1>2. DOMAIN K \subseteq DOMAIN K2
  BY DEF Grown
<1> SUFFICES ASSUME t.q.op = "find_conflicts", p \in {"embeddings", "similar", "reply"}
             PROVE  Closest(p, t, C2, W2, K2)
  BY DEF Closest
<1>3. PICK tgt \in DOMAIN K :
         /\ t.ids = {tgt} /\ tgt \notin DOMAIN t.best
         /\ p = "embeddings" => DOMAIN t.best = {}
         /\ p # "similar" => t.left = {}
         /\ \A o \in t.left : o.tab = "observations"
         /\ p # "embeddings" =>
              \A own, x \in DOMAIN C :
                 Steady(own, t.t0, C, W) /\ Steady(x, t.t0, C, W) /\ Alike(own, x, tgt)
                 => own \in t.left \/ Reported(t.best, Likeness[own.text][x.text])
  BY DEF Closest
<1>4. p # "embeddings" =>
        \A own, x \in DOMAIN C2 :
           Steady(own, t.t0, C2, W2) /\ Steady(x, t.t0, C2, W2) /\ Alike(own, x, tgt)
           => own \in t.left \/ Reported(t.best, Likeness[own.text][x.text])
  BY <1>1, <1>3
<1> QED
  BY <1>2, <1>3, <1>4 DEF Closest

LEMMA FewListed ==
    ASSUME NEW n, NEW C, NEW W, NEW K, Tables(n, C, W, K), NEW q
    PROVE  /\ IsFiniteSet(Listing(q, C, W, K)) /\ Listing(q, C, W, K) \subseteq DOMAIN K
           /\ DOMAIN K \subseteq NodeId
           /\ \A id : PlaceIn(id, Listing(q, C, W, K), K) \in Nat
<1>1. LiveIds(C, W) \subseteq DOMAIN K /\ IsFiniteSet(DOMAIN K)
  BY FewIds DEF LiveIds, IdsOf, Tables
<1>2. Listing(q, C, W, K) \subseteq DOMAIN K
  BY <1>1 DEF Listing
<1>3. IsFiniteSet(Listing(q, C, W, K))
  BY <1>1, <1>2, FS_Subset
<1>4. \A id : PlaceIn(id, Listing(q, C, W, K), K) \in Nat
  BY <1>3, FS_Subset, FS_CardinalityType DEF PlaceIn
<1> QED
  BY <1>2, <1>3, <1>4, IdsTyped DEF Tables

LEMMA PagingStays ==
    ASSUME NEW n, NEW C, NEW W, NEW K, NEW C2, NEW W2, NEW K2, Tables(n, C, W, K),
           Tables(n + 1, C2, W2, K2), Grown(n, C, W, K, C2, W2, K2),
           NEW p, NEW t \in Task, t.start <= n, t.q.op = "timeline" => t.q \in Query,
           Paging(p, t, C, W, K)
    PROVE  Paging(p, t, C2, W2, K2)
<1> SUFFICES ASSUME t.q.op = "timeline" PROVE Paging(p, t, C2, W2, K2)
  BY DEF Paging
<1>1. n \in Nat /\ t.start \in Nat
  BY DEF Tables, Task
<1>2. p \in {"observations", "relations", "reply"} /\ t.more =>
        Cardinality(t.ids) = ClampLimit(t.q.limit)
  BY DEF Paging
<1>3. ASSUME \A x \in DOMAIN W2 : x.tab = "nodes" => W2[x] <= t.start,
             NEW id \in DOMAIN K2, Awaited(id, t, C2, W2, K2)
      PROVE  /\ id \in DOMAIN K /\ Awaited(id, t, C, W, K)
             /\ \A x \in DOMAIN W : x.tab = "nodes" => W[x] <= t.start
             /\ PlaceIn(id, Listing(t.q, C, W, K), K)
                  <= PlaceIn(id, Listing(t.q, C2, W2, K2), K2)
  <2>1. NodeSince(id, t.start, C, W) /\ id \in DOMAIN K
    BY <1>1, <1>3, NodeTimesStay DEF Awaited
  <2>2. K2[id] = K[id]
    BY <2>1 DEF Grown
  <2>3. Awaited(id, t, C, W, K)
    BY <1>3, <2>1, <2>2 DEF Awaited, Window
  <2>4. \A x \in DOMAIN W : x.tab = "nodes" => W[x] <= t.start
    BY <1>3 DEF Grown
  <2>5. ASSUME NEW jd \in Listing(t.q, C, W, K)
        PROVE  jd \in Listing(t.q, C2, W2, K2) /\ (Before(jd, id, K) => Before(jd, id, K2))
    <3>1. PICK x \in DOMAIN C \ DOMAIN W : IsNode(x, jd)
      BY NodeOfId DEF Listing, LiveIds
    <3>2. x \notin DOMAIN W2
      <4>1. x \in DOMAIN W2 => W2[x] = n + 1
        BY DEF Grown
      <4> QED
        BY <1>1, <1>3, <3>1, <4>1 DEF IsNode
    <3>3. jd \in LiveIds(C2, W2)
      BY <3>1, <3>2, IdOfNode DEF LiveIds, Grown
    <3>4. jd \in DOMAIN K /\ K2[jd] = K[jd]
      BY FewListed DEF Grown
    <3> QED
      BY <2>2, <3>3, <3>4 DEF Listing, Window, Before
  <2>6. {jd \in Listing(t.q, C, W, K) : Before(jd, id, K)}
          \subseteq {jd \in Listing(t.q, C2, W2, K2) : Before(jd, id, K2)}
    BY <2>5
  <2>7. IsFiniteSet({jd \in Listing(t.q, C2, W2, K2) : Before(jd, id, K2)})
    BY FewListed, FS_Subset
  <2>8. PlaceIn(id, Listing(t.q, C, W, K), K) <= PlaceIn(id, Listing(t.q, C2, W2, K2), K2)
    BY <2>6, <2>7, FS_Subset DEF PlaceIn
  <2> QED
    BY <2>1, <2>3, <2>4, <2>8
<1>4. t.q.limit \in Int /\ t.off \in Nat
  BY QueriesAreAsked DEF Task
<1>5. ClampOffset(t.off) \in Nat /\ ClampLimit(t.q.limit) \in Nat
  BY <1>4, LimitsAreNumbers DEF ClampOffset, ClampLimit
<1>6. ASSUME \A x \in DOMAIN W2 : x.tab = "nodes" => W2[x] <= t.start,
             NEW id \in DOMAIN K2, Awaited(id, t, C2, W2, K2)
      PROVE  LET place == PlaceIn(id, Listing(t.q, C2, W2, K2), K2)
                 off == ClampOffset(t.off)
             IN /\ p \in {"nodes", "next_page"} => (place < off => id \in t.shown)
                /\ p \in {"observations", "relations", "reply"} =>
                     (place < off + ClampLimit(t.q.limit) \/ ~t.more
                      => id \in t.shown \cup t.ids)
  <2> DEFINE old == PlaceIn(id, Listing(t.q, C, W, K), K)
             new == PlaceIn(id, Listing(t.q, C2, W2, K2), K2)
             off == ClampOffset(t.off)
             lim == ClampLimit(t.q.limit)
  <2>1. old \in Nat /\ new \in Nat
    BY FewListed
  <2>2. id \in DOMAIN K /\ Awaited(id, t, C, W, K) /\ old <= new
        /\ \A x \in DOMAIN W : x.tab = "nodes" => W[x] <= t.start
    BY <1>3, <1>6
  <2>3. /\ p \in {"nodes", "next_page"} => (old < off => id \in t.shown)
        /\ p \in {"observations", "relations", "reply"} =>
             (old < off + lim \/ ~t.more => id \in t.shown \cup t.ids)
    BY <2>2 DEF Paging
  <2>4. off \in Nat /\ lim \in Nat
    BY <1>5
  <2> HIDE DEF old, new, off, lim
  <2>5. (new < off => old < off) /\ (new < off + lim => old < off + lim)
    BY <2>1, <2>2, <2>4
  <2>6. /\ p \in {"nodes", "next_page"} => (new < off => id \in t.shown)
        /\ p \in {"observations", "relations", "reply"} =>
             (new < off + lim \/ ~t.more => id \in t.shown \cup t.ids)
    BY <2>3, <2>5
  <2> QED
    BY <2>6 DEF new, off, lim
<1> QED
  BY <1>2, <1>6 DEF Paging

LEMMA FitsStays ==
    ASSUME NEW n, NEW C, NEW W, NEW K, NEW C2, NEW W2, NEW K2, Tables(n, C, W, K),
           Tables(n + 1, C2, W2, K2), Grown(n, C, W, K, C2, W2, K2),
           NEW p, NEW t \in Task, Fits(p, t, n, C, W, K)
    PROVE  Fits(p, t, n + 1, C2, W2, K2)
<1>1. /\ Control(p, t) /\ Current(p, t, n, C, W, K) /\ Together(t, C, W)
      /\ Complete(p, t, C, W, K) /\ Closest(p, t, C, W, K) /\ Paging(p, t, C, W, K)
  BY DEF Fits
<1>2. t.t0 <= n /\ t.start <= n /\ t.ids \subseteq DOMAIN K
  BY <1>1 DEF Current
<1>3. Current(p, t, n + 1, C2, W2, K2)
  BY <1>1, CurrentStays
<1>4. Together(t, C2, W2) /\ Complete(p, t, C2, W2, K2) /\ Closest(p, t, C2, W2, K2)
  BY <1>1, <1>2, TogetherStays, CompleteStays, ClosestStays
<1>5. CASE p = "idle"
  <2>1. Paging(p, t, C2, W2, K2)
    BY <1>5 DEF Paging
  <2> QED
    BY <1>1, <1>3, <1>4, <2>1 DEF Fits
<1>6. CASE p # "idle"
  <2>1. t.q \in Query
    BY <1>1, <1>6 DEF Control
  <2>2. Paging(p, t, C2, W2, K2)
    BY <1>1, <1>2, <2>1, PagingStays
  <2> QED
    BY <1>1, <1>3, <1>4, <2>2 DEF Fits
<1> QED
  BY <1>5, <1>6

LEMMA WriteGrows ==
    ASSUME Inv, NEW w \in Change, NEW begun \in 0..now + 1, Write(w, begun)
    PROVE  /\ Tables(now + 1, came', went', created')
           /\ Grown(now, came, went, created, came', went', created')
<1> DEFINE n == now
           C == came  W == went  K == created
           C2 == [x \in DOMAIN C \cup w.new |-> IF x \in w.new THEN n + 1 ELSE C[x]]
           W2 == [x \in DOMAIN W \cup w.gone |-> IF x \in w.gone THEN n + 1 ELSE W[x]]
           K2 == [id \in DOMAIN K \cup IdsOf(w.new) |->
                    IF id \in DOMAIN K THEN K[id] ELSE begun]
<1>1. came' = C2 /\ went' = W2 /\ created' = K2
  BY DEF Write, Stamped, Dated, IdsOf
<1>2. /\ \A x \in w.new, y \in DOMAIN C : Key(x) # Key(y)
      /\ \A x \in w.new : \A id \in NodesOf(x) : HasNode(DOMAIN C \cup w.new, id)
      /\ w.gone \subseteq DOMAIN C \ DOMAIN W
  BY DEF Write, Commits, Live, rows, dead
<1>3. /\ w.new \subseteq Row /\ IsFiniteSet(w.new)
      /\ \A u, v \in w.new : Key(u) = Key(v) => u = v
  BY ChangesAreWrites
<1>4. Tables(n, C, W, K) /\ n \in Nat
  BY DEF Inv, Tables
<1>5. begun \in Nat
  BY <1>4
<1>6. w.new \cap DOMAIN C = {}
  BY <1>2
<1>7. DOMAIN C2 = DOMAIN C \cup w.new /\ DOMAIN W2 = DOMAIN W \cup w.gone
      /\ DOMAIN K2 = DOMAIN K \cup IdsOf(w.new)
  OBVIOUS
<1>8. \A x \in DOMAIN C2 : C2[x] = IF x \in DOMAIN C THEN C[x] ELSE n + 1
  BY <1>6
<1>9. \A x \in DOMAIN W2 : W2[x] = IF x \in DOMAIN W THEN W[x] ELSE n + 1
  BY <1>2
<1>10. \A id \in DOMAIN K : K2[id] = K[id]
  OBVIOUS
<1>11. \A id \in DOMAIN K2 : K2[id] \in Nat
  BY <1>4, <1>5 DEF Tables
<1>12. DOMAIN K2 = IdsOf(DOMAIN C2)
  BY <1>4, <1>7 DEF Tables, IdsOf
<1> HIDE DEF n, C, W, K, C2, W2, K2
<1>13. Grown(n, C, W, K, C2, W2, K2)
  BY <1>7, <1>8, <1>9, <1>10 DEF Grown
<1>14. \A x \in DOMAIN C2 : C2[x] \in Nat /\ C2[x] <= n + 1
  <2>1. \A x \in DOMAIN C : C[x] \in Nat /\ C[x] <= n + 1
    BY <1>4 DEF Tables
  <2> QED
    BY <1>4, <1>8, <2>1
<1>15. \A x \in DOMAIN W2 : W2[x] \in Nat /\ C2[x] < W2[x] /\ W2[x] <= n + 1
  <2>1. \A x \in DOMAIN W : W[x] \in Nat /\ C[x] < W[x] /\ W[x] <= n + 1 /\ x \in DOMAIN C
    BY <1>4 DEF Tables
  <2>2. \A x \in w.gone : x \in DOMAIN C /\ C[x] \in Nat /\ C[x] < n + 1
    BY <1>2, <1>4 DEF Tables
  <2> QED
    BY <1>4, <1>7, <1>8, <1>9, <2>1, <2>2
<1>16. \A x \in DOMAIN C2 : NodesOf(x) \subseteq DOMAIN K2
  <2>1. ASSUME NEW x \in w.new, NEW id \in NodesOf(x) PROVE id \in DOMAIN K2
    <3>1. PICK y \in DOMAIN C \cup w.new : y.tab = "nodes" /\ IdOf(y) = id
      BY <1>2 DEF HasNode
    <3> QED
      BY <1>7, <1>12, <3>1, IdOfNode DEF IsNode
  <2>2. \A x \in DOMAIN C : NodesOf(x) \subseteq DOMAIN K2
    BY <1>4, <1>7 DEF Tables
  <2> QED
    BY <1>7, <2>1, <2>2
<1>17. \A x, y \in DOMAIN C2 : Key(x) = Key(y) => x = y
  BY <1>2, <1>3, <1>4, <1>7 DEF Tables
<1>18. /\ DOMAIN C2 \subseteq Row /\ IsFiniteSet(DOMAIN C2)
       /\ DOMAIN W2 \subseteq DOMAIN C2 /\ n + 1 \in Nat
  <2>1. IsFiniteSet(DOMAIN C) /\ DOMAIN C \subseteq Row /\ DOMAIN W \subseteq DOMAIN C
    BY <1>4 DEF Tables
  <2>2. IsFiniteSet(DOMAIN C2)
    <3>1. IsFiniteSet(w.new)
      BY <1>3
    <3>2. IsFiniteSet(DOMAIN C \cup w.new)
      BY <2>1, <3>1, FS_Union
    <3> QED
      BY <1>7, <3>2
  <2> QED
    BY <1>2, <1>3, <1>4, <1>7, <2>1, <2>2
<1>19. Tables(n + 1, C2, W2, K2)
  BY <1>11, <1>12, <1>14, <1>15, <1>16, <1>17, <1>18 DEF Tables
<1> QED
  BY <1>1, <1>13, <1>19 DEF n, C, W, K

LEMMA TimePasses ==
    ASSUME Inv, TimeMayPass, now' = now + 1, UNCHANGED <<pc, task, cache>>,
           Tables(now + 1, came', went', created'),
           Grown(now, came, went, created, came', went', created')
    PROVE  Inv'
<1>1. now \in Nat /\ now + 1 \in 1..MaxTime
  BY LimitsAreNumbers DEF Inv, TimeMayPass
<1>2. \A r \in Reader : task[r] \in Task
  BY DEF Inv
<1>3. ASSUME NEW r \in Reader
      PROVE  Fits(pc[r], task[r], now + 1, came', went', created')
  <2>1. Tables(now, came, went, created) /\ Fits(pc[r], task[r], now, came, went, created)
    BY DEF Inv
  <2> QED
    BY <1>2, <2>1, FitsStays
<1>4. ASSUME NEW r \in Reader, pc[r] \notin {"idle", "next_page"}
      PROVE  now + 1 - task[r].t0 <= MaxCallTicks
  <2>1. now - task[r].t0 < MaxCallTicks /\ task[r].t0 \in Nat /\ MaxCallTicks \in Nat
    BY <1>2, <1>4, LimitsAreNumbers DEF TimeMayPass, Task, Busy
  <2> QED
    BY <1>1, <2>1
<1>5. pc' = pc /\ task' = task /\ cache' = cache /\ now' = now + 1
  OBVIOUS
<1>6. \A r \in Reader : Fits(pc'[r], task'[r], now', came', went', created')
  BY <1>3, <1>5
<1>7. ASSUME NEW r \in Reader, pc'[r] \notin {"idle", "next_page"}
      PROVE  now' - task'[r].t0 <= MaxCallTicks
  <2>1. pc[r] \notin {"idle", "next_page"} /\ task'[r] = task[r]
    BY <1>5, <1>7
  <2>2. now + 1 - task[r].t0 <= MaxCallTicks
    BY <1>4, <2>1
  <2>3. now' = now + 1 /\ task'[r].t0 = task[r].t0
    BY <1>5, <2>1
  <2>4. now \in Nat /\ task[r].t0 \in Nat /\ MaxCallTicks \in Nat
    BY <1>1, <1>2, LimitsAreNumbers DEF Task
  <2> QED
    BY <2>2, <2>3, <2>4
<1>8. /\ now' \in 1..MaxTime /\ Tables(now', came', went', created')
      /\ pc' \in [Reader -> Label] /\ task' \in [Reader -> Task]
  BY <1>1, <1>5 DEF Inv
<1>9. Stored(cache', now', came')
  <2>1. Stored(cache, now, came) /\ DOMAIN came \subseteq DOMAIN came'
    BY DEF Inv, Grown
  <2>2. Stored(cache, now + 1, came')
    BY <1>1, <2>1 DEF Stored
  <2> QED
    BY <1>5, <2>2
<1> QED
  BY <1>6, <1>7, <1>8, <1>9 DEF Inv, Busy

LEMMA WriteKeeps ==
    ASSUME Inv, AnyWrite
    PROVE  Inv'
<1>1. PICK w \in Change, begun \in 0..now + 1 : Write(w, begun)
  BY DEF AnyWrite
<1>2. /\ Tables(now + 1, came', went', created')
      /\ Grown(now, came, went, created, came', went', created')
  BY <1>1, WriteGrows
<1>3. TimeMayPass /\ now' = now + 1 /\ UNCHANGED <<pc, task, cache>>
  BY <1>1 DEF Write
<1> QED
  BY <1>2, <1>3, TimePasses

LEMMA TickKeeps ==
    ASSUME Inv, Tick
    PROVE  Inv'
<1>1. /\ TimeMayPass /\ now' = now + 1 /\ UNCHANGED <<pc, task, cache>>
      /\ came' = came /\ went' = went /\ created' = created
  BY DEF Tick, tables
<1>2. Tables(now, came, went, created)
  BY DEF Inv
<1>3. Tables(now + 1, came, went, created)
  <2>1. now \in Nat /\ now + 1 \in Nat
    BY <1>2 DEF Tables
  <2>2. \A x \in DOMAIN came : came[x] \in Nat /\ came[x] <= now + 1
    BY <1>2, <2>1 DEF Tables
  <2>3. \A x \in DOMAIN went : went[x] \in Nat /\ came[x] < went[x] /\ went[x] <= now + 1
    BY <1>2, <2>1 DEF Tables
  <2> QED
    BY <1>2, <2>1, <2>2, <2>3 DEF Tables
<1>4. Grown(now, came, went, created, came, went, created)
  BY <1>2 DEF Grown, Tables
<1>5. /\ Tables(now + 1, came', went', created')
      /\ Grown(now, came, went, created, came', went', created')
  BY <1>1, <1>3, <1>4
<1> QED
  BY <1>1, <1>5, TimePasses

-------------------------------------------------------------------------------
(* How it starts, and what a step of a request needs to keep it.               *)

LEMMA NoTaskFits ==
    ASSUME NEW n \in Nat, NEW C, NEW W, NEW K
    PROVE  NoTask \in Task /\ Fits("idle", NoTask, n, C, W, K)
<1>1. NoTask \in Task
  BY DEF NoTask, Task, Best
<1>2. /\ NoTask.ids = {} /\ NoTask.obs = {} /\ NoTask.rels = {} /\ NoTask.left = {}
      /\ DOMAIN NoTask.best = {} /\ ~NoTask.more /\ NoTask.t0 = 0 /\ NoTask.start = 0
  BY DEF NoTask
<1>3. Control("idle", NoTask)
  BY <1>2 DEF Control
<1>4. Current("idle", NoTask, n, C, W, K) /\ Together(NoTask, C, W)
  BY <1>2 DEF Current, Together
<1>5. /\ Complete("idle", NoTask, C, W, K) /\ Closest("idle", NoTask, C, W, K)
      /\ Paging("idle", NoTask, C, W, K)
  BY DEF Complete, Closest, Paging
<1> QED
  BY <1>1, <1>3, <1>4, <1>5 DEF Fits

LEMMA InvStarts == Init => Inv
<1> SUFFICES ASSUME Init PROVE Inv
  OBVIOUS
<1>1. now = 1 /\ now \in 1..MaxTime /\ now \in Nat
  BY LimitsAreNumbers DEF Init
<1>2. /\ DOMAIN came = Seed /\ DOMAIN went = {} /\ DOMAIN created = IdsOf(Seed)
      /\ \A x \in Seed : came[x] = 0
      /\ \A id \in IdsOf(Seed) : created[id] = 0
  BY DEF Init, IdsOf
<1>3. ASSUME NEW x \in Seed PROVE NodesOf(x) \subseteq IdsOf(Seed)
  BY SeedIsAGraph DEF HasNode, IdsOf
<1>4. Tables(now, came, went, created)
  BY <1>1, <1>2, <1>3, SeedIsAGraph DEF Tables
<1>5. \A r \in Reader : pc[r] = "idle" /\ task[r] = NoTask
  BY DEF Init
<1>6. pc \in [Reader -> Label] /\ task \in [Reader -> Task]
  BY <1>1, NoTaskFits DEF Init, Label
<1>7. \A r \in Reader : Fits(pc[r], task[r], now, came, went, created)
  BY <1>1, <1>5, NoTaskFits
<1>8. Stored(cache, now, came)
  BY DEF Init, Stored
<1> QED
  BY <1>1, <1>4, <1>5, <1>6, <1>7, <1>8 DEF Inv, Busy

LEMMA StepKeeps ==
    ASSUME Inv, NEW r \in Reader, NEW p \in Label, NEW t \in Task,
           pc' = [pc EXCEPT ![r] = p], task' = [task EXCEPT ![r] = t],
           UNCHANGED <<now, tables>>, Stored(cache', now, came),
           Fits(p, t, now, came, went, created),
           p \notin {"idle", "next_page"} => now - t.t0 <= MaxCallTicks
    PROVE  Inv'
<1>1. /\ pc' = [pc EXCEPT ![r] = p] /\ task' = [task EXCEPT ![r] = t]
      /\ now' = now /\ came' = came /\ went' = went /\ created' = created
  BY DEF tables
<1>2. /\ pc \in [Reader -> Label] /\ task \in [Reader -> Task]
      /\ \A q \in Reader : Busy(q) => now - task[q].t0 <= MaxCallTicks
      /\ \A q \in Reader : Fits(pc[q], task[q], now, came, went, created)
  BY DEF Inv
<1>3. pc' \in [Reader -> Label] /\ task' \in [Reader -> Task]
  BY <1>1, <1>2
<1>4. \A q \in Reader : Fits(pc'[q], task'[q], now, came, went, created)
  BY <1>1, <1>2
<1>5. \A q \in Reader : pc'[q] \notin {"idle", "next_page"} =>
                          now - task'[q].t0 <= MaxCallTicks
  BY <1>1, <1>2 DEF Busy
<1>6. Tables(now, came, went, created) /\ now \in 1..MaxTime
  BY DEF Inv
<1>7. Stored(cache', now', came')
  BY <1>1
<1> QED
  BY <1>1, <1>3, <1>4, <1>5, <1>6, <1>7 DEF Inv, Busy

LEMMA TaskMoves ==
    ASSUME Inv, NEW r \in Reader, NEW p \in Label, NEW t \in Task, Goto(r, p, t),
           Fits(p, t, now, came, went, created),
           p \notin {"idle", "next_page"} => now - t.t0 <= MaxCallTicks
    PROVE  Inv'
<1>1. /\ pc' = [pc EXCEPT ![r] = p] /\ task' = [task EXCEPT ![r] = t]
      /\ UNCHANGED <<now, tables>> /\ cache' = cache
  BY DEF Goto
<1>2. Stored(cache', now, came)
  BY <1>1 DEF Inv
<1> QED
  BY <1>1, <1>2, StepKeeps

-------------------------------------------------------------------------------
(* Pages of a list.                                                            *)

\* created_at DESC, id DESC is a strict total order of the nodes.
LEMMA BeforeIsAnOrder ==
    ASSUME NEW S \in SUBSET NodeId, NEW K, \A id \in S : K[id] \in Nat
    PROVE  /\ \A id \in S : ~Before(id, id, K)
           /\ \A id, jd, kd \in S : Before(id, jd, K) /\ Before(jd, kd, K) => Before(id, kd, K)
           /\ \A id, jd \in S : id # jd => Before(id, jd, K) \/ Before(jd, id, K)
<1>1. \A id \in S : Rank[id] \in Nat
  BY RankBreaksTies
<1>2. \A id, jd \in S : Rank[id] = Rank[jd] => id = jd
  BY RankBreaksTies
<1>3. \A id \in S : ~Before(id, id, K)
  BY <1>1 DEF Before
<1>4. ASSUME NEW id \in S, NEW jd \in S, NEW kd \in S, Before(id, jd, K), Before(jd, kd, K)
      PROVE  Before(id, kd, K)
  BY <1>1, <1>4 DEF Before
<1>5. ASSUME NEW id \in S, NEW jd \in S, id # jd
      PROVE  Before(id, jd, K) \/ Before(jd, id, K)
  BY <1>1, <1>2, <1>5 DEF Before
<1> QED
  BY <1>3, <1>4, <1>5

\* The places of a list are the numbers below its length, each taken once.
LEMMA PlacesAreTaken ==
    ASSUME NEW S \in SUBSET NodeId, IsFiniteSet(S), NEW K, \A id \in S : K[id] \in Nat
    PROVE  [id \in S |-> PlaceIn(id, S, K)] \in Bijection(S, 0..(Cardinality(S) - 1))
<1> DEFINE Ahead(id) == {jd \in S : Before(jd, id, K)}
           f == [id \in S |-> PlaceIn(id, S, K)]
           n == Cardinality(S)
<1>1. n \in Nat
  BY FS_CardinalityType
<1>2. \A id \in S : IsFiniteSet(Ahead(id)) /\ f[id] = Cardinality(Ahead(id)) /\ f[id] \in Nat
  BY FS_Subset, FS_CardinalityType DEF PlaceIn
<1>3. ASSUME NEW id \in S PROVE f[id] \in 0..(n - 1)
  <2>1. Ahead(id) \subseteq S \ {id}
    BY BeforeIsAnOrder
  <2>2. IsFiniteSet(S \ {id}) /\ Cardinality(S \ {id}) = n - 1
    BY FS_RemoveElement
  <2>3. Cardinality(Ahead(id)) <= n - 1
    BY <2>1, <2>2, FS_Subset
  <2> QED
    BY <1>1, <1>2, <2>3
<1>4. ASSUME NEW id \in S, NEW jd \in S, Before(jd, id, K) PROVE f[jd] < f[id]
  <2>1. Ahead(jd) \cup {jd} \subseteq Ahead(id)
    BY <1>4, BeforeIsAnOrder
  <2>2. jd \notin Ahead(jd)
    BY BeforeIsAnOrder
  <2>3. Cardinality(Ahead(jd) \cup {jd}) = Cardinality(Ahead(jd)) + 1
    BY <1>2, <2>2, FS_AddElement
  <2>4. Cardinality(Ahead(jd) \cup {jd}) <= Cardinality(Ahead(id))
    BY <1>2, <2>1, FS_Subset
  <2>5. Cardinality(Ahead(jd)) \in Nat /\ Cardinality(Ahead(id)) \in Nat
    BY <1>2, FS_CardinalityType
  <2>6. Cardinality(Ahead(jd)) < Cardinality(Ahead(id))
    BY <2>3, <2>4, <2>5
  <2> QED
    BY <1>2, <2>6
<1>5. ASSUME NEW id \in S, NEW jd \in S, f[id] = f[jd] PROVE id = jd
  <2>1. SUFFICES ASSUME id # jd PROVE FALSE
    OBVIOUS
  <2>2. f[id] < f[jd] \/ f[jd] < f[id]
    BY <1>4, <2>1, BeforeIsAnOrder
  <2>3. f[id] \in Nat /\ f[jd] \in Nat
    BY <1>2
  <2> HIDE DEF f
  <2> QED
    BY <1>5, <2>2, <2>3
<1>6. f \in [S -> 0..(n - 1)]
  BY <1>3
<1> HIDE DEF f
<1>7. f \in Injection(S, 0..(n - 1))
  BY <1>5, <1>6 DEF Injection, IsInjective
<1>8. IsFiniteSet(0..(n - 1)) /\ Cardinality(0..(n - 1)) = n
  BY <1>1, FS_Interval
<1>9. f \in Surjection(S, 0..(n - 1))
  BY <1>7, <1>8, FS_Injection
<1> QED
  BY <1>7, <1>9 DEF Bijection, f

\* A page that more follow is full.
LEMMA PageIsFull ==
    ASSUME NEW S \in SUBSET NodeId, IsFiniteSet(S), NEW K, \A id \in S : K[id] \in Nat,
           NEW c \in Nat, NEW lim \in Nat, Cardinality(S) > c + lim
    PROVE  Cardinality({id \in S : PlaceIn(id, S, K) \in c..((c + lim) - 1)}) = lim
<1> DEFINE f == [id \in S |-> PlaceIn(id, S, K)]
           n == Cardinality(S)
           P == {id \in S : PlaceIn(id, S, K) \in c..((c + lim) - 1)}
           g == [id \in P |-> f[id]]
<1>1. n \in Nat
  BY FS_CardinalityType
<1>2. f \in [S -> 0..(n - 1)] /\ f \in Bijection(S, 0..(n - 1))
  BY PlacesAreTaken DEF Bijection, Injection
<1>3. \A id, jd \in S : f[id] = f[jd] => id = jd
  BY <1>2 DEF Bijection, Injection, IsInjective
<1>4. \A k \in 0..(n - 1) : \E id \in S : f[id] = k
  BY <1>2 DEF Bijection, Surjection
<1>5. P = {id \in S : f[id] \in c..((c + lim) - 1)}
  OBVIOUS
<1> HIDE DEF f, n, P
<1>6. g \in [P -> c..((c + lim) - 1)] /\ \A id \in P : g[id] = f[id]
  BY <1>5
<1>7. \A id, jd \in P : g[id] = g[jd] => id = jd
  BY <1>3, <1>5, <1>6
<1>8. ASSUME NEW k \in c..((c + lim) - 1) PROVE \E id \in P : g[id] = k
  <2>1. k \in 0..(n - 1)
    BY <1>1 DEF n
  <2>2. PICK id \in S : f[id] = k
    BY <1>4, <2>1
  <2> QED
    BY <1>5, <1>6, <2>2
<1> HIDE DEF g
<1>9. g \in Bijection(P, c..((c + lim) - 1))
  BY <1>6, <1>7, <1>8 DEF Bijection, Injection, IsInjective, Surjection
<1>10. IsFiniteSet(P)
  BY <1>5, FS_Subset
<1>11. Cardinality(c..((c + lim) - 1)) = Cardinality(P)
  BY <1>9, <1>10, FS_Bijection DEF ExistsBijection
<1>12. Cardinality(c..((c + lim) - 1)) = lim
  BY FS_Interval
<1> QED
  BY <1>11, <1>12 DEF P

\* The last page reaches the end of the list.
LEMMA LastPageReachesEnd ==
    ASSUME NEW S \in SUBSET NodeId, IsFiniteSet(S), NEW K, \A id \in S : K[id] \in Nat,
           NEW id \in S
    PROVE  PlaceIn(id, S, K) \in Nat /\ PlaceIn(id, S, K) < Cardinality(S)
<1>1. [jd \in S |-> PlaceIn(jd, S, K)] \in [S -> 0..(Cardinality(S) - 1)]
  BY PlacesAreTaken DEF Bijection, Injection
<1>2. PlaceIn(id, S, K) \in 0..(Cardinality(S) - 1)
  BY <1>1
<1>3. Cardinality(S) \in Nat
  BY FS_CardinalityType
<1> QED
  BY <1>2, <1>3

-------------------------------------------------------------------------------
(* Requests come, fail, are answered and come back for the next page.          *)

\* What is true of a reader in every state.
LEMMA OfReader ==
    ASSUME Inv, NEW r \in Reader
    PROVE  /\ pc[r] \in Label /\ task[r] \in Task
           /\ Fits(pc[r], task[r], now, came, went, created)
           /\ Tables(now, came, went, created) /\ now \in Nat
           /\ Busy(r) => now - task[r].t0 <= MaxCallTicks
BY DEF Inv, Tables

LEMMA LimitsOk ==
    ASSUME NEW t \in Task, t.q \in Query, t.q.op = "timeline"
    PROVE  /\ ClampLimit(t.q.limit) \in Nat /\ ClampOffset(t.off) \in Nat
           /\ ClampOffset(0) = 0
BY QueriesAreAsked, LimitsAreNumbers DEF Task, ClampLimit, ClampOffset

\* A task that has run no statement yet fits, if it fits the pages before.
LEMMA FreshFits ==
    ASSUME NEW n, NEW C, NEW W, NEW K, NEW t \in Task,
           NEW p \in {"nodes", "target", "session", "cached", "next_page"}, t.q \in Query,
           t.ids = {}, t.obs = {}, t.rels = {}, t.left = {}, DOMAIN t.best = {}, ~t.more,
           t.t0 <= n, t.start <= n,
           p = "target" => t.q.op = "find_conflicts",
           p = "session" => t.q.op = "session_summary",
           p = "cached" => t.q.op = "suggest_node_type",
           p = "nodes" => t.q.op \notin {"find_conflicts", "session_summary"},
           p = "next_page" => t.q.op = "timeline", Paging(p, t, C, W, K)
    PROVE  Fits(p, t, n, C, W, K)
<1>1. Control(p, t)
  BY DEF Control
<1>2. Current(p, t, n, C, W, K) /\ Together(t, C, W)
  BY DEF Current, Together
<1>3. Complete(p, t, C, W, K) /\ Closest(p, t, C, W, K)
  BY DEF Complete, Closest
<1> QED
  BY <1>1, <1>2, <1>3 DEF Fits

LEMMA ReceiveKeeps ==
    ASSUME Inv, NEW r \in Reader, NEW q \in Query, Receive(r, q)
    PROVE  Inv'
<1> DEFINE t == [NoTask EXCEPT !.q = q, !.t0 = now, !.start = now]
           p == FirstStep(q.op)
<1>1. now \in Nat /\ Tables(now, came, went, created) /\ MaxCallTicks \in Nat
  BY OfReader, LimitsAreNumbers
<1>2. /\ t.q = q /\ t.t0 = now /\ t.start = now /\ t.off = 0 /\ t.ids = {} /\ t.obs = {}
      /\ t.rels = {} /\ t.left = {} /\ DOMAIN t.best = {} /\ ~t.more /\ t.shown = {}
  BY DEF NoTask
<1>3. t \in Task
  BY <1>1 DEF NoTask, Task, Best
<1>4. /\ p \in {"nodes", "target", "session", "cached"}
      /\ p = "target" => q.op = "find_conflicts"
      /\ p = "session" => q.op = "session_summary"
      /\ p = "cached" => q.op = "suggest_node_type"
      /\ p = "nodes" => q.op \notin {"find_conflicts", "session_summary"}
  BY DEF FirstStep
<1>5. Goto(r, p, t)
  BY DEF Receive
<1> HIDE DEF t, p
<1>6. Paging(p, t, came, went, created)
  <2>1. ASSUME q.op = "timeline", NEW id
        PROVE  ~(PlaceIn(id, Listing(t.q, came, went, created), created) < ClampOffset(t.off))
    <3>1. PlaceIn(id, Listing(t.q, came, went, created), created) \in Nat
      BY <1>1, FewListed
    <3>2. ClampOffset(t.off) = 0
      BY <1>2, <1>3, <2>1, LimitsOk
    <3> QED
      BY <3>1, <3>2
  <2> QED
    BY <1>2, <1>4, <2>1 DEF Paging
<1>7. Fits(p, t, now, came, went, created)
  BY <1>1, <1>2, <1>3, <1>4, <1>6, FreshFits
<1>8. p \in Label
  BY <1>4 DEF Label
<1> QED
  BY <1>1, <1>2, <1>3, <1>5, <1>7, <1>8, TaskMoves

LEMMA StopKeeps ==
    ASSUME Inv, NEW r \in Reader, Goto(r, "idle", NoTask)
    PROVE  Inv'
<1>1. now \in Nat
  BY OfReader
<1>2. NoTask \in Task /\ Fits("idle", NoTask, now, came, went, created)
  BY <1>1, NoTaskFits
<1>3. "idle" \in Label
  BY DEF Label
<1> QED
  BY <1>2, <1>3, TaskMoves

LEMMA ReturnKeeps ==
    ASSUME Inv, NEW r \in Reader, Return(r)
    PROVE  Inv'
<1> DEFINE t == task[r]
           u == [NoTask EXCEPT !.q = t.q, !.start = t.start,
                               !.off = t.off + Cardinality(t.ids),
                               !.shown = t.shown \cup t.ids]
<1>1. CASE ~t.more
  BY <1>1, StopKeeps DEF Return
<1>2. CASE t.more
  <2>1. pc[r] = "reply" /\ Goto(r, "next_page", u)
    BY <1>2 DEF Return
  <2>2. /\ t \in Task /\ now \in Nat /\ Tables(now, came, went, created)
        /\ Control("reply", t) /\ Current("reply", t, now, came, went, created)
        /\ Paging("reply", t, came, went, created)
    BY <2>1, OfReader DEF Fits
  <2>3. t.q \in Query /\ t.q.op = "timeline"
    BY <1>2, <2>2 DEF Control
  <2>4. ClampLimit(t.q.limit) \in Nat /\ ClampOffset(t.off) \in Nat /\ t.off \in Nat
    BY <2>2, <2>3, LimitsOk DEF Task
  <2>5. Cardinality(t.ids) = ClampLimit(t.q.limit)
    BY <1>2, <2>2, <2>3 DEF Paging
  <2>6. /\ u.q = t.q /\ u.t0 = 0 /\ u.start = t.start /\ u.ids = {} /\ u.obs = {}
        /\ u.off = t.off + ClampLimit(t.q.limit) /\ u.shown = t.shown \cup t.ids
        /\ u.rels = {} /\ u.left = {} /\ DOMAIN u.best = {} /\ ~u.more
    BY <2>5 DEF NoTask
  <2>7. u \in Task
    <3>1. t.off + Cardinality(t.ids) \in Nat
      BY <2>4, <2>5
    <3>2. t.start \in Nat /\ t.q \in Query /\ t.shown \cup t.ids \in SUBSET NodeId
      BY <2>2, <2>3 DEF Task
    <3> HIDE DEF t
    <3> QED
      BY <3>1, <3>2 DEF NoTask, Task, Best
  <2>8. t.start <= now /\ u.t0 <= now
    BY <2>2, <2>6 DEF Current
  <2> HIDE DEF t, u
  <2>9. ClampOffset(u.off) <= ClampOffset(t.off) + ClampLimit(t.q.limit)
        /\ ClampOffset(u.off) \in Nat
    BY <2>4, <2>6, LimitsAreNumbers DEF ClampOffset
  <2>10. Paging("next_page", u, came, went, created)
    <3>1. ASSUME \A x \in DOMAIN went : x.tab = "nodes" => went[x] <= u.start,
                 NEW id \in DOMAIN created, Awaited(id, u, came, went, created),
                 PlaceIn(id, Listing(u.q, came, went, created), created)
                   < ClampOffset(u.off)
          PROVE  id \in u.shown
      <4> DEFINE place == PlaceIn(id, Listing(t.q, came, went, created), created)
      <4>1. place \in Nat
        BY <2>2, FewListed
      <4>2. place < ClampOffset(u.off)
        BY <2>6, <3>1
      <4> HIDE DEF place
      <4>3. place < ClampOffset(t.off) + ClampLimit(t.q.limit)
        BY <2>4, <2>9, <4>1, <4>2
      <4>4. Awaited(id, t, came, went, created)
        BY <2>6, <3>1 DEF Awaited
      <4>5. id \in t.shown \cup t.ids
        BY <2>2, <2>3, <2>6, <3>1, <4>3, <4>4 DEF Paging, place
      <4> QED
        BY <2>6, <4>5
    <3> QED
      BY <2>6, <3>1 DEF Paging
  <2>11. Fits("next_page", u, now, came, went, created)
    BY <2>3, <2>6, <2>7, <2>8, <2>10, FreshFits
  <2>12. "next_page" \in Label
    BY DEF Label
  <2> QED
    BY <2>1, <2>7, <2>11, <2>12, TaskMoves DEF u
<1> QED
  BY <1>1, <1>2

LEMMA NextPageKeeps ==
    ASSUME Inv, NEW r \in Reader, NextPage(r)
    PROVE  Inv'
<1> DEFINE t == task[r]
           u == [t EXCEPT !.t0 = now]
<1>1. CASE Goto(r, "idle", NoTask)
  BY <1>1, StopKeeps
<1>2. CASE Goto(r, "nodes", u)
  <2>1. pc[r] = "next_page"
    BY DEF NextPage
  <2>2. /\ t \in Task /\ now \in Nat
        /\ Control("next_page", t) /\ Current("next_page", t, now, came, went, created)
        /\ Paging("next_page", t, came, went, created)
    BY <2>1, OfReader DEF Fits
  <2>3. u \in Task
    BY <2>2 DEF Task
  <2>4. /\ u.q = t.q /\ u.t0 = now /\ u.start = t.start /\ u.ids = t.ids /\ u.obs = t.obs
        /\ u.off = t.off /\ u.shown = t.shown /\ u.rels = t.rels /\ u.left = t.left
        /\ u.best = t.best /\ u.more = t.more
    BY <2>2 DEF Task
  <2>5. /\ t.q \in Query /\ t.q.op = "timeline" /\ t.ids = {} /\ t.obs = {} /\ t.rels = {}
        /\ t.left = {} /\ DOMAIN t.best = {} /\ ~t.more /\ t.start <= now
    BY <2>2 DEF Control, Current
  <2> HIDE DEF t, u
  <2>6. Paging("nodes", u, came, went, created)
    BY <2>2, <2>4 DEF Paging, Awaited
  <2>7. Fits("nodes", u, now, came, went, created)
    BY <2>2, <2>3, <2>4, <2>5, <2>6, FreshFits
  <2>8. "nodes" \in Label /\ now - u.t0 <= MaxCallTicks
    BY <2>2, <2>4, LimitsAreNumbers DEF Label
  <2> QED
    BY <1>2, <2>3, <2>7, <2>8, TaskMoves
<1> QED
  BY <1>1, <1>2 DEF NextPage

-------------------------------------------------------------------------------
(* The first statement of a tool lists nodes.                                  *)

LEMMA LiveNodesAre ==
    ASSUME Inv
    PROVE  /\ LiveNodes = LiveIds(came, went)
           /\ LiveNodes \subseteq DOMAIN created /\ DOMAIN created \subseteq NodeId
           /\ \A t \in Nat : \A id : NodeSince(id, t, came, went) => id \in LiveNodes
           /\ \A t \in Nat : \A id \in LiveNodes : NodeWas(id, t, came, went)
<1>1. LiveNodes = LiveIds(came, went)
  BY DEF LiveNodes, LiveIds, IdsOf, Live, rows, dead
<1>2. Tables(now, came, went, created)
  BY DEF Inv
<1>3. LiveIds(came, went) \subseteq DOMAIN created
  BY <1>2 DEF LiveIds, IdsOf, Tables
<1>4. DOMAIN created \subseteq NodeId
  BY <1>2, IdsTyped DEF Tables
<1>5. ASSUME NEW t \in Nat, NEW id, NodeSince(id, t, came, went)
      PROVE  id \in LiveIds(came, went)
  <2>1. PICK x \in DOMAIN came : IsNode(x, id) /\ Since(x, t, came, went)
    BY <1>5 DEF NodeSince
  <2>2. x \in DOMAIN came \ DOMAIN went
    BY <2>1 DEF Since
  <2> QED
    BY <2>1, <2>2, IdOfNode DEF LiveIds
<1>6. ASSUME NEW t \in Nat, NEW id \in LiveIds(came, went)
      PROVE  NodeWas(id, t, came, went)
  <2>1. PICK x \in DOMAIN came \ DOMAIN went : IsNode(x, id)
    BY NodeOfId DEF LiveIds
  <2> QED
    BY <2>1 DEF NodeWas, Was
<1> QED
  BY <1>1, <1>3, <1>4, <1>5, <1>6

LEMMA PageIsNext ==
    ASSUME Inv, NEW q \in Query, q.op = "timeline", NEW t \in Task, t.q = q
    PROVE  LET page == PageOf(q, t.off)
               S == Listing(q, came, went, created)
               off == ClampOffset(t.off)
           IN /\ page.ids \subseteq S /\ page.more \in BOOLEAN
              /\ page.more => Cardinality(page.ids) = ClampLimit(q.limit)
              /\ \A id \in S : off <= PlaceIn(id, S, created)
                               /\ (PlaceIn(id, S, created) < off + ClampLimit(q.limit)
                                   \/ ~page.more)
                               => id \in page.ids
<1> DEFINE S == Listing(q, came, went, created)
           off == ClampOffset(t.off)
           lim == ClampLimit(q.limit)
           page == PageOf(q, t.off)
<1>1. Tables(now, came, went, created)
  BY DEF Inv
<1>2. LiveNodes = LiveIds(came, went)
  BY LiveNodesAre
<1>3. S = Timeline(q)
  BY <1>2 DEF Listing, Timeline, ListActive, InWindow, Window
<1>4. \A id : PlaceIn(id, S, created) = Place(id, S)
  BY DEF PlaceIn, Place, Before, Newer
<1>5. /\ page.ids = {id \in S : PlaceIn(id, S, created) \in off..((off + lim) - 1)}
      /\ page.more \in BOOLEAN /\ (page.more <=> Cardinality(S) > off + lim)
  <2> DEFINE ids == {id \in Timeline(q) : Place(id, Timeline(q)) \in off..((off + lim) - 1)}
             more == Cardinality(Timeline(q)) > off + lim
  <2>1. page = [ids |-> ids, more |-> more]
    BY Zenon DEF PageOf
  <2>2. more \in BOOLEAN
    OBVIOUS
  <2> HIDE DEF ids, more, page
  <2>3. page.ids = ids /\ page.more = more
    BY <2>1
  <2> HIDE DEF S, off, lim
  <2>4. ids = {id \in S : Place(id, S) \in off..((off + lim) - 1)}
    BY <1>3 DEF ids
  <2>5. ids = {id \in S : PlaceIn(id, S, created) \in off..((off + lim) - 1)}
    BY <1>4, <2>4
  <2>6. page.more <=> Cardinality(S) > off + lim
    BY <1>3, <2>3 DEF more
  <2> QED
    BY <2>2, <2>3, <2>5, <2>6
<1>6. /\ S \in SUBSET NodeId /\ IsFiniteSet(S) /\ S \subseteq DOMAIN created
  BY <1>1, FewListed
<1>7. \A id \in S : created[id] \in Nat
  BY <1>1, <1>6 DEF Tables
<1>8. off \in Nat /\ lim \in Nat
  BY LimitsOk
<1>9. Cardinality(S) \in Nat
  BY <1>6, FS_CardinalityType
<1> HIDE DEF S, off, lim, page
<1>10. ASSUME page.more PROVE Cardinality(page.ids) = lim
  <2>1. Cardinality(S) > off + lim
    BY <1>5, <1>10
  <2> QED
    BY <1>5, <1>6, <1>7, <1>8, <2>1, PageIsFull
<1>11. ASSUME NEW id \in S, off <= PlaceIn(id, S, created),
              PlaceIn(id, S, created) < off + lim \/ ~page.more
       PROVE  id \in page.ids
  <2>1. PlaceIn(id, S, created) \in Nat /\ PlaceIn(id, S, created) < Cardinality(S)
    BY <1>6, <1>7, LastPageReachesEnd
  <2>2. PlaceIn(id, S, created) < off + lim
    BY <1>5, <1>8, <1>9, <1>11, <2>1
  <2>3. PlaceIn(id, S, created) \in off..((off + lim) - 1)
    BY <1>8, <1>11, <2>1, <2>2
  <2> QED
    BY <1>5, <2>3
<1>12. page.ids \subseteq S /\ page.more \in BOOLEAN
  BY <1>5
<1> QED
  BY <1>10, <1>11, <1>12 DEF S, off, lim, page

LEMMA ListedKeeps ==
    ASSUME Inv, NEW r \in Reader, pc[r] = "nodes", task[r].q.op \in ToolOp,
           NEW ids, NEW more \in BOOLEAN, Listed(r, ids, more), ids \subseteq LiveNodes,
           task[r].q.op \in {"read_graph", "open_nodes"} =>
             \A id \in LiveNodes :
                /\ InScope(id, task[r].q.project)
                /\ task[r].q.op = "open_nodes" => id.name \in task[r].q.names
                => id \in ids,
           more => task[r].q.op = "timeline",
           task[r].q.op = "timeline" => /\ ids = PageOf(task[r].q, task[r].off).ids
                                        /\ more = PageOf(task[r].q, task[r].off).more
    PROVE  Inv'
<1> DEFINE t == task[r]
           u == [t EXCEPT !.ids = ids, !.more = more]
           p == IF ids = {} THEN "reply" ELSE "observations"
<1>1. /\ t \in Task /\ now \in Nat /\ Tables(now, came, went, created)
      /\ Control("nodes", t) /\ Current("nodes", t, now, came, went, created)
      /\ Paging("nodes", t, came, went, created) /\ now - t.t0 <= MaxCallTicks
  BY OfReader DEF Fits, Busy
<1>2. Goto(r, p, u)
  BY DEF Listed
<1>3. /\ t.q \in Query /\ t.obs = {} /\ t.rels = {} /\ t.left = {} /\ DOMAIN t.best = {}
      /\ t.t0 <= now /\ t.start <= now /\ t.t0 \in Nat /\ t.start \in Nat
  BY <1>1 DEF Control, Current, Task
<1>4. ids \subseteq DOMAIN created /\ ids \subseteq NodeId
  BY LiveNodesAre
<1>5. u \in Task
  BY <1>1, <1>4 DEF Task
<1>6. /\ u.q = t.q /\ u.t0 = t.t0 /\ u.start = t.start /\ u.ids = ids /\ u.obs = {}
      /\ u.off = t.off /\ u.shown = t.shown /\ u.rels = {} /\ u.left = {}
      /\ DOMAIN u.best = {} /\ u.more = more
  BY <1>1, <1>3 DEF Task
<1>7. p \in {"reply", "observations"} /\ (ids # {} => p = "observations")
      /\ (ids = {} => p = "reply")
  OBVIOUS
<1>8. /\ t.q.op \in ToolOp
      /\ t.q.op \in {"read_graph", "open_nodes"} =>
           \A id \in LiveNodes :
              /\ InScope(id, t.q.project)
              /\ t.q.op = "open_nodes" => id.name \in t.q.names
              => id \in ids
      /\ more => t.q.op = "timeline"
      /\ t.q.op = "timeline" => /\ ids = PageOf(t.q, t.off).ids
                                /\ more = PageOf(t.q, t.off).more
  OBVIOUS
<1> HIDE DEF t, u, p
<1>9. t.q.op \notin {"find_conflicts", "session_summary", "stats"}
  BY <1>8 DEF ToolOp, GraphOp, ViewerOp
<1>10. Control(p, u)
  BY <1>3, <1>6, <1>7, <1>8 DEF Control
<1>11. Current(p, u, now, came, went, created)
  <2>1. \A id \in ids : NodeWas(id, t.t0, came, went)
    BY <1>3, LiveNodesAre
  <2> QED
    BY <1>3, <1>4, <1>6, <2>1 DEF Current
<1>12. Together(u, came, went)
  BY <1>6 DEF Together
<1>13. Complete(p, u, came, went, created)
  <2>1. \A id : NodeSince(id, t.t0, came, went) => id \in LiveNodes
    BY <1>3, LiveNodesAre
  <2>2. u.q.op \in {"read_graph", "open_nodes", "stats"} =>
          \A id \in DOMAIN created :
             /\ NodeSince(id, u.t0, came, went) /\ InScope(id, u.q.project)
             /\ u.q.op = "open_nodes" => id.name \in u.q.names
             => id \in u.ids
    BY <1>6, <1>8, <1>9, <2>1
  <2>3. p = "reply" => u.ids = {}
    BY <1>6, <1>7
  <2> QED
    BY <1>6, <1>7, <1>9, <2>2, <2>3 DEF Complete
<1>14. Closest(p, u, came, went, created)
  BY <1>6, <1>9 DEF Closest
<1>15. Paging(p, u, came, went, created)
  <2> SUFFICES ASSUME t.q.op = "timeline" PROVE Paging(p, u, came, went, created)
    BY <1>6 DEF Paging
  <2> DEFINE S == Listing(t.q, came, went, created)
             off == ClampOffset(t.off)
             lim == ClampLimit(t.q.limit)
  <2>1. /\ more => Cardinality(ids) = lim
        /\ \A id \in S : off <= PlaceIn(id, S, created)
                         /\ (PlaceIn(id, S, created) < off + lim \/ ~more)
                         => id \in ids
    BY <1>1, <1>3, <1>8, PageIsNext
  <2>2. ASSUME \A x \in DOMAIN went : x.tab = "nodes" => went[x] <= u.start,
               NEW id \in DOMAIN created, Awaited(id, u, came, went, created),
               PlaceIn(id, S, created) < off + lim \/ ~more
        PROVE  id \in u.shown \cup u.ids
    <3>1. Awaited(id, t, came, went, created)
      BY <1>6, <2>2 DEF Awaited
    <3>2. PlaceIn(id, S, created) < off => id \in t.shown
      BY <1>1, <1>6, <2>2, <3>1 DEF Paging
    <3>3. id \in S
      <4>1. NodeSince(id, t.start, came, went)
        BY <3>1 DEF Awaited
      <4>2. id \in LiveIds(came, went)
        BY <1>3, <4>1, LiveNodesAre
      <4> QED
        BY <3>1, <4>2 DEF Awaited, Listing
    <3>4. PlaceIn(id, S, created) \in Nat /\ off \in Nat
      BY <1>1, <1>3, FewListed, LimitsOk
    <3>5. PlaceIn(id, S, created) < off \/ off <= PlaceIn(id, S, created)
      BY <3>4
    <3> QED
      BY <1>6, <2>1, <2>2, <3>2, <3>3, <3>5
  <2> QED
    BY <1>6, <1>7, <2>1, <2>2 DEF Paging
<1>16. Fits(p, u, now, came, went, created)
  BY <1>10, <1>11, <1>12, <1>13, <1>14, <1>15 DEF Fits
<1>17. p \in Label /\ now - u.t0 <= MaxCallTicks
  BY <1>1, <1>6, <1>7 DEF Label
<1> QED
  BY <1>2, <1>5, <1>16, <1>17, TaskMoves

LEMMA ListStatementsKeep ==
    ASSUME Inv, NEW r \in Reader,
           \/ ReadGraph(r) \/ OpenNodes(r) \/ SearchNodes(r) \/ TimelinePage(r) \/ ViewerSearch(r)
    PROVE  Inv'
<1> DEFINE q == task[r].q
<1>1. CASE ReadGraph(r)
  <2>1. pc[r] = "nodes" /\ q.op = "read_graph" /\ Listed(r, ListActive(q.project), FALSE)
    BY <1>1 DEF ReadGraph, Asks
  <2>2. ListActive(q.project) = {id \in LiveNodes : InScope(id, q.project)}
    BY DEF ListActive
  <2>3. q.op \in ToolOp
    BY <2>1 DEF ToolOp, GraphOp
  <2> QED
    BY <2>1, <2>2, <2>3, ListedKeeps
<1>2. CASE OpenNodes(r)
  <2>1. /\ pc[r] = "nodes" /\ q.op = "open_nodes"
        /\ Listed(r, QueryOpenNodes(q.names, q.project), FALSE)
    BY <1>2 DEF OpenNodes, Asks
  <2>2. QueryOpenNodes(q.names, q.project) =
          {id \in LiveNodes : InScope(id, q.project) /\ id.name \in q.names}
    BY DEF ListActive, QueryOpenNodes
  <2>3. q.op \in ToolOp
    BY <2>1 DEF ToolOp, GraphOp
  <2> QED
    BY <2>1, <2>2, <2>3, ListedKeeps
<1>3. ASSUME NEW p, NEW T \in SearchByCosine(p) PROVE T \subseteq LiveNodes
  BY DEF SearchByCosine, Lowest, kSubset, Searchable
<1>4. ASSUME NEW p, NEW T \in ListAllDesc(p) PROVE T \subseteq LiveNodes
  BY DEF ListAllDesc, Lowest, kSubset, ListActive
<1>5. ASSUME NEW T, T \subseteq LiveNodes, Listed(r, T, FALSE), pc[r] = "nodes",
             q.op \in {"search_nodes", "viewer_list", "viewer_search"}
      PROVE  Inv'
  <2>1. q.op \in ToolOp
    BY <1>5 DEF ToolOp, GraphOp, ViewerOp
  <2> QED
    BY <1>5, <2>1, ListedKeeps
<1>6. CASE SearchNodes(r)
  BY <1>3, <1>5, <1>6 DEF SearchNodes, Asks
<1>7. CASE ViewerSearch(r)
  BY <1>3, <1>4, <1>5, <1>7 DEF ViewerSearch, Asks
<1>8. CASE TimelinePage(r)
  <2> DEFINE page == PageOf(q, task[r].off)
  <2>1. pc[r] = "nodes" /\ q.op = "timeline" /\ Listed(r, page.ids, page.more)
    BY <1>8 DEF TimelinePage, Asks
  <2>2. q.op \in ToolOp
    BY <2>1 DEF ToolOp, GraphOp
  <2>3. task[r] \in Task /\ Control("nodes", task[r])
    BY <2>1, OfReader DEF Fits
  <2>4. q \in Query
    BY <2>3 DEF Control
  <2>5. page.ids \subseteq Listing(q, came, went, created) /\ page.more \in BOOLEAN
    BY <2>1, <2>3, <2>4, PageIsNext
  <2>6. page.ids \subseteq LiveNodes
    BY <2>5, LiveNodesAre DEF Listing
  <2> HIDE DEF page
  <2>7. page.ids = PageOf(task[r].q, task[r].off).ids
        /\ page.more = PageOf(task[r].q, task[r].off).more
    BY DEF page
  <2> QED
    BY <2>1, <2>2, <2>5, <2>6, <2>7, ListedKeeps
<1> QED
  BY <1>1, <1>2, <1>6, <1>7, <1>8

-------------------------------------------------------------------------------
(* The statements after it.                                                    *)

\* Rows that are live now were live at some moment of the request, and the
\* rows that were there all along are live now.
LEMMA LiveRowsAre ==
    ASSUME Inv
    PROVE  /\ Live = DOMAIN came \ DOMAIN went
           /\ \A x \in Live : x \in DOMAIN came /\ x \in Row /\ \A t : Was(x, t, came, went)
           /\ \A x, t : Since(x, t, came, went) => x \in Live
BY DEF Live, rows, dead, Was, Since, Inv, Tables

LEMMA SelectObservationsKeeps ==
    ASSUME Inv, NEW r \in Reader, SelectObservations(r)
    PROVE  Inv'
<1> DEFINE t == task[r]
           obs == ListByNodeIDs(t.ids)
           u == [t EXCEPT !.obs = obs]
<1>1. pc[r] = "observations" /\ Goto(r, "relations", u)
  BY DEF SelectObservations
<1>2. /\ t \in Task /\ Control("observations", t)
      /\ Current("observations", t, now, came, went, created) /\ Together(t, came, went)
      /\ Complete("observations", t, came, went, created)
      /\ Paging("observations", t, came, went, created) /\ now - t.t0 <= MaxCallTicks
  BY <1>1, OfReader DEF Fits, Busy
<1>3. \A x : x \in obs <=> x \in Live /\ x.tab = "observations" /\ x.node \in t.ids
  BY DEF ListByNodeIDs, LiveObs
<1>4. obs \subseteq Row /\ obs \subseteq DOMAIN came
  BY <1>3, LiveRowsAre
<1>5. u \in Task
  BY <1>2, <1>4 DEF Task
<1>6. /\ u.q = t.q /\ u.t0 = t.t0 /\ u.start = t.start /\ u.ids = t.ids /\ u.obs = obs
      /\ u.off = t.off /\ u.shown = t.shown /\ u.rels = t.rels /\ u.left = t.left
      /\ u.best = t.best /\ u.more = t.more
  BY <1>2 DEF Task
<1> HIDE DEF t, u, obs
<1>7. t.q.op \in ToolOp /\ t.q \in Query /\ t.q.op \notin {"find_conflicts", "session_summary"}
  BY <1>2 DEF Control, ToolOp, GraphOp, ViewerOp
<1>8. Control("relations", u)
  BY <1>2, <1>6, <1>7 DEF Control
<1>9. Current("relations", u, now, came, went, created)
  <2>1. \A x \in obs : Was(x, t.t0, came, went)
    BY <1>3, LiveRowsAre
  <2> QED
    BY <1>2, <1>4, <1>6, <2>1 DEF Current
<1>10. Together(u, came, went)
  BY <1>2, <1>3, <1>6 DEF Together
<1>11. Complete("relations", u, came, went, created)
  <2>1. \A x : Since(x, t.t0, came, went) => x \in Live
    BY LiveRowsAre
  <2> QED
    BY <1>2, <1>3, <1>6, <2>1 DEF Complete
<1>12. Closest("relations", u, came, went, created)
  BY DEF Closest
<1>13. Paging("relations", u, came, went, created)
  BY <1>2, <1>6 DEF Paging, Awaited
<1>14. Fits("relations", u, now, came, went, created)
  BY <1>8, <1>9, <1>10, <1>11, <1>12, <1>13 DEF Fits
<1>15. "relations" \in Label /\ now - u.t0 <= MaxCallTicks
  BY <1>2, <1>6 DEF Label
<1> QED
  BY <1>1, <1>5, <1>14, <1>15, TaskMoves

LEMMA SelectRelationsKeeps ==
    ASSUME Inv, NEW r \in Reader, SelectRelations(r)
    PROVE  Inv'
<1> DEFINE t == task[r]
           rels == IF t.q.op \in ViewerOp THEN RelationsForNodeIDs(t.ids)
                   ELSE ListActiveRelationsForNodeIDs(t.ids)
           u == [t EXCEPT !.rels = rels]
<1>1. pc[r] = "relations" /\ Goto(r, "reply", u)
  BY DEF SelectRelations
<1>2. /\ t \in Task /\ Control("relations", t)
      /\ Current("relations", t, now, came, went, created) /\ Together(t, came, went)
      /\ Complete("relations", t, came, went, created)
      /\ Paging("relations", t, came, went, created) /\ now - t.t0 <= MaxCallTicks
  BY <1>1, OfReader DEF Fits, Busy
<1>3. t.q.op \in ToolOp /\ t.q \in Query
      /\ t.q.op \notin {"find_conflicts", "session_summary", "stats"}
  BY <1>2 DEF Control, ToolOp, GraphOp, ViewerOp
<1>4. ASSUME NEW l \in rels
      PROVE  /\ l \in Live /\ {l.from, l.to} \subseteq LiveNodes
             /\ l.from \in t.ids \/ l.to \in t.ids
             /\ t.q.op \in GraphOp => {l.from, l.to} \subseteq t.ids
  <2>1. t.q.op \in GraphOp => t.q.op \notin ViewerOp
    BY DEF GraphOp, ViewerOp
  <2>2. CASE t.q.op \in ViewerOp
    BY <2>1, <2>2 DEF RelationsForNodeIDs, LiveRels
  <2>3. CASE t.q.op \notin ViewerOp
    BY <2>3 DEF ListActiveRelationsForNodeIDs, LiveRels
  <2> QED
    BY <2>2, <2>3
<1>5. ASSUME NEW l \in Live, l.tab = "relations", {l.from, l.to} \subseteq t.ids \cap LiveNodes
      PROVE  l \in rels
  BY <1>5 DEF RelationsForNodeIDs, ListActiveRelationsForNodeIDs, LiveRels
<1> HIDE DEF rels
<1>6. rels \subseteq Row /\ rels \subseteq DOMAIN came
  BY <1>4, LiveRowsAre
<1>7. u \in Task
  BY <1>2, <1>6 DEF Task
<1>8. /\ u.q = t.q /\ u.t0 = t.t0 /\ u.start = t.start /\ u.ids = t.ids /\ u.obs = t.obs
      /\ u.off = t.off /\ u.shown = t.shown /\ u.rels = rels /\ u.left = t.left
      /\ u.best = t.best /\ u.more = t.more /\ t.t0 \in Nat
  BY <1>2 DEF Task
<1> HIDE DEF t, u
<1>9. Control("reply", u)
  BY <1>2, <1>3, <1>8 DEF Control
<1>10. Current("reply", u, now, came, went, created)
  <2>1. \A x \in rels : Was(x, t.t0, came, went)
    BY <1>4, LiveRowsAre
  <2> QED
    BY <1>2, <1>6, <1>8, <2>1 DEF Current
<1>11. Together(u, came, went)
  <2>1. \A l \in rels : NodeWas(l.from, t.t0, came, went) /\ NodeWas(l.to, t.t0, came, went)
    BY <1>4, <1>8, LiveNodesAre
  <2> QED
    BY <1>2, <1>4, <1>8, <2>1 DEF Together
<1>12. Complete("reply", u, came, went, created)
  <2>1. \A x : Since(x, t.t0, came, went) => x \in Live
    BY LiveRowsAre
  <2>2. LiveNodes = LiveIds(came, went)
    BY LiveNodesAre
  <2>3. \A x \in DOMAIN came :
           Since(x, t.t0, came, went) /\ x.tab = "relations"
           /\ {x.from, x.to} \subseteq t.ids \cap LiveIds(came, went) => x \in rels
    BY <1>5, <2>1, <2>2
  <2> QED
    BY <1>2, <1>3, <1>8, <2>3 DEF Complete
<1>13. Closest("reply", u, came, went, created)
  BY <1>3, <1>8 DEF Closest
<1>14. Paging("reply", u, came, went, created)
  BY <1>2, <1>8 DEF Paging, Awaited
<1>15. Fits("reply", u, now, came, went, created)
  BY <1>9, <1>10, <1>11, <1>12, <1>13, <1>14 DEF Fits
<1>16. "reply" \in Label /\ now - u.t0 <= MaxCallTicks
  BY <1>2, <1>8 DEF Label
<1> QED
  BY <1>1, <1>7, <1>15, <1>16, TaskMoves

LEMMA SelectCountsKeeps ==
    ASSUME Inv, NEW r \in Reader, SelectCounts(r)
    PROVE  Inv'
<1> DEFINE t == task[r]
           ids == ListActive(t.q.project)
           rels == {l \in LiveRels : t.q.project \in {None, l.project}}
           u == [t EXCEPT !.ids = ids, !.obs = LiveObs, !.rels = rels]
<1>1. pc[r] = "nodes" /\ t.q.op = "stats" /\ Goto(r, "by_type", u)
  BY DEF SelectCounts, Asks
<1>2. /\ t \in Task /\ Control("nodes", t) /\ Current("nodes", t, now, came, went, created)
      /\ now - t.t0 <= MaxCallTicks
  BY <1>1, OfReader DEF Fits, Busy
<1>3. ids = {id \in LiveNodes : InScope(id, t.q.project)}
  BY DEF ListActive
<1>4. LiveObs \subseteq Live /\ rels \subseteq Live
  BY DEF LiveObs, LiveRels
<1>5. ids \subseteq DOMAIN created /\ ids \subseteq NodeId /\ ids \subseteq LiveNodes
  BY <1>3, LiveNodesAre
<1>6. LiveObs \cup rels \subseteq DOMAIN came /\ LiveObs \subseteq Row /\ rels \subseteq Row
  BY <1>4, LiveRowsAre
<1>7. u \in Task
  BY <1>2, <1>5, <1>6 DEF Task
<1>8. /\ u.q = t.q /\ u.t0 = t.t0 /\ u.start = t.start /\ u.ids = ids /\ u.obs = LiveObs
      /\ u.rels = rels /\ u.left = t.left /\ u.best = t.best /\ u.more = t.more
      /\ t.t0 \in Nat
  BY <1>2 DEF Task
<1> HIDE DEF t, u, ids, rels
<1>9. Control("by_type", u)
  BY <1>1, <1>2, <1>8 DEF Control
<1>10. Current("by_type", u, now, came, went, created)
  <2>1. \A x \in LiveObs \cup rels : Was(x, t.t0, came, went)
    BY <1>4, LiveRowsAre
  <2>2. \A id \in ids : NodeWas(id, t.t0, came, went)
    BY <1>5, <1>8, LiveNodesAre
  <2>3. t.left \subseteq DOMAIN came /\ DOMAIN t.best = {} /\ t.t0 <= now /\ t.start <= now
    BY <1>2 DEF Control, Current
  <2> QED
    BY <1>5, <1>6, <1>8, <2>1, <2>2, <2>3 DEF Current
<1>11. Together(u, came, went) /\ Closest("by_type", u, came, went, created)
  BY <1>1, <1>8 DEF Together, Closest, ToolOp, GraphOp, ViewerOp
<1>12. Complete("by_type", u, came, went, created)
  <2>1. \A id : NodeSince(id, t.t0, came, went) => id \in LiveNodes
    BY <1>8, LiveNodesAre
  <2> QED
    BY <1>1, <1>3, <1>8, <2>1 DEF Complete
<1>13. Paging("by_type", u, came, went, created)
  BY <1>1, <1>8 DEF Paging
<1>14. Fits("by_type", u, now, came, went, created)
  BY <1>9, <1>10, <1>11, <1>12, <1>13 DEF Fits
<1>15. "by_type" \in Label /\ now - u.t0 <= MaxCallTicks
  BY <1>2, <1>8 DEF Label
<1> QED
  BY <1>1, <1>7, <1>14, <1>15, TaskMoves

LEMMA SelectByTypeKeeps ==
    ASSUME Inv, NEW r \in Reader, SelectByType(r)
    PROVE  Inv'
<1> DEFINE t == task[r]
<1>1. pc[r] = "by_type" /\ Goto(r, "reply", t)
  BY DEF SelectByType
<1>2. /\ t \in Task /\ Control("by_type", t)
      /\ Current("by_type", t, now, came, went, created) /\ Together(t, came, went)
      /\ Complete("by_type", t, came, went, created) /\ now - t.t0 <= MaxCallTicks
  BY <1>1, OfReader DEF Fits, Busy
<1> HIDE DEF t
<1>3. t.q.op = "stats"
  BY <1>2 DEF Control
<1>4. Control("reply", t) /\ Current("reply", t, now, came, went, created)
  BY <1>2 DEF Control, Current
<1>5. Complete("reply", t, came, went, created)
  BY <1>2, <1>3 DEF Complete, ToolOp, GraphOp, ViewerOp
<1>6. Closest("reply", t, came, went, created) /\ Paging("reply", t, came, went, created)
  BY <1>3 DEF Closest, Paging
<1>7. Fits("reply", t, now, came, went, created)
  BY <1>2, <1>4, <1>5, <1>6 DEF Fits
<1>8. "reply" \in Label
  BY DEF Label
<1> QED
  BY <1>1, <1>2, <1>7, <1>8, TaskMoves

-------------------------------------------------------------------------------
(* session_summary.                                                            *)

LEMMA GetSessionKeeps ==
    ASSUME Inv, NEW r \in Reader, GetSession(r)
    PROVE  Inv'
<1> DEFINE t == task[r]
<1>1. CASE Goto(r, "idle", NoTask)
  BY <1>1, StopKeeps
<1>2. CASE Goto(r, "audit", t)
  <2>1. pc[r] = "session"
    BY DEF GetSession
  <2>2. /\ t \in Task /\ Control("session", t)
        /\ Current("session", t, now, came, went, created) /\ Together(t, came, went)
        /\ now - t.t0 <= MaxCallTicks
    BY <2>1, OfReader DEF Fits, Busy
  <2> HIDE DEF t
  <2>3. t.q.op = "session_summary"
    BY <2>2 DEF Control
  <2>4. Control("audit", t) /\ Current("audit", t, now, came, went, created)
    BY <2>2 DEF Control, Current
  <2>5. Complete("audit", t, came, went, created)
    BY DEF Complete
  <2>6. Closest("audit", t, came, went, created) /\ Paging("audit", t, came, went, created)
    BY <2>3 DEF Closest, Paging
  <2>7. Fits("audit", t, now, came, went, created)
    BY <2>2, <2>4, <2>5, <2>6 DEF Fits
  <2>8. "audit" \in Label
    BY DEF Label
  <2> QED
    BY <1>2, <2>2, <2>7, <2>8, TaskMoves
<1> QED
  BY <1>1, <1>2 DEF GetSession

LEMMA AuditKeeps ==
    ASSUME Inv, NEW r \in Reader, Audit(r)
    PROVE  Inv'
<1> DEFINE t == task[r]
           ids == ListSessionNodes(t.q.session)
           obs == ListByNodeIDs(ids)
           u == [t EXCEPT !.ids = ids, !.obs = obs]
<1>1. pc[r] = "audit" /\ Goto(r, "reply", u)
  BY DEF Audit
<1>2. /\ t \in Task /\ Control("audit", t) /\ Current("audit", t, now, came, went, created)
      /\ now - t.t0 <= MaxCallTicks
  BY <1>1, OfReader DEF Fits, Busy
<1>3. ids = {IdOf(x) : x \in {y \in DOMAIN came : y.tab = "nodes"
                                                  /\ y.session = t.q.session}}
  BY DEF ListSessionNodes, rows
<1>4. ids \subseteq DOMAIN created /\ ids \subseteq NodeId
  <2>1. DOMAIN created = IdsOf(DOMAIN came)
    BY DEF Inv, Tables
  <2>2. ids \subseteq IdsOf(DOMAIN came)
    BY <1>3 DEF IdsOf
  <2> QED
    BY <2>1, <2>2, LiveNodesAre
<1>5. obs \subseteq Row /\ obs \subseteq DOMAIN came
  BY LiveRowsAre DEF ListByNodeIDs, LiveObs
<1>6. u \in Task
  BY <1>2, <1>4, <1>5 DEF Task
<1>7. /\ u.q = t.q /\ u.t0 = t.t0 /\ u.start = t.start /\ u.ids = ids /\ u.obs = obs
      /\ u.rels = t.rels /\ u.left = t.left /\ u.best = t.best /\ u.more = t.more
  BY <1>2 DEF Task
<1> HIDE DEF t, u, ids, obs
<1>8. t.q.op = "session_summary" /\ t.q \in Query /\ DOMAIN t.best = {}
  BY <1>2 DEF Control
<1>9. Control("reply", u)
  BY <1>2, <1>7, <1>8 DEF Control
<1>10. Current("reply", u, now, came, went, created)
  BY <1>2, <1>4, <1>5, <1>7, <1>8 DEF Current, ToolOp, GraphOp, ViewerOp
<1>11. Together(u, came, went) /\ Closest("reply", u, came, went, created)
       /\ Paging("reply", u, came, went, created)
  BY <1>7, <1>8 DEF Together, Closest, Paging, ToolOp, GraphOp, ViewerOp
<1>12. Complete("reply", u, came, went, created)
  <2>1. \A x \in DOMAIN came : x.tab = "nodes" /\ x.session = t.q.session => IdOf(x) \in ids
    BY <1>3
  <2> QED
    BY <1>7, <1>8, <2>1 DEF Complete, ToolOp, GraphOp, ViewerOp
<1>13. Fits("reply", u, now, came, went, created)
  BY <1>9, <1>10, <1>11, <1>12 DEF Fits
<1>14. "reply" \in Label /\ now - u.t0 <= MaxCallTicks
  BY <1>2, <1>7 DEF Label
<1> QED
  BY <1>1, <1>6, <1>13, <1>14, TaskMoves

-------------------------------------------------------------------------------
(* find_conflicts.                                                             *)

LEMMA BestIs ==
    ASSUME NEW best \in Best
    PROVE  DOMAIN best \subseteq NodeId /\ \A id \in DOMAIN best : best[id] \in 0..100
<1>1. CASE best = <<>>
  <2>1. DOMAIN best = {}
    BY <1>1
  <2> QED
    BY <2>1
<1>2. CASE \E S \in SUBSET NodeId : best \in [S -> 0..100]
  BY <1>2
<1> QED
  BY <1>1, <1>2 DEF Best

\* A live observation that came before the request and carries an embedding.
LEMMA SteadyIs ==
    ASSUME Inv, NEW t \in Nat, NEW x, Steady(x, t, came, went)
    PROVE  /\ x \in LiveObs /\ x \in ObsRow /\ x.text \in Embedded
           /\ x.node \in LiveNodes
<1>1. x \in Live /\ x \in Row /\ x.tab = "observations"
  BY LiveRowsAre DEF Steady
<1>2. x.node \in LiveNodes
  BY LiveNodesAre DEF Steady
<1> QED
  BY <1>1, <1>2 DEF Steady, LiveObs, Row, NodeRow, ObsRow, RelRow, SessRow

LEMMA FindTargetKeeps ==
    ASSUME Inv, NEW r \in Reader, FindTarget(r)
    PROVE  Inv'
<1> DEFINE t == task[r]
           S == QueryOpenNodes({t.q.name}, t.q.project)
           first == CHOOSE id \in S : \A jd \in S : id.project <= jd.project
           u == [t EXCEPT !.ids = {first}]
<1>1. pc[r] = "target"
  BY DEF FindTarget
<1>2. \/ S = {} /\ Goto(r, "idle", NoTask)
      \/ S # {} /\ Goto(r, "embeddings", u)
  BY DEF FindTarget
<1>3. /\ t \in Task /\ Control("target", t) /\ Current("target", t, now, came, went, created)
      /\ Together(t, came, went) /\ now - t.t0 <= MaxCallTicks
  BY <1>1, OfReader DEF Fits, Busy
<1>4. S \subseteq LiveNodes /\ S \subseteq DOMAIN created /\ S \subseteq NodeId
  <2>1. S \subseteq LiveNodes
    BY DEF QueryOpenNodes, ListActive
  <2> QED
    BY <2>1, LiveNodesAre
<1>5. CASE S = {} /\ Goto(r, "idle", NoTask)
  BY <1>5, StopKeeps
<1>6. CASE S # {} /\ Goto(r, "embeddings", u)
  <2>1. first \in S
    <3> DEFINE A == {id.project : id \in S}
    <3>1. A \in SUBSET Nat /\ A # {}
      BY <1>4, <1>6, ProjectsAreRanked DEF NodeId
    <3>2. PICK m \in A : \A k \in A : m <= k
      <4> HIDE DEF A
      <4> QED
        BY <3>1, LeastNumber
    <3>3. \E id \in S : \A jd \in S : id.project <= jd.project
      BY <3>2
    <3> HIDE DEF S
    <3> QED
      BY <3>3
  <2>2. first \in DOMAIN created /\ first \in NodeId
    BY <1>4, <2>1
  <2> HIDE DEF first
  <2>3. u \in Task
    BY <1>3, <2>2 DEF Task
  <2>4. /\ u.q = t.q /\ u.t0 = t.t0 /\ u.start = t.start /\ u.ids = {first} /\ u.obs = t.obs
        /\ u.rels = t.rels /\ u.left = t.left /\ u.best = t.best /\ u.more = t.more
    BY <1>3 DEF Task
  <2> HIDE DEF t, u, S
  <2>5. /\ t.q.op = "find_conflicts" /\ t.q \in Query /\ DOMAIN t.best = {} /\ t.left = {}
        /\ t.obs = {} /\ t.rels = {} /\ ~t.more
    BY <1>3 DEF Control
  <2>6. Control("embeddings", u)
    BY <2>4, <2>5 DEF Control
  <2>7. Current("embeddings", u, now, came, went, created)
    BY <1>3, <2>2, <2>4, <2>5 DEF Current, ToolOp, GraphOp, ViewerOp
  <2>8. Together(u, came, went) /\ Paging("embeddings", u, came, went, created)
        /\ Complete("embeddings", u, came, went, created)
    BY <2>4, <2>5 DEF Together, Paging, Complete, ToolOp, GraphOp, ViewerOp
  <2>9. Closest("embeddings", u, came, went, created)
    BY <2>2, <2>4, <2>5 DEF Closest
  <2>10. Fits("embeddings", u, now, came, went, created)
    BY <2>6, <2>7, <2>8, <2>9 DEF Fits
  <2>11. "embeddings" \in Label /\ now - u.t0 <= MaxCallTicks
    BY <1>3, <2>4 DEF Label
  <2> QED
    BY <1>6, <2>3, <2>10, <2>11, TaskMoves
<1> QED
  BY <1>2, <1>5, <1>6

\* What find_conflicts keeps to between its statements.
LEMMA ConflictFits ==
    ASSUME Inv, NEW p \in {"similar", "reply"}, NEW t \in Task, t.q.op = "find_conflicts",
           t.q \in Query, ~t.more,
           Current(p, t, now, came, went, created), Closest(p, t, came, went, created)
    PROVE  Fits(p, t, now, came, went, created)
<1>1. Control(p, t)
  BY DEF Control
<1>2. Together(t, came, went) /\ Paging(p, t, came, went, created)
      /\ Complete(p, t, came, went, created)
  BY DEF Together, Paging, Complete, ToolOp, GraphOp, ViewerOp
<1> QED
  BY <1>1, <1>2 DEF Fits

LEMMA FetchTargetEmbeddingsKeeps ==
    ASSUME Inv, NEW r \in Reader, FetchTargetEmbeddings(r)
    PROVE  Inv'
<1> DEFINE t == task[r]
           own == {o \in LiveObs : o.node \in t.ids /\ o.text \in Embedded}
           u == [t EXCEPT !.left = own]
<1>1. pc[r] = "embeddings"
  BY DEF FetchTargetEmbeddings
<1>2. \/ own = {} /\ Goto(r, "reply", t)
      \/ Goto(r, "similar", u)
  BY DEF FetchTargetEmbeddings
<1>3. /\ t \in Task /\ Control("embeddings", t)
      /\ Current("embeddings", t, now, came, went, created)
      /\ Closest("embeddings", t, came, went, created) /\ now - t.t0 <= MaxCallTicks
  BY <1>1, OfReader DEF Fits, Busy
<1>4. /\ own \subseteq Row /\ own \subseteq DOMAIN came
      /\ \A o \in own : o.tab = "observations"
  BY LiveRowsAre DEF LiveObs
<1>5. u \in Task
  BY <1>3, <1>4 DEF Task
<1>6. /\ u.q = t.q /\ u.t0 = t.t0 /\ u.start = t.start /\ u.ids = t.ids /\ u.obs = t.obs
      /\ u.rels = t.rels /\ u.left = own /\ u.best = t.best /\ u.more = t.more
      /\ t.t0 \in Nat
  BY <1>3 DEF Task
<1>7. ASSUME NEW x, Steady(x, t.t0, came, went), x.node \in t.ids PROVE x \in own
  BY <1>6, <1>7, SteadyIs
<1> HIDE DEF t, u, own
<1>8. t.q.op = "find_conflicts" /\ t.q \in Query /\ ~t.more
  BY <1>3 DEF Control
<1>9. PICK tgt \in DOMAIN created :
         t.ids = {tgt} /\ tgt \notin DOMAIN t.best /\ DOMAIN t.best = {} /\ t.left = {}
  BY <1>3, <1>8 DEF Closest
<1>10. \A x, y : Steady(x, t.t0, came, went) /\ Alike(x, y, tgt) => x \in own
  BY <1>7, <1>9 DEF Alike
<1>11. CASE own = {} /\ Goto(r, "reply", t)
  <2>1. Closest("reply", t, came, went, created)
    BY <1>9, <1>10, <1>11 DEF Closest
  <2>2. Current("reply", t, now, came, went, created)
    BY <1>3 DEF Current
  <2>3. Fits("reply", t, now, came, went, created)
    BY <1>3, <1>8, <2>1, <2>2, ConflictFits
  <2>4. "reply" \in Label
    BY DEF Label
  <2> QED
    BY <1>3, <1>11, <2>3, <2>4, TaskMoves
<1>12. CASE Goto(r, "similar", u)
  <2>1. Closest("similar", u, came, went, created)
    BY <1>4, <1>6, <1>9, <1>10 DEF Closest
  <2>2. Current("similar", u, now, came, went, created)
    BY <1>3, <1>4, <1>6, <1>8, <1>9 DEF Current, ToolOp, GraphOp, ViewerOp
  <2>3. Fits("similar", u, now, came, went, created)
    BY <1>5, <1>6, <1>8, <2>1, <2>2, ConflictFits
  <2>4. "similar" \in Label /\ now - u.t0 <= MaxCallTicks
    BY <1>3, <1>6 DEF Label
  <2> QED
    BY <1>5, <1>12, <2>3, <2>4, TaskMoves
<1> QED
  BY <1>2, <1>11, <1>12

LEMMA AggregateIs ==
    ASSUME NEW best \in Best, NEW own \in ObsRow, NEW found \in SUBSET ObsRow,
           \A o \in found : o.node \in NodeId
    PROVE  LET new == Aggregate(best, own, found)
           IN /\ new \in Best /\ DOMAIN new = DOMAIN best \cup {o.node : o \in found}
              /\ \A id \in DOMAIN best : new[id] >= best[id]
              /\ \A o \in found : new[o.node] >= Likeness[own.text][o.text]
<1> DEFINE L(o) == Likeness[own.text][o.text]
           D == DOMAIN best \cup {o.node : o \in found}
           A(id) == {L(o) : o \in {x \in found : x.node = id}}
                    \cup (IF id \in DOMAIN best THEN {best[id]} ELSE {})
           new == Aggregate(best, own, found)
<1>1. new = [id \in D |-> Max(A(id))]
  BY DEF Aggregate
<1>2. \A o \in found : L(o) \in 0..100
  BY LikenessIsAPercentage DEF ObsRow
<1>3. D \subseteq NodeId /\ \A id \in DOMAIN best : best[id] \in 0..100
  BY BestIs
<1>4. ASSUME NEW id \in D
      PROVE  A(id) \subseteq 0..100 /\ Max(A(id)) \in A(id) /\ \A n \in A(id) : Max(A(id)) >= n
  <2>1. A(id) \subseteq 0..100
    BY <1>2, <1>3
  <2>2. A(id) # {}
    OBVIOUS
  <2>3. IsFiniteSet(0..100)
    <3>1. 0 \in Int /\ 100 \in Int
      OBVIOUS
    <3> QED
      BY <3>1, FS_Interval, Zenon
  <2>4. A(id) \in SUBSET Nat
    BY <2>1
  <2> HIDE DEF A
  <2>5. IsFiniteSet(A(id))
    BY <2>1, <2>3, FS_Subset
  <2> QED
    BY <2>1, <2>2, <2>4, <2>5, MaxIsLargest
<1>5. \A id \in DOMAIN best : id \in D /\ best[id] \in A(id)
  OBVIOUS
<1>6. \A o \in found : o.node \in D /\ L(o) \in A(o.node)
  OBVIOUS
<1> HIDE DEF A, D, new
<1>7. \A id \in D : new[id] \in 0..100 /\ \A n \in A(id) : new[id] >= n
  BY <1>1, <1>4
<1>8. new \in [D -> 0..100] /\ DOMAIN new = D
  BY <1>1, <1>7
<1>9. new \in Best
  BY <1>3, <1>8 DEF Best
<1>10. \A id \in DOMAIN best : new[id] >= best[id]
  BY <1>5, <1>7
<1>11. \A o \in found : new[o.node] >= L(o)
  BY <1>6, <1>7
<1> QED
  BY <1>8, <1>9, <1>10, <1>11 DEF new, D

LEMMA FewRows ==
    ASSUME Inv
    PROVE  IsFiniteSet(DOMAIN came) /\ IsFiniteSet(DOMAIN created)
BY FewIds DEF Inv, Tables

\* The cut of a query keeps the observations that are closest.
LEMMA CutKeepsClosest ==
    ASSUME Inv, NEW t \in Task, NEW tgt \in DOMAIN created, t.ids = {tgt},
           NEW own \in ObsRow, NEW found \in Similar(t, own)
    PROVE  /\ found \subseteq LiveObs /\ found \subseteq ObsRow
           /\ \A o \in found : o.node \in LiveNodes /\ o.node # tgt
           /\ \A x \in LiveObs :
                 /\ x.text \in Embedded /\ x.node \in LiveNodes /\ x.node # tgt
                 /\ x.node.project = tgt.project /\ Likeness[own.text][x.text] >= MinSim
                 => \E o \in found : Likeness[own.text][o.text] >= Likeness[own.text][x.text]
<1> DEFINE close == {o \in Searchable(tgt.project) :
                       o.node # tgt /\ Likeness[own.text][o.text] >= MinSim}
           k == TopK * Spread
           n == IF Cardinality(close) < k THEN Cardinality(close) ELSE k
<1>1. Target(t) = tgt
  BY DEF Target
<1>2. /\ found \in kSubset(n, close)
      /\ \A s \in found, u \in close \ found :
            100 - Likeness[own.text][s.text] <= 100 - Likeness[own.text][u.text]
  BY <1>1 DEF Similar, Lowest
<1>3. found \subseteq close
  BY <1>2 DEF kSubset
<1>4. /\ close \subseteq LiveObs /\ close \subseteq DOMAIN came /\ close \subseteq ObsRow
      /\ \A o \in close : o.node \in LiveNodes /\ o.node # tgt
  <2>1. close \subseteq LiveObs /\ \A o \in close : o.node \in LiveNodes /\ o.node # tgt
    BY DEF Searchable
  <2>2. \A o \in LiveObs : o \in DOMAIN came /\ o \in ObsRow
    BY LiveRowsAre DEF LiveObs, Row, NodeRow, ObsRow, RelRow, SessRow
  <2> QED
    BY <2>1, <2>2
<1>5. IsFiniteSet(close)
  BY <1>4, FewRows, FS_Subset
<1>6. k \in Nat \ {0}
  <2>1. TopK \in Nat /\ TopK >= 1 /\ Spread \in Nat /\ Spread >= 1
    BY LimitsAreNumbers
  <2> QED
    BY <2>1
<1>7. ASSUME NEW x \in close
      PROVE  \E o \in found : Likeness[own.text][o.text] >= Likeness[own.text][x.text]
  <2> HIDE DEF close, k
  <2>1. PICK s \in found : TRUE
    BY <1>2, <1>5, <1>6, SomeOfK
  <2>2. \A o \in close : Likeness[own.text][o.text] \in 0..100
    BY <1>4, LikenessIsAPercentage DEF ObsRow
  <2>3. CASE x \in found
    BY <2>2, <2>3
  <2>4. CASE x \notin found
    <3> DEFINE a == Likeness[own.text][s.text]
               b == Likeness[own.text][x.text]
    <3>1. 100 - a <= 100 - b
      BY <1>2, <2>4
    <3>2. a \in 0..100 /\ b \in 0..100
      BY <1>3, <2>2
    <3>3. a >= b
      <4> HIDE DEF a, b
      <4> QED
        BY <3>1, <3>2
    <3> QED
      BY <3>3
  <2> QED
    BY <2>3, <2>4
<1>8. ASSUME NEW x \in LiveObs, x.text \in Embedded, x.node \in LiveNodes, x.node # tgt,
             x.node.project = tgt.project, Likeness[own.text][x.text] >= MinSim
      PROVE  x \in close
  BY <1>8 DEF Searchable, InScope
<1> HIDE DEF close
<1> QED
  BY <1>3, <1>4, <1>7, <1>8

LEMMA QueryAndAggregateKeeps ==
    ASSUME Inv, NEW r \in Reader, QueryAndAggregate(r)
    PROVE  Inv'
<1> DEFINE t == task[r]
<1>1. pc[r] = "similar"
  BY DEF QueryAndAggregate
<1>2. PICK own \in t.left : \E found \in Similar(t, own) :
         Goto(r, "similar", [t EXCEPT !.left = @ \ {own},
                                      !.best = Aggregate(@, own, found)])
  BY DEF QueryAndAggregate
<1>3. PICK found \in Similar(t, own) :
         Goto(r, "similar", [t EXCEPT !.left = @ \ {own},
                                      !.best = Aggregate(@, own, found)])
  BY <1>2
<1> DEFINE new == Aggregate(t.best, own, found)
           u == [t EXCEPT !.left = t.left \ {own}, !.best = new]
<1>4. Goto(r, "similar", u)
  BY <1>3
<1>5. /\ t \in Task /\ Control("similar", t)
      /\ Current("similar", t, now, came, went, created)
      /\ Closest("similar", t, came, went, created) /\ now - t.t0 <= MaxCallTicks
  BY <1>1, OfReader DEF Fits, Busy
<1>6. /\ u.q = t.q /\ u.t0 = t.t0 /\ u.start = t.start /\ u.ids = t.ids /\ u.obs = t.obs
      /\ u.rels = t.rels /\ u.left = t.left \ {own} /\ u.best = new /\ u.more = t.more
      /\ t.t0 \in Nat /\ t.left \subseteq Row /\ t.best \in Best
  BY <1>5 DEF Task
<1>7. new \in Best => u \in Task
  BY <1>5 DEF Task
<1> HIDE DEF t, u
<1>8. t.q.op = "find_conflicts" /\ t.q \in Query
  BY <1>5 DEF Control
<1>9. t.q.op # "timeline" /\ ~t.more
  BY <1>5, <1>8 DEF Control
<1>10. PICK tgt \in DOMAIN created :
          /\ t.ids = {tgt} /\ tgt \notin DOMAIN t.best
          /\ \A o \in t.left : o.tab = "observations"
          /\ \A x, y \in DOMAIN came :
               Steady(x, t.t0, came, went) /\ Steady(y, t.t0, came, went) /\ Alike(x, y, tgt)
               => x \in t.left \/ Reported(t.best, Likeness[x.text][y.text])
  BY <1>5, <1>8 DEF Closest
<1>11. own \in ObsRow
  BY <1>6, <1>10 DEF Row, NodeRow, ObsRow, RelRow, SessRow
<1>12. /\ found \subseteq LiveObs /\ found \subseteq ObsRow
       /\ \A o \in found : o.node \in LiveNodes /\ o.node # tgt
       /\ \A x \in LiveObs :
             /\ x.text \in Embedded /\ x.node \in LiveNodes /\ x.node # tgt
             /\ x.node.project = tgt.project /\ Likeness[own.text][x.text] >= MinSim
             => \E o \in found : Likeness[own.text][o.text] >= Likeness[own.text][x.text]
  BY <1>5, <1>10, <1>11, CutKeepsClosest
<1>13. LiveNodes \subseteq DOMAIN created /\ LiveNodes \subseteq NodeId
  BY LiveNodesAre
<1>14. /\ new \in Best /\ DOMAIN new = DOMAIN t.best \cup {o.node : o \in found}
       /\ \A id \in DOMAIN t.best : new[id] >= t.best[id]
       /\ \A o \in found : new[o.node] >= Likeness[own.text][o.text]
  BY <1>6, <1>11, <1>12, <1>13, AggregateIs
<1>15. \A id \in DOMAIN t.best : t.best[id] \in Nat
  BY <1>6, BestIs
<1>16. \A id \in DOMAIN new : new[id] \in Nat
  BY <1>14, BestIs
<1> HIDE DEF new
<1>17. Current("similar", u, now, came, went, created)
  <2>1. \A id \in LiveNodes : NodeWas(id, t.t0, came, went)
    BY <1>6, LiveNodesAre
  <2>2. \A id \in DOMAIN new : id \in DOMAIN created /\ NodeWas(id, t.t0, came, went)
    BY <1>5, <1>8, <1>12, <1>13, <1>14, <2>1 DEF Current
  <2> QED
    BY <1>5, <1>6, <1>8, <2>2 DEF Current, ToolOp, GraphOp, ViewerOp
<1>18. ASSUME NEW x \in DOMAIN came, NEW y \in DOMAIN came, Steady(x, t.t0, came, went),
              Steady(y, t.t0, came, went), Alike(x, y, tgt)
       PROVE  x \in t.left \ {own} \/ Reported(new, Likeness[x.text][y.text])
  <2> DEFINE sim == Likeness[x.text][y.text]
  <2>1. x \in ObsRow /\ y \in ObsRow /\ y \in LiveObs /\ y.text \in Embedded
        /\ y.node \in LiveNodes
    BY <1>6, <1>18, SteadyIs
  <2>2. sim \in Nat
    BY <2>1, LikenessIsAPercentage DEF ObsRow
  <2>3. CASE Reported(t.best, sim)
    <3>1. PICK id \in DOMAIN t.best : t.best[id] >= sim
      BY <2>3 DEF Reported
    <3>2. id \in DOMAIN new /\ new[id] >= t.best[id] /\ t.best[id] \in Nat /\ new[id] \in Nat
      BY <1>14, <1>15, <1>16
    <3> HIDE DEF sim
    <3>3. new[id] >= sim
      BY <2>2, <3>1, <3>2
    <3> QED
      BY <3>2, <3>3 DEF Reported, sim
  <2>4. CASE x = own
    <3>1. PICK o \in found : Likeness[own.text][o.text] >= sim
      BY <1>12, <1>18, <2>1, <2>4 DEF Alike
    <3> DEFINE s == Likeness[own.text][o.text]
    <3>2. s \in Nat
      BY <1>11, <1>12, LikenessIsAPercentage DEF ObsRow
    <3>3. o.node \in DOMAIN new /\ new[o.node] >= s /\ new[o.node] \in Nat
      BY <1>14, <1>16
    <3>4. s >= sim
      BY <3>1
    <3> HIDE DEF sim, s
    <3>5. new[o.node] >= sim
      BY <2>2, <3>2, <3>3, <3>4
    <3> QED
      BY <3>3, <3>5 DEF Reported, sim
  <2> QED
    BY <1>10, <1>18, <2>3, <2>4
<1>19. Closest("similar", u, came, went, created)
  <2>1. tgt \notin DOMAIN new
    BY <1>10, <1>12, <1>14
  <2> QED
    BY <1>6, <1>10, <1>18, <2>1 DEF Closest
<1>20. u \in Task
  BY <1>7, <1>14
<1>21. Fits("similar", u, now, came, went, created)
  BY <1>6, <1>8, <1>9, <1>17, <1>19, <1>20, ConflictFits
<1>22. "similar" \in Label /\ now - u.t0 <= MaxCallTicks
  BY <1>5, <1>6 DEF Label
<1> QED
  BY <1>4, <1>20, <1>21, <1>22, TaskMoves

LEMMA SortAndTruncateKeeps ==
    ASSUME Inv, NEW r \in Reader, SortAndTruncate(r)
    PROVE  Inv'
<1> DEFINE t == task[r]
           D == DOMAIN t.best
<1>1. pc[r] = "similar" /\ t.left = {}
  BY DEF SortAndTruncate
<1>2. PICK T : /\ T \in kSubset(IF Cardinality(D) < TopK THEN Cardinality(D) ELSE TopK, D)
               /\ \A id \in T, jd \in D \ T : 100 - t.best[id] <= 100 - t.best[jd]
               /\ Goto(r, "reply", [t EXCEPT !.best = [id \in T |-> t.best[id]]])
  BY DEF SortAndTruncate, Lowest
<1> DEFINE top == [id \in T |-> t.best[id]]
           u == [t EXCEPT !.best = top]
<1>3. Goto(r, "reply", u)
  BY <1>2
<1>4. T \subseteq D
  BY <1>2 DEF kSubset
<1>5. /\ t \in Task /\ Control("similar", t)
      /\ Current("similar", t, now, came, went, created)
      /\ Closest("similar", t, came, went, created) /\ now - t.t0 <= MaxCallTicks
  BY <1>1, OfReader DEF Fits, Busy
<1>6. t.best \in Best
  BY <1>5 DEF Task
<1>7. D \subseteq NodeId /\ \A id \in D : t.best[id] \in 0..100
  BY <1>6, BestIs
<1>8. DOMAIN top = T /\ \A id \in T : top[id] = t.best[id]
  OBVIOUS
<1>9. top \in Best
  <2>1. top \in [T -> 0..100] /\ T \in SUBSET NodeId
    BY <1>4, <1>7
  <2> QED
    BY <2>1 DEF Best
<1> HIDE DEF top
<1>10. u \in Task
  BY <1>5, <1>9 DEF Task
<1>11. /\ u.q = t.q /\ u.t0 = t.t0 /\ u.start = t.start /\ u.ids = t.ids /\ u.obs = t.obs
       /\ u.rels = t.rels /\ u.left = t.left /\ u.best = top /\ u.more = t.more
  BY <1>5 DEF Task
<1>12. D \subseteq DOMAIN created
  BY <1>5 DEF Current
<1> HIDE DEF t, u
<1>13. t.q.op = "find_conflicts" /\ t.q \in Query
  BY <1>5 DEF Control
<1>14. t.q.op # "timeline" /\ ~t.more
  BY <1>5, <1>13 DEF Control
<1>15. ASSUME NEW id \in D
       PROVE  \E jd \in T : top[jd] >= t.best[id]
  <2>1. IsFiniteSet(D) /\ D # {}
    BY <1>12, <1>15, FewRows, FS_Subset
  <2>2. TopK \in Nat \ {0}
    BY LimitsAreNumbers
  <2>3. T # {}
    <3> HIDE DEF D
    <3> QED
      BY <1>2, <2>1, <2>2, SomeOfK
  <2>4. CASE id \in T
    BY <1>7, <1>8, <2>4
  <2>5. CASE id \notin T
    <3>1. PICK jd \in T : TRUE
      BY <2>3
    <3> DEFINE a == t.best[jd]
               b == t.best[id]
    <3>2. 100 - a <= 100 - b
      BY <1>2, <2>5
    <3>3. a \in 0..100 /\ b \in 0..100
      BY <1>4, <1>7
    <3>4. a >= b
      <4> HIDE DEF a, b
      <4> QED
        BY <3>2, <3>3
    <3> QED
      BY <1>8, <3>4
  <2> QED
    BY <2>4, <2>5
<1>16. PICK tgt \in DOMAIN created :
          /\ t.ids = {tgt} /\ tgt \notin D
          /\ \A x, y \in DOMAIN came :
               Steady(x, t.t0, came, went) /\ Steady(y, t.t0, came, went) /\ Alike(x, y, tgt)
               => Reported(t.best, Likeness[x.text][y.text])
  BY <1>1, <1>5, <1>13 DEF Closest, t
<1>17. ASSUME NEW sim \in Nat, Reported(t.best, sim) PROVE Reported(top, sim)
  <2>1. PICK id \in D : t.best[id] >= sim
    BY <1>17 DEF Reported
  <2>2. PICK jd \in T : top[jd] >= t.best[id]
    BY <1>15
  <2>3. t.best[id] \in Nat /\ top[jd] \in Nat
    BY <1>4, <1>7, <1>8
  <2>4. top[jd] >= sim
    BY <2>1, <2>2, <2>3
  <2> QED
    BY <1>8, <2>4 DEF Reported
<1>18. Closest("reply", u, came, went, created)
  <2>1. ASSUME NEW x \in DOMAIN came, NEW y \in DOMAIN came, Steady(x, t.t0, came, went),
               Steady(y, t.t0, came, went), Alike(x, y, tgt)
        PROVE  Reported(top, Likeness[x.text][y.text])
    <3>1. x \in ObsRow /\ y \in ObsRow
      BY <1>5, <2>1, SteadyIs DEF Task
    <3>2. Likeness[x.text][y.text] \in Nat
      BY <3>1, LikenessIsAPercentage DEF ObsRow
    <3> QED
      BY <1>16, <1>17, <2>1, <3>2
  <2>2. tgt \notin DOMAIN top /\ u.left = {}
    BY <1>1, <1>4, <1>8, <1>11, <1>16 DEF t
  <2> QED
    BY <1>11, <1>16, <2>1, <2>2 DEF Closest
<1>19. Current("reply", u, now, came, went, created)
  BY <1>4, <1>5, <1>8, <1>11 DEF Current
<1>20. Fits("reply", u, now, came, went, created)
  BY <1>10, <1>11, <1>13, <1>14, <1>18, <1>19, ConflictFits
<1>21. "reply" \in Label /\ now - u.t0 <= MaxCallTicks
  BY <1>5, <1>11 DEF Label
<1> QED
  BY <1>3, <1>10, <1>20, <1>21, TaskMoves

-------------------------------------------------------------------------------
(* suggest_node_type.                                                          *)

\* What suggest_node_type keeps to between its steps.
LEMMA SuggestFits ==
    ASSUME NEW p \in {"centroids", "put", "reply"}, NEW t \in Task,
           t.q.op = "suggest_node_type", t.q \in Query, ~t.more,
           p = "centroids" => /\ t.ids = {} /\ t.obs = {} /\ t.rels = {} /\ t.left = {}
                              /\ DOMAIN t.best = {},
           Current(p, t, now, came, went, created)
    PROVE  Fits(p, t, now, came, went, created)
<1>1. Control(p, t)
  BY DEF Control
<1>2. Together(t, came, went) /\ Paging(p, t, came, went, created)
      /\ Complete(p, t, came, went, created) /\ Closest(p, t, came, went, created)
  BY DEF Together, Paging, Complete, Closest, ToolOp, GraphOp, ViewerOp
<1> QED
  BY <1>1, <1>2 DEF Fits

\* The task of a call that has come by some observations still fits.
LEMMA SuggestionFits ==
    ASSUME Inv, NEW r \in Reader, pc[r] \in {"cached", "centroids"},
           NEW p \in {"put", "reply"}, NEW obs, obs \subseteq DOMAIN came
    PROVE  LET u == [task[r] EXCEPT !.obs = obs]
           IN /\ u \in Task /\ Fits(p, u, now, came, went, created)
              /\ now - u.t0 <= MaxCallTicks
<1> DEFINE t == task[r]
           u == [t EXCEPT !.obs = obs]
<1>1. /\ t \in Task /\ Control(pc[r], t) /\ Current(pc[r], t, now, came, went, created)
      /\ now - t.t0 <= MaxCallTicks
  BY OfReader DEF Fits, Busy
<1>2. obs \subseteq Row
  BY DEF Inv, Tables
<1>3. u \in Task
  BY <1>1, <1>2 DEF Task
<1>4. /\ u.q = t.q /\ u.t0 = t.t0 /\ u.start = t.start /\ u.ids = t.ids /\ u.obs = obs
      /\ u.rels = t.rels /\ u.left = t.left /\ u.best = t.best /\ u.more = t.more
  BY <1>1 DEF Task
<1> HIDE DEF t, u
<1>5. t.q.op = "suggest_node_type" /\ t.q \in Query /\ ~t.more
  BY <1>1 DEF Control
<1>6. Current(p, u, now, came, went, created)
  BY <1>1, <1>4, <1>5 DEF Current, ToolOp, GraphOp, ViewerOp
<1>7. Fits(p, u, now, came, went, created)
  BY <1>3, <1>4, <1>5, <1>6, SuggestFits
<1> QED
  BY <1>1, <1>3, <1>4, <1>7 DEF t, u

LEMMA CacheGetKeeps ==
    ASSUME Inv, NEW r \in Reader, CacheGet(r)
    PROVE  Inv'
<1> DEFINE t == task[r]
           key == t.q.project
<1>1. pc[r] = "cached"
  BY DEF CacheGet
<1>2. \/ key \in DOMAIN cache /\ Goto(r, "reply", [t EXCEPT !.obs = cache[key].obs])
      \/ Goto(r, "centroids", t)
  BY DEF CacheGet
<1>3. CASE key \in DOMAIN cache /\ Goto(r, "reply", [t EXCEPT !.obs = cache[key].obs])
  <2> DEFINE obs == cache[key].obs
             u == [t EXCEPT !.obs = obs]
  <2>1. obs \subseteq DOMAIN came
    BY <1>3 DEF Inv, Stored
  <2>2. u \in Task /\ Fits("reply", u, now, came, went, created) /\ now - u.t0 <= MaxCallTicks
    <3> HIDE DEF obs
    <3> QED
      BY <1>1, <2>1, SuggestionFits
  <2>3. Goto(r, "reply", u) /\ "reply" \in Label
    BY <1>3 DEF Label
  <2> HIDE DEF u
  <2> QED
    BY <2>2, <2>3, TaskMoves
<1>4. CASE Goto(r, "centroids", t)
  <2>1. /\ t \in Task /\ Control("cached", t)
        /\ Current("cached", t, now, came, went, created) /\ now - t.t0 <= MaxCallTicks
    BY <1>1, OfReader DEF Fits, Busy
  <2> HIDE DEF t
  <2>2. /\ t.q.op = "suggest_node_type" /\ t.q \in Query /\ ~t.more
        /\ t.ids = {} /\ t.obs = {} /\ t.rels = {} /\ t.left = {} /\ DOMAIN t.best = {}
    BY <2>1 DEF Control
  <2>3. Current("centroids", t, now, came, went, created)
    BY <2>1 DEF Current
  <2>4. Fits("centroids", t, now, came, went, created)
    BY <2>1, <2>2, <2>3, SuggestFits
  <2>5. "centroids" \in Label
    BY DEF Label
  <2> QED
    BY <1>4, <2>1, <2>4, <2>5, TaskMoves
<1> QED
  BY <1>2, <1>3, <1>4

LEMMA CentroidsByTypeKeeps ==
    ASSUME Inv, NEW r \in Reader, CentroidsByType(r)
    PROVE  Inv'
<1> DEFINE obs == Searchable(task[r].q.project)
           u == [task[r] EXCEPT !.obs = obs]
<1>1. pc[r] = "centroids" /\ Goto(r, "put", u) /\ "put" \in Label
  BY DEF CentroidsByType, Label
<1>2. obs \subseteq DOMAIN came
  BY LiveRowsAre DEF Searchable, LiveObs
<1>3. u \in Task /\ Fits("put", u, now, came, went, created) /\ now - u.t0 <= MaxCallTicks
  <2> HIDE DEF obs
  <2> QED
    BY <1>1, <1>2, SuggestionFits
<1> HIDE DEF u
<1> QED
  BY <1>1, <1>3, TaskMoves

LEMMA CachePutKeeps ==
    ASSUME Inv, NEW r \in Reader, CachePut(r)
    PROVE  Inv'
<1> DEFINE t == task[r]
           key == t.q.project
           c == [k \in DOMAIN cache \cup {key} |->
                   IF k = key THEN [obs |-> t.obs, at |-> now] ELSE cache[k]]
<1>1. /\ pc[r] = "put" /\ pc' = [pc EXCEPT ![r] = "reply"] /\ task' = task
      /\ cache' = c /\ UNCHANGED <<now, tables>>
  BY DEF CachePut
<1>2. /\ t \in Task /\ Control("put", t) /\ Current("put", t, now, came, went, created)
      /\ now - t.t0 <= MaxCallTicks /\ now \in Nat
  BY <1>1, OfReader DEF Fits, Busy
<1>3. task' = [task EXCEPT ![r] = t]
  BY <1>1 DEF Inv
<1> HIDE DEF t
<1>4. t.q.op = "suggest_node_type" /\ t.q \in Query /\ ~t.more
  BY <1>2 DEF Control
<1>5. Current("reply", t, now, came, went, created)
  BY <1>2 DEF Current
<1>6. Fits("reply", t, now, came, went, created)
  BY <1>2, <1>4, <1>5, SuggestFits
<1>7. Stored(c, now, came)
  <2>1. Stored(cache, now, came)
    BY DEF Inv
  <2>2. key \in Project \cup {None} /\ t.obs \subseteq DOMAIN came
    BY <1>2, <1>4, QueriesAreAsked DEF Current
  <2> HIDE DEF key
  <2> QED
    BY <1>2, <2>1, <2>2 DEF Stored
<1>8. "reply" \in Label
  BY DEF Label
<1> HIDE DEF c
<1> QED
  BY <1>1, <1>2, <1>3, <1>6, <1>7, <1>8, StepKeeps

LEMMA RestartKeeps ==
    ASSUME Inv, Restart
    PROVE  Inv'
<1>1. /\ now' = now /\ came' = came /\ went' = went /\ created' = created
      /\ pc' = pc /\ task' = task /\ cache' = <<>>
  BY DEF Restart, tables
<1>2. Stored(<<>>, now, came)
  BY DEF Stored
<1> QED
  BY <1>1, <1>2 DEF Inv, Busy

-------------------------------------------------------------------------------
(* Every state.                                                                *)

LEMMA InvGoesOn == Inv /\ [Next]_vars => Inv'
<1> SUFFICES ASSUME Inv, [Next]_vars PROVE Inv'
  OBVIOUS
<1>1. ASSUME NEW r \in Reader, ReadStep(r) PROVE Inv'
  <2>1. CASE \E q \in Query : Receive(r, q)
    BY <2>1, ReceiveKeeps
  <2>2. CASE NextPage(r)
    BY <2>2, NextPageKeeps
  <2>3. CASE \/ ReadGraph(r) \/ OpenNodes(r) \/ SearchNodes(r) \/ TimelinePage(r)
             \/ ViewerSearch(r)
    BY <2>3, ListStatementsKeep
  <2>4. CASE SelectObservations(r)
    BY <2>4, SelectObservationsKeeps
  <2>5. CASE SelectRelations(r)
    BY <2>5, SelectRelationsKeeps
  <2>6. CASE SelectCounts(r)
    BY <2>6, SelectCountsKeeps
  <2>7. CASE SelectByType(r)
    BY <2>7, SelectByTypeKeeps
  <2>8. CASE GetSession(r)
    BY <2>8, GetSessionKeeps
  <2>9. CASE Audit(r)
    BY <2>9, AuditKeeps
  <2>10. CASE FindTarget(r)
    BY <2>10, FindTargetKeeps
  <2>11. CASE FetchTargetEmbeddings(r)
    BY <2>11, FetchTargetEmbeddingsKeeps
  <2>12. CASE QueryAndAggregate(r)
    BY <2>12, QueryAndAggregateKeeps
  <2>13. CASE SortAndTruncate(r)
    BY <2>13, SortAndTruncateKeeps
  <2>14. CASE Return(r)
    BY <2>14, ReturnKeeps
  <2>15. CASE Fail(r)
    BY <2>15, StopKeeps DEF Fail
  <2>16. CASE CacheGet(r)
    BY <2>16, CacheGetKeeps
  <2>17. CASE CentroidsByType(r)
    BY <2>17, CentroidsByTypeKeeps
  <2>18. CASE CachePut(r)
    BY <2>18, CachePutKeeps
  <2> QED
    BY <1>1, <2>1, <2>2, <2>3, <2>4, <2>5, <2>6, <2>7, <2>8, <2>9, <2>10, <2>11, <2>12,
       <2>13, <2>14, <2>15, <2>16, <2>17, <2>18 DEF ReadStep
<1>2. CASE AnyWrite
  BY <1>2, WriteKeeps
<1>3. CASE Tick
  BY <1>3, TickKeeps
<1>4. CASE UNCHANGED vars
  <2>1. /\ now' = now /\ came' = came /\ went' = went /\ created' = created
        /\ pc' = pc /\ task' = task /\ cache' = cache
    BY <1>4 DEF vars
  <2> QED
    BY <2>1 DEF Inv, Busy
<1>5. CASE Restart
  BY <1>5, RestartKeeps
<1> QED
  BY <1>1, <1>2, <1>3, <1>4, <1>5 DEF Next

LEMMA InvHolds == Spec => []Inv
BY InvStarts, InvGoesOn, PTL DEF Spec

-------------------------------------------------------------------------------
(* How old a suggestion may be.                                                *)

\* What the tables held at time m, which stays what it was.
Alive(x, m, C, W) == x \in DOMAIN C /\ C[x] <= m /\ (x \in DOMAIN W => W[x] > m)

NodeAlive(id, m, C, W) == \E x \in DOMAIN C : IsNode(x, id) /\ Alive(x, m, C, W)

Held(p, m, C, W) ==
    {o \in DOMAIN C : /\ o.tab = "observations" /\ o.text \in Embedded
                      /\ Alive(o, m, C, W) /\ NodeAlive(o.node, m, C, W)
                      /\ InScope(o.node, p)}

\* A call that has read the tables did so since it came in; an answer, which may
\* come from the cache, is older by no more than it may.
Suggested(p, t, n, C, W) ==
    t.q.op = "suggest_node_type" =>
      /\ p = "put" =>
           \E m \in 0..n : t.t0 <= m /\ t.obs = Held(t.q.project, m, C, W)
      /\ p = "reply" =>
           \E m \in 0..n : /\ t.t0 <= m + CentroidTTL + MaxCallTicks
                           /\ t.obs = Held(t.q.project, m, C, W)

\* An entry was read before it was stored by no more than a call may last.
Recent(c, n, C, W) ==
    \A k \in DOMAIN c :
       \E m \in 0..n : c[k].at <= m + MaxCallTicks /\ c[k].obs = Held(k, m, C, W)

Sug ==
    /\ \A r \in Reader : Suggested(pc[r], task[r], now, came, went)
    /\ Recent(cache, now, came, went)

LEMMA AliveStays ==
    ASSUME NEW n, NEW C, NEW W, NEW K, NEW C2, NEW W2, NEW K2, Tables(n, C, W, K),
           Grown(n, C, W, K, C2, W2, K2), NEW x, NEW m \in 0..n
    PROVE  Alive(x, m, C2, W2) <=> Alive(x, m, C, W)
<1>1. n \in Nat /\ m < n + 1 /\ ~(n + 1 <= m)
  BY DEF Tables
<1>2. ASSUME Alive(x, m, C, W) PROVE Alive(x, m, C2, W2)
  <2>1. x \in DOMAIN C2 /\ C2[x] <= m
    BY <1>2 DEF Alive, Grown
  <2>2. x \in DOMAIN W2 => W2[x] > m
    BY <1>1, <1>2 DEF Alive, Grown
  <2> QED
    BY <2>1, <2>2 DEF Alive
<1>3. ASSUME Alive(x, m, C2, W2) PROVE Alive(x, m, C, W)
  <2>1. x \in DOMAIN C /\ C[x] <= m
    BY <1>1, <1>3 DEF Alive, Grown
  <2>2. x \in DOMAIN W => W[x] > m
    BY <1>3 DEF Alive, Grown
  <2> QED
    BY <2>1, <2>2 DEF Alive
<1> QED
  BY <1>2, <1>3

LEMMA HeldStays ==
    ASSUME NEW n, NEW C, NEW W, NEW K, NEW C2, NEW W2, NEW K2, Tables(n, C, W, K),
           Grown(n, C, W, K, C2, W2, K2), NEW p, NEW m \in 0..n
    PROVE  Held(p, m, C2, W2) = Held(p, m, C, W)
<1>1. \A x : Alive(x, m, C2, W2) <=> Alive(x, m, C, W)
  BY AliveStays
<1>2. \A id : NodeAlive(id, m, C2, W2) <=> NodeAlive(id, m, C, W)
  BY <1>1 DEF NodeAlive, Alive
<1> QED
  BY <1>1, <1>2 DEF Held, Alive

LEMMA SugStays ==
    ASSUME NEW n, NEW C, NEW W, NEW K, NEW C2, NEW W2, NEW K2, Tables(n, C, W, K),
           Grown(n, C, W, K, C2, W2, K2)
    PROVE  /\ \A p, t : Suggested(p, t, n, C, W) => Suggested(p, t, n + 1, C2, W2)
           /\ \A c : Recent(c, n, C, W) => Recent(c, n + 1, C2, W2)
<1>1. \A m \in 0..n : m \in 0..(n + 1)
  BY DEF Tables
<1>2. \A p : \A m \in 0..n : Held(p, m, C2, W2) = Held(p, m, C, W)
  BY HeldStays
<1>3. ASSUME NEW p, NEW t, Suggested(p, t, n, C, W)
      PROVE  Suggested(p, t, n + 1, C2, W2)
  BY <1>1, <1>2, <1>3 DEF Suggested
<1>4. ASSUME NEW c, Recent(c, n, C, W)
      PROVE  Recent(c, n + 1, C2, W2)
  BY <1>1, <1>2, <1>4 DEF Recent
<1> QED
  BY <1>3, <1>4

\* What the tables hold now is what is searchable.
LEMMA HeldNow ==
    ASSUME Inv, NEW p
    PROVE  Searchable(p) = Held(p, now, came, went)
<1>1. \A x : x \in Live <=> Alive(x, now, came, went)
  <2>1. /\ \A x \in DOMAIN came : came[x] <= now
        /\ \A x \in DOMAIN went : went[x] <= now /\ went[x] \in Nat
        /\ now \in Nat
    BY DEF Inv, Tables
  <2> QED
    BY <2>1 DEF Alive, Live, rows, dead
<1>2. \A id : id \in LiveNodes <=> NodeAlive(id, now, came, went)
  BY <1>1 DEF LiveNodes, NodeAlive, Alive, IsNode
<1> QED
  BY <1>1, <1>2 DEF Searchable, LiveObs, Held, Alive

\* A step of a reader that is not one of suggest_node_type's own.
LEMMA SugMoves ==
    ASSUME Inv, Sug, NEW r \in Reader, NEW p, NEW t, Goto(r, p, t),
           Suggested(p, t, now, came, went)
    PROVE  Sug'
<1>1. /\ pc' = [pc EXCEPT ![r] = p] /\ task' = [task EXCEPT ![r] = t]
      /\ now' = now /\ came' = came /\ went' = went /\ cache' = cache
  BY DEF Goto, tables
<1>2. pc \in [Reader -> Label] /\ task \in [Reader -> Task]
  BY DEF Inv
<1>3. \A q \in Reader : Suggested(pc'[q], task'[q], now, came, went)
  BY <1>1, <1>2 DEF Sug
<1>4. Recent(cache, now, came, went)
  BY DEF Sug
<1> QED
  BY <1>1, <1>3, <1>4 DEF Sug

LEMMA OtherStepsKeepSug ==
    ASSUME Inv, Sug, NEW r \in Reader, ReadStep(r),
           ~CacheGet(r), ~CentroidsByType(r), ~CachePut(r)
    PROVE  Sug'
<1>1. ASSUME NEW p, NEW t, Goto(r, p, t), p \notin {"put", "reply"}
      PROVE  Sug'
  <2>1. Suggested(p, t, now, came, went)
    BY <1>1 DEF Suggested
  <2> QED
    BY <1>1, <2>1, SugMoves
<1>2. ASSUME NEW p, NEW t, Goto(r, p, t), t.q.op # "suggest_node_type"
      PROVE  Sug'
  <2>1. Suggested(p, t, now, came, went)
    BY <1>2 DEF Suggested
  <2> QED
    BY <1>2, <2>1, SugMoves
<1>3. /\ task[r] \in Task /\ Control(pc[r], task[r])
  BY OfReader DEF Fits
<1>4. CASE \E q \in Query : Receive(r, q)
  BY <1>1, <1>4 DEF Receive, FirstStep
<1>5. CASE NextPage(r) \/ GetSession(r) \/ Return(r) \/ Fail(r)
  BY <1>1, <1>5 DEF NextPage, GetSession, Return, Fail
<1>6. CASE FindTarget(r) \/ SelectObservations(r)
  BY <1>1, <1>6 DEF FindTarget, SelectObservations
<1>7. ASSUME NEW ids, NEW more, Listed(r, ids, more), task[r].q.op # "suggest_node_type"
      PROVE  Sug'
  <2> DEFINE u == [task[r] EXCEPT !.ids = ids, !.more = more]
  <2>1. u.q = task[r].q
    BY <1>3 DEF Task
  <2>2. Goto(r, IF ids = {} THEN "reply" ELSE "observations", u)
    BY <1>7 DEF Listed
  <2> HIDE DEF u
  <2> QED
    BY <1>2, <1>7, <2>1, <2>2
<1>8. CASE ReadGraph(r) \/ OpenNodes(r) \/ SearchNodes(r) \/ ViewerSearch(r)
  BY <1>7, <1>8 DEF ReadGraph, OpenNodes, SearchNodes, ViewerSearch, Asks
<1>9. CASE TimelinePage(r)
  <2>1. PICK ids, more : Listed(r, ids, more)
    BY <1>9 DEF TimelinePage
  <2>2. task[r].q.op = "timeline"
    BY <1>9 DEF TimelinePage, Asks
  <2> QED
    BY <1>7, <2>1, <2>2
<1>10. CASE SelectCounts(r)
  BY <1>1, <1>10 DEF SelectCounts
<1>11. CASE SelectByType(r)
  BY <1>2, <1>3, <1>11 DEF SelectByType, Control
<1>12. CASE SelectRelations(r)
  <2>1. PICK rels : Goto(r, "reply", [task[r] EXCEPT !.rels = rels])
    BY <1>12 DEF SelectRelations
  <2>2. [task[r] EXCEPT !.rels = rels].q = task[r].q
    BY <1>3 DEF Task
  <2>3. task[r].q.op # "suggest_node_type"
    BY <1>3, <1>12 DEF SelectRelations, Control, ToolOp, GraphOp, ViewerOp
  <2> QED
    BY <1>2, <2>1, <2>2, <2>3
<1>13. CASE Audit(r)
  <2>1. PICK ids, obs : Goto(r, "reply", [task[r] EXCEPT !.ids = ids, !.obs = obs])
    BY <1>13 DEF Audit
  <2>2. [task[r] EXCEPT !.ids = ids, !.obs = obs].q = task[r].q
    BY <1>3 DEF Task
  <2>3. task[r].q.op # "suggest_node_type"
    BY <1>3, <1>13 DEF Audit, Control
  <2> QED
    BY <1>2, <2>1, <2>2, <2>3
<1>14. CASE FetchTargetEmbeddings(r)
  <2>1. task[r].q.op # "suggest_node_type"
    BY <1>3, <1>14 DEF FetchTargetEmbeddings, Control
  <2>2. \/ Goto(r, "reply", task[r])
        \/ \E t : Goto(r, "similar", t)
    BY <1>14 DEF FetchTargetEmbeddings
  <2> QED
    BY <1>1, <1>2, <2>1, <2>2
<1>15. CASE QueryAndAggregate(r)
  BY <1>1, <1>15 DEF QueryAndAggregate
<1>16. CASE SortAndTruncate(r)
  <2>1. PICK best : Goto(r, "reply", [task[r] EXCEPT !.best = best])
    BY <1>16 DEF SortAndTruncate
  <2>2. [task[r] EXCEPT !.best = best].q = task[r].q
    BY <1>3 DEF Task
  <2>3. task[r].q.op # "suggest_node_type"
    BY <1>3, <1>16 DEF SortAndTruncate, Control
  <2> QED
    BY <1>2, <2>1, <2>2, <2>3
<1> QED
  BY <1>4, <1>5, <1>6, <1>8, <1>9, <1>10, <1>11, <1>12, <1>13, <1>14, <1>15, <1>16
  DEF ReadStep

LEMMA CacheGetKeepsSug ==
    ASSUME Inv, Sug, NEW r \in Reader, CacheGet(r)
    PROVE  Sug'
<1> DEFINE t == task[r]
           key == t.q.project
<1>1. \/ /\ key \in DOMAIN cache /\ now - cache[key].at <= CentroidTTL
         /\ Goto(r, "reply", [t EXCEPT !.obs = cache[key].obs])
      \/ Goto(r, "centroids", t)
  BY DEF CacheGet
<1>2. CASE Goto(r, "centroids", t)
  <2>1. Suggested("centroids", t, now, came, went)
    BY DEF Suggested
  <2> QED
    BY <1>2, <2>1, SugMoves
<1>3. CASE /\ key \in DOMAIN cache /\ now - cache[key].at <= CentroidTTL
           /\ Goto(r, "reply", [t EXCEPT !.obs = cache[key].obs])
  <2> DEFINE e == cache[key]
             u == [t EXCEPT !.obs = e.obs]
  <2>1. t \in Task /\ Current(pc[r], t, now, came, went, created) /\ now \in Nat
    BY OfReader DEF Fits
  <2>2. u.q = t.q /\ u.t0 = t.t0 /\ u.obs = e.obs
    BY <2>1 DEF Task
  <2>3. PICK m \in 0..now : e.at <= m + MaxCallTicks /\ e.obs = Held(key, m, came, went)
    BY <1>3 DEF Sug, Recent
  <2>4. e.at \in Nat /\ now - e.at <= CentroidTTL
    BY <1>3 DEF Inv, Stored
  <2>5. t.t0 \in Nat /\ t.t0 <= now /\ CentroidTTL \in Nat /\ MaxCallTicks \in Nat
    BY <2>1, LimitsAreNumbers DEF Task, Current
  <2>6. Goto(r, "reply", u)
    BY <1>3
  <2>7. key = u.q.project
    BY <2>2
  <2> HIDE DEF e, u, key, t
  <2>8. u.t0 <= m + CentroidTTL + MaxCallTicks
    BY <2>1, <2>2, <2>3, <2>4, <2>5
  <2>9. Suggested("reply", u, now, came, went)
    BY <2>2, <2>3, <2>7, <2>8 DEF Suggested
  <2> QED
    BY <2>6, <2>9, SugMoves
<1> QED
  BY <1>1, <1>2, <1>3

LEMMA CentroidsByTypeKeepsSug ==
    ASSUME Inv, Sug, NEW r \in Reader, CentroidsByType(r)
    PROVE  Sug'
<1> DEFINE t == task[r]
           obs == Searchable(t.q.project)
           u == [t EXCEPT !.obs = obs]
<1>1. Goto(r, "put", u)
  BY DEF CentroidsByType
<1>2. t \in Task /\ Current(pc[r], t, now, came, went, created) /\ now \in Nat
  BY OfReader DEF Fits
<1>3. u.q = t.q /\ u.t0 = t.t0 /\ u.obs = obs /\ t.t0 <= now
  BY <1>2 DEF Task, Current
<1>4. obs = Held(t.q.project, now, came, went)
  BY HeldNow
<1> HIDE DEF t, u, obs
<1>5. Suggested("put", u, now, came, went)
  BY <1>2, <1>3, <1>4 DEF Suggested
<1> QED
  BY <1>1, <1>5, SugMoves

LEMMA CachePutKeepsSug ==
    ASSUME Inv, Sug, NEW r \in Reader, CachePut(r)
    PROVE  Sug'
<1> DEFINE t == task[r]
           key == t.q.project
           c == [k \in DOMAIN cache \cup {key} |->
                   IF k = key THEN [obs |-> t.obs, at |-> now] ELSE cache[k]]
<1>1. /\ pc[r] = "put" /\ pc' = [pc EXCEPT ![r] = "reply"] /\ task' = task
      /\ cache' = c /\ now' = now /\ came' = came /\ went' = went
  BY DEF CachePut, tables
<1>2. /\ t \in Task /\ Control("put", t) /\ now - t.t0 <= MaxCallTicks /\ now \in Nat
  BY <1>1, OfReader DEF Fits, Busy
<1>3. Suggested("put", t, now, came, went)
  BY <1>1 DEF Sug
<1> HIDE DEF t
<1>4. t.q.op = "suggest_node_type" /\ t.t0 \in Nat
  BY <1>2 DEF Control, Task
<1>5. PICK m \in 0..now : t.t0 <= m /\ t.obs = Held(key, m, came, went)
  BY <1>3, <1>4 DEF Suggested
<1> HIDE DEF key
<1>6. CentroidTTL \in Nat /\ MaxCallTicks \in Nat
  BY LimitsAreNumbers
<1>7. now <= m + MaxCallTicks /\ t.t0 <= m + CentroidTTL + MaxCallTicks
  BY <1>2, <1>4, <1>5, <1>6
<1>8. Suggested("reply", t, now, came, went)
  BY <1>5, <1>7 DEF Suggested, key
<1>9. Recent(c, now, came, went)
  <2>1. Recent(cache, now, came, went)
    BY DEF Sug
  <2> QED
    BY <1>5, <1>7, <2>1 DEF Recent
<1>10. \A q \in Reader : Suggested(pc'[q], task'[q], now, came, went)
  BY <1>1, <1>8 DEF Sug, Inv, t
<1> HIDE DEF c
<1> QED
  BY <1>1, <1>9, <1>10 DEF Sug

LEMMA SugGoesOn == Inv /\ Sug /\ [Next]_vars => Sug'
<1> SUFFICES ASSUME Inv, Sug, [Next]_vars PROVE Sug'
  OBVIOUS
<1>1. ASSUME NEW r \in Reader, ReadStep(r) PROVE Sug'
  BY <1>1, OtherStepsKeepSug, CacheGetKeepsSug, CentroidsByTypeKeepsSug, CachePutKeepsSug
<1>2. ASSUME now' = now + 1, UNCHANGED <<pc, task, cache>>,
             Grown(now, came, went, created, came', went', created')
      PROVE  Sug'
  <2>1. Tables(now, came, went, created)
    BY DEF Inv
  <2>2. /\ \A p, t : Suggested(p, t, now, came, went)
                       => Suggested(p, t, now + 1, came', went')
        /\ \A c : Recent(c, now, came, went) => Recent(c, now + 1, came', went')
    BY <1>2, <2>1, SugStays
  <2> QED
    BY <1>2, <2>2 DEF Sug
<1>3. CASE AnyWrite
  <2>1. PICK w \in Change, begun \in 0..now + 1 : Write(w, begun)
    BY <1>3 DEF AnyWrite
  <2>2. Grown(now, came, went, created, came', went', created')
    BY <2>1, WriteGrows
  <2>3. now' = now + 1 /\ UNCHANGED <<pc, task, cache>>
    BY <2>1 DEF Write
  <2> QED
    BY <1>2, <2>2, <2>3
<1>4. CASE Tick
  <2>1. now' = now + 1 /\ UNCHANGED <<pc, task, cache, came, went, created>>
    BY <1>4 DEF Tick, tables
  <2>2. Grown(now, came, went, created, came, went, created)
    BY DEF Inv, Grown, Tables
  <2>3. Grown(now, came, went, created, came', went', created')
    BY <2>1, <2>2
  <2> QED
    BY <1>2, <2>1, <2>3
<1>5. CASE Restart
  <2>1. /\ now' = now /\ came' = came /\ went' = went /\ pc' = pc /\ task' = task
        /\ cache' = <<>>
    BY <1>5 DEF Restart, tables
  <2>2. Recent(<<>>, now, came, went)
    BY DEF Recent
  <2> QED
    BY <2>1, <2>2 DEF Sug
<1>6. CASE UNCHANGED vars
  <2>1. /\ now' = now /\ came' = came /\ went' = went /\ pc' = pc /\ task' = task
        /\ cache' = cache
    BY <1>6 DEF vars
  <2> QED
    BY <2>1 DEF Sug
<1> QED
  BY <1>1, <1>3, <1>4, <1>5, <1>6 DEF Next

LEMMA SugHolds == Spec => [](Inv /\ Sug)
<1>1. Init => Sug
  <2> SUFFICES ASSUME Init PROVE Sug
    OBVIOUS
  <2>1. \A r \in Reader : pc[r] = "idle"
    BY DEF Init
  <2>2. Recent(cache, now, came, went)
    BY DEF Init, Recent
  <2> QED
    BY <2>1, <2>2 DEF Sug, Suggested
<1> QED
  BY <1>1, InvStarts, InvGoesOn, SugGoesOn, PTL DEF Spec

-------------------------------------------------------------------------------
(* What the properties say of times and nodes.                                 *)

LEMMA TheNodeRow ==
    ASSUME Inv, NEW id \in DOMAIN created
    PROVE  /\ NodeRowOf(id) \in rows /\ IsNode(NodeRowOf(id), id)
           /\ \A x \in rows : IsNode(x, id) => x = NodeRowOf(id)
<1>1. Tables(now, came, went, created)
  BY DEF Inv
<1>2. \E x \in rows : x.tab = "nodes" /\ IdOf(x) = id
  BY <1>1, NodeOfId DEF Tables, rows, IsNode
<1>3. NodeRowOf(id) \in rows /\ NodeRowOf(id).tab = "nodes" /\ IdOf(NodeRowOf(id)) = id
  BY <1>2 DEF NodeRowOf
<1> QED
  BY <1>1, <1>3, OneRowPerNode DEF rows, IsNode

LEMMA NodeTimesAre ==
    ASSUME Inv, NEW id \in DOMAIN created, NEW t
    PROVE  /\ NodeWas(id, t, came, went) => WasLive(NodeRowOf(id), t)
           /\ LiveSince(NodeRowOf(id), t) => NodeSince(id, t, came, went)
<1>1. ASSUME NodeWas(id, t, came, went) PROVE WasLive(NodeRowOf(id), t)
  <2>1. PICK x \in rows : IsNode(x, id) /\ Was(x, t, came, went)
    BY <1>1 DEF NodeWas, rows
  <2>2. x = NodeRowOf(id)
    BY <2>1, TheNodeRow
  <2> QED
    BY <2>1, <2>2 DEF Was, WasLive, rows, dead
<1>2. ASSUME LiveSince(NodeRowOf(id), t) PROVE NodeSince(id, t, came, went)
  <2>1. NodeRowOf(id) \in rows /\ IsNode(NodeRowOf(id), id)
    BY TheNodeRow
  <2>2. Since(NodeRowOf(id), t, came, went)
    BY <1>2 DEF LiveSince, Since, Live, rows, dead
  <2> QED
    BY <2>1, <2>2 DEF NodeSince, rows
<1> QED
  BY <1>1, <1>2

LEMMA WasIsKnown ==
    ASSUME Inv, NEW id, NEW t, NodeWas(id, t, came, went)
    PROVE  id \in DOMAIN created /\ WasLive(NodeRowOf(id), t)
<1>1. id \in DOMAIN created
  <2>1. PICK x \in DOMAIN came : IsNode(x, id)
    BY DEF NodeWas
  <2> QED
    BY <2>1, IdOfNode DEF Inv, Tables
<1> QED
  BY <1>1, NodeTimesAre

LEMMA RowTimesAre ==
    ASSUME NEW x, NEW t
    PROVE  /\ Was(x, t, came, went) => WasLive(x, t)
           /\ LiveSince(x, t) => Since(x, t, came, went)
BY DEF Was, WasLive, Since, LiveSince, Live, rows, dead

LEMMA InvTyped == Inv => TypeOK
<1> SUFFICES ASSUME Inv PROVE TypeOK
  OBVIOUS
<1>1. Tables(now, came, went, created) /\ now \in 1..MaxTime /\ pc \in [Reader -> Label]
  BY DEF Inv
<1>2. /\ rows \subseteq Row /\ dead \subseteq rows
      /\ \A x \in rows : came[x] <= now
      /\ \A x \in dead : came[x] < went[x] /\ went[x] <= now
  BY <1>1 DEF Tables, rows, dead
<1>3. DOMAIN created = {IdOf(x) : x \in {y \in rows : y.tab = "nodes"}}
  BY <1>1 DEF Tables, rows, IdsOf
<1>4. ASSUME NEW r \in Reader
      PROVE  /\ task[r].ids \subseteq DOMAIN created
             /\ task[r].obs \cup task[r].rels \cup task[r].left \subseteq rows
             /\ Busy(r) => now - task[r].t0 <= MaxCallTicks
  <2>1. Current(pc[r], task[r], now, came, went, created)
    BY OfReader DEF Fits
  <2> QED
    BY <2>1, OfReader DEF Current, rows
<1>5. /\ DOMAIN cache \subseteq Project \cup {None}
      /\ \A p \in DOMAIN cache : cache[p].obs \subseteq rows /\ cache[p].at <= now
  BY DEF Inv, Stored, rows
<1> QED
  BY <1>1, <1>2, <1>3, <1>4, <1>5 DEF TypeOK

LEMMA InvCurrent == Inv => AnswersAreOfTheirTime
<1> SUFFICES ASSUME Inv, NEW r \in Reader
             PROVE  LET t == task[r]
                    IN /\ Answers(r, GraphOp \cup ViewerOp \cup {"stats"}) =>
                            /\ \A id \in t.ids : WasLive(NodeRowOf(id), t.t0)
                            /\ \A x \in t.obs \cup t.rels : WasLive(x, t.t0)
                       /\ Answers(r, {"find_conflicts"}) =>
                            \A id \in DOMAIN t.best : WasLive(NodeRowOf(id), t.t0)
  BY DEF AnswersAreOfTheirTime
<1> DEFINE t == task[r]
<1>1. Current(pc[r], t, now, came, went, created)
  BY OfReader DEF Fits
<1>2. ASSUME Answers(r, GraphOp \cup ViewerOp \cup {"stats"})
      PROVE  /\ \A id \in t.ids : WasLive(NodeRowOf(id), t.t0)
             /\ \A x \in t.obs \cup t.rels : WasLive(x, t.t0)
  BY <1>1, <1>2, WasIsKnown, RowTimesAre DEF Answers, Current, ToolOp
<1>3. ASSUME Answers(r, {"find_conflicts"})
      PROVE  \A id \in DOMAIN t.best : WasLive(NodeRowOf(id), t.t0)
  BY <1>1, <1>3, WasIsKnown DEF Answers, Current
<1> QED
  BY <1>2, <1>3

LEMMA InvTogether == Inv => AnswersHangTogether
<1> SUFFICES ASSUME Inv, NEW r \in Reader, Answers(r, GraphOp \cup ViewerOp)
             PROVE  LET t == task[r]
                    IN /\ \A o \in t.obs : o.node \in t.ids
                       /\ \A l \in t.rels :
                             /\ WasLive(NodeRowOf(l.from), t.t0)
                             /\ WasLive(NodeRowOf(l.to), t.t0)
                             /\ t.q.op \in GraphOp => {l.from, l.to} \subseteq t.ids
                       /\ \A l \in t.rels : \E id \in t.ids : l \in RelationsForNode(t, id)
  BY DEF AnswersHangTogether
<1> DEFINE t == task[r]
<1>1. Together(t, came, went) /\ t.q.op \in ToolOp
  BY OfReader DEF Fits, Answers, ToolOp
<1>2. \A o \in t.obs : o.node \in t.ids
  BY <1>1 DEF Together
<1>3. ASSUME NEW l \in t.rels
      PROVE  /\ NodeWas(l.from, t.t0, came, went) /\ NodeWas(l.to, t.t0, came, went)
             /\ t.q.op \in GraphOp => {l.from, l.to} \subseteq t.ids
             /\ l.from \in t.ids \/ l.to \in t.ids
  BY <1>1 DEF Together
<1>4. ASSUME NEW l \in t.rels
      PROVE  /\ WasLive(NodeRowOf(l.from), t.t0) /\ WasLive(NodeRowOf(l.to), t.t0)
             /\ t.q.op \in GraphOp => {l.from, l.to} \subseteq t.ids
  BY <1>3, WasIsKnown
<1>5. ASSUME NEW l \in t.rels PROVE \E id \in t.ids : l \in RelationsForNode(t, id)
  BY <1>3 DEF RelationsForNode
<1> QED
  BY <1>2, <1>4, <1>5

LEMMA InvComplete == Inv => AnswersOmitNothing
<1> SUFFICES ASSUME Inv, NEW r \in Reader
    PROVE  LET t == task[r]
               wanted(id) == /\ LiveSince(NodeRowOf(id), t.t0)
                             /\ InScope(id, t.q.project)
                             /\ t.q.op = "open_nodes" => id.name \in t.q.names
           IN /\ Answers(r, {"read_graph", "open_nodes", "stats"}) =>
                   {id \in DOMAIN created : wanted(id)} \subseteq t.ids
              /\ Answers(r, GraphOp \cup ViewerOp) =>
                   \A x \in rows : LiveSince(x, t.t0) =>
                      /\ x.tab = "observations" /\ x.node \in t.ids => x \in t.obs
                      /\ x.tab = "relations"
                         /\ {x.from, x.to} \subseteq t.ids \cap LiveNodes => x \in t.rels
              /\ Answers(r, {"session_summary"}) =>
                   \A x \in rows :
                      x.tab = "nodes" /\ x.session = t.q.session /\ came[x] <= t.t0
                      => IdOf(x) \in t.ids
  BY DEF AnswersOmitNothing
<1> DEFINE t == task[r]
<1>1. Complete(pc[r], t, came, went, created)
  BY OfReader DEF Fits
<1>2. ASSUME Answers(r, {"read_graph", "open_nodes", "stats"}), NEW id \in DOMAIN created,
             LiveSince(NodeRowOf(id), t.t0), InScope(id, t.q.project),
             t.q.op = "open_nodes" => id.name \in t.q.names
      PROVE  id \in t.ids
  <2>1. NodeSince(id, t.t0, came, went)
    BY <1>2, NodeTimesAre
  <2> QED
    BY <1>1, <1>2, <2>1 DEF Complete, Answers
<1>3. ASSUME Answers(r, GraphOp \cup ViewerOp), NEW x \in rows, LiveSince(x, t.t0)
      PROVE  /\ x.tab = "observations" /\ x.node \in t.ids => x \in t.obs
             /\ x.tab = "relations"
                /\ {x.from, x.to} \subseteq t.ids \cap LiveNodes => x \in t.rels
  <2>1. Since(x, t.t0, came, went)
    BY <1>3, RowTimesAre
  <2>2. LiveNodes = LiveIds(came, went)
    BY LiveNodesAre
  <2>3. pc[r] = "reply" /\ t.q.op \in ToolOp
    BY <1>3 DEF Answers, ToolOp
  <2> QED
    BY <1>1, <2>1, <2>2, <2>3 DEF Complete, rows
<1>4. ASSUME Answers(r, {"session_summary"}), NEW x \in rows, x.tab = "nodes",
             x.session = t.q.session, came[x] <= t.t0
      PROVE  IdOf(x) \in t.ids
  BY <1>1, <1>4 DEF Complete, Answers, rows
<1> HIDE DEF t
<1>5. Answers(r, {"read_graph", "open_nodes", "stats"}) =>
        {id \in DOMAIN created :
           /\ LiveSince(NodeRowOf(id), t.t0) /\ InScope(id, t.q.project)
           /\ t.q.op = "open_nodes" => id.name \in t.q.names} \subseteq t.ids
  BY <1>2
<1> QED
  BY <1>3, <1>4, <1>5 DEF t

LEMMA InvPages == Inv => PagesMissNothing
<1> SUFFICES ASSUME Inv, NEW r \in Reader, Answers(r, {"timeline"}), ~task[r].more,
                    ~NodeWentSince(task[r].start), NEW id \in Missed(task[r])
             PROVE  FALSE
  BY DEF PagesMissNothing
<1> DEFINE t == task[r]
<1>1. /\ pc[r] = "reply" /\ t.q.op = "timeline" /\ t \in Task
      /\ Paging("reply", t, came, went, created)
      /\ Tables(now, came, went, created)
  BY OfReader DEF Fits, Answers
<1>2. /\ id \in DOMAIN created /\ LiveSince(NodeRowOf(id), t.start)
      /\ InScope(id, t.q.project) /\ InWindow(id, t.q) /\ id \notin t.shown \cup t.ids
  BY DEF Missed
<1>3. ~t.more /\ ~NodeWentSince(t.start)
  OBVIOUS
<1> HIDE DEF t
<1>4. Awaited(id, t, came, went, created)
  BY <1>2, NodeTimesAre DEF Awaited, InWindow, Window
<1>5. ASSUME NEW x \in DOMAIN went, x.tab = "nodes" PROVE went[x] <= t.start
  <2>1. went[x] \in Nat /\ t.start \in Nat
    BY <1>1 DEF Tables, Task
  <2>2. ~(went[x] > t.start)
    BY <1>3, <1>5 DEF NodeWentSince, dead
  <2> QED
    BY <2>1, <2>2
<1> QED
  BY <1>1, <1>2, <1>3, <1>4, <1>5 DEF Paging

LEMMA InvClosest == Inv => ClosestConflictIsReported
<1> SUFFICES ASSUME Inv, NEW r \in Reader, Answers(r, {"find_conflicts"}), task[r].ids # {}
    PROVE  LET t == task[r]
               there(o) == LiveSince(o, t.t0) /\ o.text \in Embedded
                           /\ LiveSince(NodeRowOf(o.node), t.t0)
               Everlasting == {o \in LiveObs : there(o)}
           IN /\ Target(t) \notin DOMAIN t.best
              /\ \A own, other \in Everlasting :
                    /\ own.node = Target(t)
                    /\ other.node # Target(t)
                    /\ other.node.project = Target(t).project
                    /\ Likeness[own.text][other.text] >= MinSim
                    => \E id \in DOMAIN t.best :
                          t.best[id] >= Likeness[own.text][other.text]
  BY DEF ClosestConflictIsReported
<1> DEFINE t == task[r]
           There(o) == /\ o \in LiveObs /\ LiveSince(o, t.t0) /\ o.text \in Embedded
                       /\ LiveSince(NodeRowOf(o.node), t.t0)
<1>1. Closest("reply", t, came, went, created) /\ t.q.op = "find_conflicts"
      /\ Tables(now, came, went, created)
  BY OfReader DEF Fits, Answers
<1>2. PICK tgt \in DOMAIN created :
         /\ t.ids = {tgt} /\ tgt \notin DOMAIN t.best /\ t.left = {}
         /\ \A own, x \in DOMAIN came :
              Steady(own, t.t0, came, went) /\ Steady(x, t.t0, came, went)
              /\ Alike(own, x, tgt)
              => own \in t.left \/ Reported(t.best, Likeness[own.text][x.text])
  BY <1>1 DEF Closest
<1>3. Target(t) = tgt
  BY <1>2 DEF Target
<1>4. ASSUME NEW o, There(o) PROVE o \in DOMAIN came /\ Steady(o, t.t0, came, went)
  <2>1. o \in DOMAIN came /\ o.tab = "observations" /\ o \in Row
    BY <1>4, LiveRowsAre DEF LiveObs
  <2>2. o.node \in DOMAIN created
    BY <1>1, <2>1 DEF Tables, NodesOf, Row, NodeRow, ObsRow, RelRow, SessRow
  <2>3. NodeSince(o.node, t.t0, came, went)
    BY <1>4, <2>2, NodeTimesAre
  <2>4. Since(o, t.t0, came, went)
    BY <1>4, RowTimesAre
  <2> QED
    BY <1>4, <2>1, <2>3, <2>4 DEF Steady
<1>5. ASSUME NEW own, NEW other, There(own), There(other), own.node = tgt, other.node # tgt,
             other.node.project = tgt.project, Likeness[own.text][other.text] >= MinSim
      PROVE  \E id \in DOMAIN t.best : t.best[id] >= Likeness[own.text][other.text]
  <2>1. Alike(own, other, tgt)
    BY <1>5 DEF Alike
  <2>2. Reported(t.best, Likeness[own.text][other.text])
    BY <1>2, <1>4, <1>5, <2>1
  <2> QED
    BY <2>2 DEF Reported
<1> HIDE DEF t
<1> QED
  BY <1>2, <1>3, <1>5 DEF t

LEMMA InvRecent == Inv /\ Sug => SuggestionsAreRecent
<1> SUFFICES ASSUME Inv, Sug, NEW r \in Reader, Answers(r, {"suggest_node_type"})
             PROVE  \E m \in 0..now :
                       /\ task[r].t0 <= m + CentroidTTL + MaxCallTicks
                       /\ task[r].obs = SearchableAt(task[r].q.project, m)
  BY DEF SuggestionsAreRecent
<1>1. PICK m \in 0..now : /\ task[r].t0 <= m + CentroidTTL + MaxCallTicks
                          /\ task[r].obs = Held(task[r].q.project, m, came, went)
  BY DEF Sug, Suggested, Answers
<1>2. \A x : LiveAt(x, m) <=> Alive(x, m, came, went)
  BY DEF LiveAt, Alive, rows, dead
<1>3. ASSUME NEW o \in rows, o.tab = "observations"
      PROVE  LiveAt(NodeRowOf(o.node), m) <=> NodeAlive(o.node, m, came, went)
  <2>1. o.node \in DOMAIN created
    BY <1>3 DEF Inv, Tables, rows, NodesOf
  <2>2. /\ NodeRowOf(o.node) \in rows /\ IsNode(NodeRowOf(o.node), o.node)
        /\ \A x \in rows : IsNode(x, o.node) => x = NodeRowOf(o.node)
    BY <2>1, TheNodeRow
  <2> QED
    BY <1>2, <2>2 DEF NodeAlive, rows
<1>4. SearchableAt(task[r].q.project, m) = Held(task[r].q.project, m, came, went)
  BY <1>2, <1>3 DEF SearchableAt, Held, rows
<1> QED
  BY <1>1, <1>4

-------------------------------------------------------------------------------
(* Results.                                                                    *)

\* The rows of the tables carry times in order, whatever writers commit between
\* the statements of a request, and a request works on rows and nodes that are
\* in the tables and lasts no longer than it may.
THEOREM ReadsAreTyped == Spec => []TypeOK
BY InvHolds, InvTyped, PTL

\* search_nodes, open_nodes, read_graph, timeline, stats, find_conflicts and the
\* viewer run their statements on the pool, without a transaction around them:
\* still, what they answer was live at some moment of the request.
THEOREM AnswersAreFresh == Spec => []AnswersAreOfTheirTime
BY InvHolds, InvCurrent, PTL

\* nodes, then observations, then relations: whatever is committed between the
\* three statements, an answer holds no observation of a node it does not show,
\* no relation that hangs off it, and the viewer finds a place for each relation.
THEOREM AnswersFitTogether == Spec => []AnswersHangTogether
BY InvHolds, InvTogether, PTL

\* What was there before the request and is still there when it is answered is
\* in the answer; session_summary also keeps what has been deleted.
THEOREM NothingIsLeftOut == Spec => []AnswersOmitNothing
BY InvHolds, InvComplete, PTL

\* A client that follows has_more and asks for offset + len(nodes) sees every
\* node of its window that was there when it began, however many nodes are added
\* meanwhile, for every limit and offset: new nodes only move the others back.
THEOREM PagingReachesAll == Spec => []PagesMissNothing
BY InvHolds, InvPages, PTL

\* Neither the cut of each query at top_k * 4 rows nor that of the result at
\* top_k loses the closest pair of observations that was there all along.
THEOREM ClosestSurvivesTheCuts == Spec => []ClosestConflictIsReported
BY InvHolds, InvClosest, PTL

\* However calls of suggest_node_type overlap and overwrite each other's entries,
\* and whenever the process restarts: what an answer rests on was in the tables
\* at one moment, no longer before the call than the TTL and one call's length.
THEOREM SuggestionsStayRecent == Spec => []SuggestionsAreRecent
BY SugHolds, InvRecent, PTL

===============================================================================
