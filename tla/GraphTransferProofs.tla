------------------------- MODULE GraphTransferProofs -------------------------
(***************************************************************************)
(* Theorems about GraphTransfer, for any databases, files, fixtures,       *)
(* commands and number of processes.                                       *)
(***************************************************************************)
EXTENDS GraphTransfer, TLAPS

-------------------------------------------------------------------------------
(* Rows and nodes. *)

LEMMA RowOfTable ==
    ASSUME NEW x \in Row
    PROVE  /\ x.tab = "nodes" => x \in NodeRow
           /\ x.tab = "observations" => x \in ObsRow
           /\ x.tab = "relations" => x \in RelRow
BY DEF Row, NodeRow, ObsRow, RelRow, SessRow

\* The key of a row tells what it is.
LEMMA KeyTells ==
    ASSUME NEW x \in Row
    PROVE  /\ \A p, n, s : Key(x) = Key(Node(p, n, s)) =>
                 x.tab = "nodes" /\ IdOf(x) = [project |-> p, name |-> n]
           /\ \A id, t : Key(x) = Key(Obs(id, t)) => x = Obs(id, t)
           /\ \A f, t, y, p : Key(x) = Key(Rel(f, t, y, p)) =>
                 x.tab = "relations" /\ x.from = f /\ x.to = t /\ x.type = y
<1>1. ASSUME NEW p, NEW n, NEW s, Key(x) = Key(Node(p, n, s))
      PROVE  x.tab = "nodes" /\ IdOf(x) = [project |-> p, name |-> n]
  BY <1>1 DEF Key, Node, IdOf, Row, NodeRow, ObsRow, RelRow, SessRow
<1>2. ASSUME NEW id, NEW t, Key(x) = Key(Obs(id, t))
      PROVE  x = Obs(id, t)
  <2>1. Key(Obs(id, t)) = <<"observations", id, t>>
    BY DEF Key, Obs
  <2>2. x \in ObsRow
    BY <1>2, <2>1 DEF Key, Row, NodeRow, ObsRow, RelRow, SessRow
  <2>3. Key(x) = <<"observations", x.node, x.text>>
    BY <2>2 DEF Key, ObsRow
  <2>4. x.node = id /\ x.text = t
    BY <1>2, <2>1, <2>3
  <2> QED
    BY <2>2, <2>4 DEF ObsRow, Obs
<1>3. ASSUME NEW f, NEW t, NEW y, NEW p, Key(x) = Key(Rel(f, t, y, p))
      PROVE  x.tab = "relations" /\ x.from = f /\ x.to = t /\ x.type = y
  <2>1. Key(Rel(f, t, y, p)) = <<"relations", f, t, y>>
    BY DEF Key, Rel
  <2>2. x \in RelRow
    BY <1>3, <2>1 DEF Key, Row, NodeRow, ObsRow, RelRow, SessRow
  <2>3. Key(x) = <<"relations", x.from, x.to, x.type>>
    BY <2>2 DEF Key, RelRow
  <2> QED
    BY <1>3, <2>1, <2>2, <2>3 DEF RelRow
<1> QED
  BY <1>1, <1>2, <1>3

LEMMA NodeIsThere ==
    ASSUME NEW S, NEW id
    PROVE  HasNode(S, id) <=> id \in IdsIn(S)
BY DEF HasNode, IdsIn

LEMMA IdsTyped ==
    ASSUME NEW S, S \subseteq Row
    PROVE  IdsIn(S) \subseteq NodeId
BY DEF IdsIn, IdOf, NodeId, Row, NodeRow, ObsRow, RelRow, SessRow

\* A node of S that is live in a larger table, with more of its rows dead, was
\* live in S.
LEMMA LiveBefore ==
    ASSUME NEW S, NEW S2, NEW D, NEW D2, S \subseteq S2, S2 \subseteq Row, UniqueIn(S2),
           D \cap S \subseteq D2,
           NEW id, HasNode(S, id), id \in IdsIn(S2 \ D2)
    PROVE  id \in IdsIn(S \ D)
<1>1. PICK x \in S : x.tab = "nodes" /\ IdOf(x) = id
  BY DEF HasNode
<1>2. PICK y \in S2 \ D2 : y.tab = "nodes" /\ IdOf(y) = id
  BY DEF IdsIn
<1>3. Key(x) = Key(y)
  BY <1>1, <1>2 DEF Key, IdOf
<1>4. x = y
  BY <1>1, <1>2, <1>3 DEF UniqueIn
<1> QED
  BY <1>1, <1>2, <1>4 DEF IdsIn

-------------------------------------------------------------------------------
(* What has landed stays landed. *)

LEMMA LandedGrows ==
    ASSUME NEW j, NEW S, NEW S2, NEW D, NEW D2,
           S \subseteq S2, S2 \subseteq Row, UniqueIn(S2), D \cap S \subseteq D2,
           Landed(j, S, IdsIn(S \ D))
    PROVE  Landed(j, S2, IdsIn(S2 \ D2))
<1> DEFINE live == IdsIn(S \ D)
           live2 == IdsIn(S2 \ D2)
<1>1. \A id : HasNode(S, id) => HasNode(S2, id)
  BY DEF HasNode
<1>2. \A id : HasNode(S, id) /\ id \in live2 => id \in live
  BY LiveBefore
<1>3. \A i, name, id : id \in Homonyms(j, i, name, S) => id \in Homonyms(j, i, name, S2)
  BY DEF Homonyms, IdsIn
<1> HIDE DEF live, live2
<1>4. ASSUME NEW n \in j.nodes, HasNode(S, Own(n, n.name)), TextsLanded(j, n, S, live)
      PROVE  TextsLanded(j, n, S2, live2)
  BY <1>2, <1>3, <1>4 DEF TextsLanded
<1>5. ASSUME NEW r \in j.rels, \A n \in j.nodes : HasNode(S, Own(n, n.name)),
             LinkLanded(j, r, S, live)
      PROVE  LinkLanded(j, r, S2, live2)
  <2> SUFFICES ASSUME {Own(r, r.from), Own(r, r.to)}
                        \subseteq live2 \cap {Own(n, n.name) : n \in j.nodes}
               PROVE  \E f \in Homonyms(j, r, r.from, S2), t \in Homonyms(j, r, r.to, S2) :
                         \E x \in S2 : Key(x) = Key(Rel(f, t, r.type, Global))
    BY DEF LinkLanded
  <2>1. HasNode(S, Own(r, r.from)) /\ HasNode(S, Own(r, r.to))
    BY <1>5
  <2>2. {Own(r, r.from), Own(r, r.to)} \subseteq live \cap {Own(n, n.name) : n \in j.nodes}
    BY <1>2, <2>1
  <2>3. PICK f \in Homonyms(j, r, r.from, S), t \in Homonyms(j, r, r.to, S), x \in S :
           Key(x) = Key(Rel(f, t, r.type, Global))
    BY <1>5, <2>2 DEF LinkLanded
  <2> QED
    BY <1>3, <2>3
<1>6. Landed(j, S, live)
  BY DEF live
<1>7. Landed(j, S2, live2)
  BY <1>1, <1>4, <1>5, <1>6 DEF Landed
<1> QED
  BY <1>7 DEF live2

-------------------------------------------------------------------------------
(* The invariant, one job at a time: j is a job, R and D the rows of its       *)
(* database and the deleted ones.                                              *)

Table(R, D) ==
    R \subseteq Row /\ D \subseteq R /\ UniqueIn(R) /\ ReferencesIn(R)

\* View and LiveIds.
Seen(j, R) == j.ins \cup {r \in R : j.wiped => r.tab = "sessions"}

LiveSeen(j, R, D) == IdsIn(Seen(j, R) \ (IF j.wiped THEN {} ELSE D))

\* ExportsAreOfTheirTime.
Told(j) ==
    /\ NodesOfTheirTime(j.nodes, j.seen, j.steady)
    /\ \A id \in IdsIn(j.steady) : InScope(id.project, j.project) => Exported(j, id)
    /\ \A r \in j.rels : \E x \in j.seen :
          Names(r, x) /\ HasNode(j.seen, x.from) /\ HasNode(j.seen, x.to)
    /\ \A x \in OfTab(Content(j.steady, j.project), "relations") :
          \E r \in j.rels : Names(r, x)

TransferFits(j, R, D) ==
    /\ UniqueIn(Seen(j, R)) /\ ReferencesIn(Seen(j, R))
    /\ \A x \in j.ins : FromFile(j, x)
    /\ Landed(j, Seen(j, R), LiveSeen(j, R, D))
    /\ j.content # None => Faithful(j.nodes, j.rels, j.content)

Good(j, R, D) ==
    /\ JobFits(j)
    /\ j.kind = "export" => ExportFits(j, R \ D) /\ (j.at = "done" => Told(j))
    /\ j.kind \in Transfers => TransferFits(j, R, D)

Apart(i, j) ==
    i.db = j.db =>
       /\ \A x \in i.ins, y \in j.ins : Key(x) # Key(y)
       /\ i.wiped /\ j.kind \in Transfers => Waiting(j)

FileFits(f) ==
    /\ f \in FileType
    /\ f.content # None => f.entities = {} /\ Faithful(f.nodes, f.rels, f.content)

Inv ==
    /\ rows \in [Db -> SUBSET Row] /\ dead \in [Db -> SUBSET Row]
    /\ \A d \in Db : Table(rows[d], dead[d])
    /\ FileFits(file)
    /\ job \in [Operator -> JobType]
    /\ \A o \in Operator : Good(job[o], rows[job[o].db], dead[job[o].db])
    /\ \A o, q \in Operator : o # q => Apart(job[o], job[q])
    /\ writes \in 0..MaxWrites /\ jobs \in 0..MaxJobs

LEMMA SeenIsView ==
    ASSUME NEW o
    PROVE  /\ Seen(job[o], rows[job[o].db]) = View(o)
           /\ LiveSeen(job[o], rows[job[o].db], dead[job[o].db]) = LiveIds(o)
BY DEF Seen, View, LiveSeen, LiveIds

\* A job with rows to commit, or a lock, is a transfer.
LEMMA OnlyTransfersWrite ==
    ASSUME NEW j, JobFits(j), j.ins # {} \/ j.wiped
    PROVE  j.kind \in Transfers /\ j.db \in Db
BY DEF JobFits, Transfers

LEMMA InvGivesTypeOK == Inv => TypeOK
<1> SUFFICES ASSUME Inv PROVE TypeOK
  OBVIOUS
<1>1. \A d \in Db : dead[d] \subseteq rows[d]
  BY DEF Inv, Table
<1>2. ASSUME NEW d \in Db
      PROVE  UniqueIn(rows[d] \cup UNION {job[o].ins : o \in {q \in Operator :
                                              job[q].db = d /\ ~job[q].wiped}})
  <2> DEFINE open == {q \in Operator : job[q].db = d /\ ~job[q].wiped}
  <2>1. ASSUME NEW q \in open, job[q].ins # {}
        PROVE  UniqueIn(job[q].ins \cup rows[d])
    <3>1. Good(job[q], rows[d], dead[d])
      BY DEF Inv
    <3>2. job[q].kind \in Transfers
      BY <2>1, <3>1, OnlyTransfersWrite DEF Good
    <3>3. UniqueIn(Seen(job[q], rows[d]))
      BY <3>1, <3>2 DEF Good, TransferFits
    <3>4. Seen(job[q], rows[d]) = job[q].ins \cup rows[d]
      BY DEF Seen
    <3> QED
      BY <3>3, <3>4
  <2>2. UniqueIn(rows[d])
    BY DEF Inv, Table
  <2>3. ASSUME NEW q \in open, NEW o \in open, q # o,
               NEW x \in job[q].ins, NEW y \in job[o].ins
        PROVE  Key(x) # Key(y)
    BY <2>3 DEF Inv, Apart
  <2> SUFFICES ASSUME NEW x \in rows[d] \cup UNION {job[o].ins : o \in open},
                      NEW y \in rows[d] \cup UNION {job[o].ins : o \in open},
                      Key(x) = Key(y)
               PROVE  x = y
    BY DEF UniqueIn
  <2>4. CASE x \in rows[d] /\ y \in rows[d]
    BY <2>2, <2>4 DEF UniqueIn
  <2>5. ASSUME NEW o \in open, x \in job[o].ins, y \in rows[d] PROVE x = y
    BY <2>1, <2>5 DEF UniqueIn
  <2>6. ASSUME NEW o \in open, y \in job[o].ins, x \in rows[d] PROVE x = y
    BY <2>1, <2>6 DEF UniqueIn
  <2>7. ASSUME NEW o \in open, NEW q \in open, x \in job[o].ins, y \in job[q].ins
        PROVE  x = y
    <3>1. o = q
      BY <2>3, <2>7
    <3> QED
      BY <2>1, <2>7, <3>1 DEF UniqueIn
  <2> QED
    BY <2>4, <2>5, <2>6, <2>7
<1>3. ASSUME NEW o \in Operator, job[o].kind \in Transfers
      PROVE  ReferencesIn(View(o))
  BY <1>3, SeenIsView DEF Inv, Good, TransferFits
<1> QED
  BY <1>1, <1>2, <1>3 DEF Inv, TypeOK, FileFits

LEMMA InvGivesTransferInv == Inv => TransferInv
<1> SUFFICES ASSUME Inv PROVE TransferInv
  OBVIOUS
<1>1. ResetIsAlone
  BY DEF Inv, ResetIsAlone, Apart
<1>2. KeysApart
  <2>1. ASSUME NEW o \in Operator, job[o].kind \in Transfers PROVE UniqueIn(View(o))
    BY <2>1, SeenIsView DEF Inv, Good, TransferFits
  <2> QED
    BY <2>1 DEF Inv, KeysApart, Table, Apart
<1>3. \A d \in Db : ReferencesIn(rows[d])
  BY DEF Inv, Table
<1>4. ASSUME NEW o \in Operator
      PROVE  /\ JobFits(job[o])
             /\ job[o].kind = "export" => ExportFits(job[o], Live(job[o].db))
             /\ job[o].kind \in Transfers =>
                   /\ \A x \in job[o].ins : FromFile(job[o], x)
                   /\ Landed(job[o], View(o), LiveIds(o))
                   /\ job[o].content # None =>
                         Faithful(job[o].nodes, job[o].rels, job[o].content)
  <2>1. Good(job[o], rows[job[o].db], dead[job[o].db])
    BY DEF Inv
  <2> QED
    BY <2>1, SeenIsView DEF Good, TransferFits, Live
<1> QED
  BY <1>1, <1>2, <1>3, <1>4 DEF Inv, TransferInv, FileFits

LEMMA InvGivesExports == Inv => ExportsAreOfTheirTime
BY DEF Inv, Good, Told, ExportsAreOfTheirTime
-------------------------------------------------------------------------------
(* The start, and a job that moves while the tables stay.                      *)

LEMMA IdleIsAJob == Idle \in JobType /\ JobFits(Idle)
BY DEF Idle, JobType, JobFits, Stage, Transfers

LEMMA IdleIsGood ==
    ASSUME NEW R, NEW D
    PROVE  Good(Idle, R, D)
<1>1. Idle.kind = "none"
  BY DEF Idle
<1> QED
  BY <1>1, IdleIsAJob DEF Good, Transfers

LEMMA IdleIsApart ==
    ASSUME NEW j
    PROVE  Apart(Idle, j) /\ (JobFits(j) => Apart(j, Idle))
BY DEF Apart, Idle, Transfers

LEMMA InvStarts == Init => Inv
<1> SUFFICES ASSUME Init PROVE Inv
  OBVIOUS
<1>1. Table({}, {}) /\ Table(Seed, {})
  BY SeedIsAGraph DEF Table, UniqueIn, ReferencesIn
<1>2. /\ rows \in [Db -> SUBSET Row] /\ dead \in [Db -> SUBSET Row]
      /\ \A d \in Db : Table(rows[d], dead[d])
  <2>1. ASSUME NEW d \in Db
        PROVE  rows[d] \in {{}, Seed} /\ dead[d] = {}
    BY DEF Init
  <2>2. Seed \subseteq Row
    BY SeedIsAGraph
  <2>3. \A d \in Db : Table(rows[d], dead[d])
    BY <1>1, <2>1
  <2> QED
    BY <2>1, <2>2, <2>3 DEF Init
<1>3. FileFits(file)
  BY DEF Init, NoFile, FileFits, FileType
<1>4. \A o \in Operator : job[o] = Idle
  BY DEF Init
<1>5. job \in [Operator -> JobType]
  BY IdleIsAJob DEF Init
<1>6. \A o \in Operator : Good(job[o], rows[job[o].db], dead[job[o].db])
  BY <1>4, IdleIsGood
<1>7. \A o, q \in Operator : o # q => Apart(job[o], job[q])
  BY <1>4, IdleIsApart
<1>8. writes \in 0..MaxWrites /\ jobs \in 0..MaxJobs
  BY BoundsAreNumbers DEF Init
<1> QED
  BY <1>2, <1>3, <1>5, <1>6, <1>7, <1>8 DEF Inv

\* A step that changes one job and leaves the tables.
LEMMA JobMoves ==
    ASSUME Inv, NEW o \in Operator, NEW j \in JobType,
           job' = [job EXCEPT ![o] = j], UNCHANGED <<rows, dead>>, FileFits(file'),
           writes' \in 0..MaxWrites, jobs' \in 0..MaxJobs,
           Good(j, rows[j.db], dead[j.db]),
           \A q \in Operator \ {o} : Apart(j, job[q]) /\ Apart(job[q], j)
    PROVE  Inv'
<1>1. job' \in [Operator -> JobType]
  BY DEF Inv
<1>2. job'[o] = j /\ \A q \in Operator \ {o} : job'[q] = job[q]
  BY DEF Inv
<1>3. ASSUME NEW q \in Operator
      PROVE  Good(job'[q], rows'[job'[q].db], dead'[job'[q].db])
  <2>1. CASE q = o
    BY <1>2, <2>1
  <2>2. CASE q # o
    BY <1>2, <2>2 DEF Inv
  <2> QED
    BY <2>1, <2>2
<1>4. ASSUME NEW p \in Operator, NEW q \in Operator, p # q
      PROVE  Apart(job'[p], job'[q])
  <2>1. CASE p = o
    BY <1>2, <1>4, <2>1
  <2>2. CASE q = o
    BY <1>2, <1>4, <2>2
  <2>3. CASE p # o /\ q # o
    BY <1>2, <1>4, <2>3 DEF Inv
  <2> QED
    BY <2>1, <2>2, <2>3
<1>5. /\ rows' \in [Db -> SUBSET Row] /\ dead' \in [Db -> SUBSET Row]
      /\ \A d \in Db : Table(rows'[d], dead'[d])
  BY DEF Inv
<1> QED
  BY <1>1, <1>3, <1>4, <1>5 DEF Inv

\* A job that starts, or stops, with nothing to commit.
LEMMA NothingYetIsApart ==
    ASSUME NEW i, NEW j, JobFits(i), JobFits(j), j.ins = {}, ~j.wiped,
           j.kind \in Transfers => Waiting(j)
    PROVE  Apart(i, j) /\ Apart(j, i)
BY DEF Apart

\* A job at work on a database is the only one that may have wiped it.
LEMMA AloneAtWork ==
    ASSUME Inv, NEW o \in Operator, NEW K, NEW label, At(o, K, label),
           NEW q \in Operator \ {o}, job[q].db = job[o].db
    PROVE  ~job[q].wiped
<1>1. CASE Unlocked(job[o].db)
  BY <1>1 DEF Unlocked
<1>2. CASE job[o].wiped
  <2>1. ASSUME job[q].wiped PROVE job[q].kind \in Transfers
    BY <2>1, OnlyTransfersWrite DEF Inv, Good
  <2> QED
    BY <1>2, <2>1 DEF Inv, Apart, Waiting
<1> QED
  BY <1>1, <1>2 DEF At

\* A transfer at work stays apart from the others while it inserts keys that
\* none of them holds.
LEMMA AtWorkStaysApart ==
    ASSUME Inv, NEW o \in Operator, NEW K, NEW label, At(o, K, label),
           NEW j, j.db = job[o].db, j.wiped = job[o].wiped,
           \A q \in Operator \ {o} : job[q].db = j.db =>
              \A x \in j.ins \ job[o].ins, y \in job[q].ins : Key(x) # Key(y),
           NEW q \in Operator \ {o}
    PROVE  Apart(j, job[q]) /\ Apart(job[q], j)
<1>1. Apart(job[o], job[q]) /\ Apart(job[q], job[o])
  BY DEF Inv
<1>2. job[q].db = j.db => ~job[q].wiped
  BY AloneAtWork
<1>3. ASSUME job[q].db = j.db, NEW x \in j.ins, NEW y \in job[q].ins
      PROVE  Key(x) # Key(y)
  <2>1. CASE x \in job[o].ins
    BY <1>1, <1>3, <2>1 DEF Apart
  <2>2. CASE x \notin job[o].ins
    BY <1>3, <2>2
  <2> QED
    BY <2>1, <2>2
<1> QED
  BY <1>1, <1>2, <1>3 DEF Apart
-------------------------------------------------------------------------------
(* khctl export.                                                               *)

LEMMA BeginExportKeeps ==
    ASSUME Inv, NEW o \in Operator, NEW d \in Db, NEW p \in Project \cup {None},
           BeginExport(o, d, p)
    PROVE  Inv'
<1> DEFINE j == [Idle EXCEPT !.kind = "export", !.at = "nodes", !.db = d,
                             !.project = p, !.seen = Live(d), !.steady = Live(d)]
<1>1. /\ j.kind = "export" /\ j.at = "nodes" /\ j.db = d /\ j.project = p
      /\ j.seen = Live(d) /\ j.steady = Live(d) /\ j.nodes = {} /\ j.ins = {}
      /\ ~j.wiped /\ ~j.stale
  BY DEF Idle
<1>2. j \in JobType
  <2>1. Live(d) \subseteq Row
    BY DEF Inv, Live
  <2> QED
    BY <2>1 DEF Idle, JobType, Stage, Transfers
<1>3. job' = [job EXCEPT ![o] = j] /\ UNCHANGED <<rows, dead, file, writes>>
  BY DEF BeginExport, Begin
<1>4. jobs' \in 0..MaxJobs
  BY BoundsAreNumbers DEF BeginExport, Begin, Inv
<1> HIDE DEF j
<1>5. JobFits(j)
  BY <1>1 DEF JobFits, Transfers
<1>6. ExportFits(j, Live(d))
  BY <1>1 DEF ExportFits, NodesOfTheirTime
<1>7. Good(j, rows[j.db], dead[j.db])
  BY <1>1, <1>5, <1>6 DEF Good, Live, Transfers
<1>8. \A q \in Operator \ {o} : Apart(j, job[q]) /\ Apart(job[q], j)
  BY <1>1, <1>5, NothingYetIsApart DEF Inv, Good, Transfers
<1>9. FileFits(file') /\ writes' \in 0..MaxWrites
  BY <1>3 DEF Inv
<1> QED
  BY <1>2, <1>3, <1>4, <1>7, <1>8, <1>9, JobMoves

\* An export that goes on reading, with what it has read.
LEMMA ExportGoesOn ==
    ASSUME Inv, NEW o \in Operator, job[o].kind = "export", job[o].at # "idle",
           NEW j \in JobType,
           j.kind = "export" /\ j.db = job[o].db /\ j.ins = {} /\ ~j.wiped,
           j.at \in {"nodes", "texts", "done"},
           ExportFits(j, Live(j.db)), j.at = "done" => Told(j),
           job' = [job EXCEPT ![o] = j], UNCHANGED <<rows, dead, writes, jobs>>,
           FileFits(file')
    PROVE  Inv'
<1>1. j.db \in Db
  BY DEF Inv, Good, JobFits
<1>2. JobFits(j)
  BY <1>1 DEF JobFits, Transfers
<1>3. Good(j, rows[j.db], dead[j.db])
  BY <1>2 DEF Good, Live, Transfers
<1>4. \A q \in Operator \ {o} : Apart(j, job[q]) /\ Apart(job[q], j)
  BY <1>2, NothingYetIsApart DEF Inv, Good, Transfers
<1>5. writes' \in 0..MaxWrites /\ jobs' \in 0..MaxJobs
  BY DEF Inv
<1>6. UNCHANGED <<rows, dead>>
  OBVIOUS
<1> QED
  BY <1>3, <1>4, <1>5, <1>6, JobMoves

LEMMA FetchExportNodesKeeps ==
    ASSUME Inv, NEW o \in Operator, FetchExportNodes(o)
    PROVE  Inv'
<1> DEFINE live == Live(job[o].db)
           ids == {id \in IdsIn(live) : InScope(id.project, job[o].project)}
           j == [job[o] EXCEPT !.at = "texts", !.left = ids]
<1>1. job[o].kind = "export" /\ job[o].at = "nodes" /\ job[o] \in JobType
  BY DEF FetchExportNodes, At, Inv
<1>2. job' = [job EXCEPT ![o] = j] /\ UNCHANGED <<rows, dead, file, writes, jobs>>
  BY DEF FetchExportNodes, Goto
<1>3. Good(job[o], rows[job[o].db], dead[job[o].db])
  BY DEF Inv
<1>4. JobFits(job[o]) /\ ExportFits(job[o], live)
  BY <1>1, <1>3 DEF Good, Live
<1>5. job[o].db \in Db /\ job[o].ins = {} /\ ~job[o].wiped
  BY <1>1, <1>4 DEF JobFits, Transfers
<1>6. ids \subseteq NodeId
  <2>1. live \subseteq Row
    BY <1>5 DEF Inv, Live
  <2> QED
    BY <2>1, IdsTyped
<1> HIDE DEF live, ids
<1>7. /\ j.kind = "export" /\ j.at = "texts" /\ j.db = job[o].db /\ j.left = ids
      /\ j.project = job[o].project /\ j.seen = job[o].seen /\ j.steady = job[o].steady
      /\ j.nodes = job[o].nodes /\ j.ins = {} /\ ~j.wiped /\ j.stale = job[o].stale
  BY <1>1, <1>5 DEF JobType
<1>8. j \in JobType
  BY <1>1, <1>6 DEF JobType, Stage
<1> HIDE DEF j
<1>9. ExportFits(j, live)
  <2> DEFINE scope(S) == {id \in IdsIn(S) : InScope(id.project, job[o].project)}
  <2>1. job[o].steady \subseteq live /\ live \subseteq job[o].seen /\ job[o].nodes = {}
    BY <1>1, <1>4 DEF ExportFits
  <2>2. scope(job[o].steady) \subseteq ids /\ ids \subseteq scope(job[o].seen)
    BY <2>1 DEF ids, IdsIn
  <2> HIDE DEF scope
  <2>3. \A id \in scope(j.steady) : id \in j.left \/ Exported(j, id)
    BY <1>7, <2>2
  <2>4. j.left \subseteq scope(j.seen)
    BY <1>7, <2>2
  <2>5. NodesOfTheirTime(j.nodes, j.seen, j.steady)
    BY <1>7, <2>1 DEF NodesOfTheirTime
  <2> QED
    BY <1>4, <1>7, <2>1, <2>3, <2>4, <2>5 DEF ExportFits, scope
<1>10. FileFits(file')
  BY <1>2 DEF Inv
<1>11. ExportFits(j, Live(j.db)) /\ j.at # "done" /\ j.at \in {"nodes", "texts", "done"}
  BY <1>7, <1>9 DEF live
<1> QED
  BY <1>1, <1>2, <1>7, <1>8, <1>10, <1>11, ExportGoesOn
LEMMA FetchNodeObservationsKeeps ==
    ASSUME Inv, NEW o \in Operator, FetchNodeObservations(o)
    PROVE  Inv'
<1> DEFINE live == Live(job[o].db)
           read(id) == {r.text : r \in {x \in live :
                          x.tab = "observations" /\ x.node = id /\ ~job[o].stale}}
           line(id) == [project |-> id.project, name |-> id.name, texts |-> read(id),
                        bad |-> FALSE, deleted |-> FALSE]
           next(id) == [job[o] EXCEPT !.left = @ \ {id}, !.nodes = @ \cup {line(id)}]
<1>1. job[o].kind = "export" /\ job[o].at = "texts" /\ job[o] \in JobType
  BY DEF FetchNodeObservations, At, Inv
<1>2. PICK id \in job[o].left :
         /\ job' = [job EXCEPT ![o] = next(id)]
         /\ UNCHANGED <<rows, dead, file, writes, jobs>>
  BY DEF FetchNodeObservations, Goto
<1> DEFINE j == next(id)
           n == line(id)
<1>3. Good(job[o], rows[job[o].db], dead[job[o].db])
  BY DEF Inv
<1>4. JobFits(job[o]) /\ ExportFits(job[o], live)
  BY <1>1, <1>3 DEF Good, Live
<1>5. job[o].db \in Db /\ job[o].ins = {} /\ ~job[o].wiped
  BY <1>1, <1>4 DEF JobFits, Transfers
<1>6. live \subseteq Row /\ job[o].seen \subseteq Row
  BY <1>1, <1>5 DEF Inv, Live, JobType
<1>7. id \in IdsIn(job[o].seen) /\ InScope(id.project, job[o].project) /\ id \in NodeId
  BY <1>1, <1>4, <1>6, IdsTyped DEF ExportFits
<1>8. /\ job[o].steady \subseteq live /\ live \subseteq job[o].seen
      /\ job[o].stale => job[o].steady = {}
  BY <1>1, <1>4 DEF ExportFits
<1>9. /\ read(id) \subseteq TextsIn(job[o].seen, id)
      /\ TextsIn(job[o].steady, id) \subseteq read(id)
  BY <1>8 DEF TextsIn
<1>10. read(id) \subseteq Text
  BY <1>6 DEF Row, NodeRow, ObsRow, RelRow, SessRow
<1> HIDE DEF live, read
<1>11. n \in NodeLine /\ Own(n, n.name) = id /\ n.texts = read(id) /\ ~n.deleted
       /\ n.project = id.project /\ n.project \in Project
  BY <1>7, <1>10 DEF NodeLine, NodeId, Own
<1> HIDE DEF line, n
<1>12. /\ j.kind = "export" /\ j.at = "texts" /\ j.db = job[o].db
       /\ j.left = job[o].left \ {id} /\ j.nodes = job[o].nodes \cup {n}
       /\ j.project = job[o].project /\ j.seen = job[o].seen /\ j.steady = job[o].steady
       /\ j.ins = {} /\ ~j.wiped /\ j.stale = job[o].stale
  BY <1>1, <1>5 DEF JobType, n
<1>13. j \in JobType
  BY <1>1, <1>11 DEF JobType, Stage, n
<1> HIDE DEF next, j
<1>14. ExportFits(j, live)
  <2> DEFINE scope(S) == {i \in IdsIn(S) : InScope(i.project, job[o].project)}
  <2>1. NodesOfTheirTime(j.nodes, j.seen, j.steady)
    <3>1. NodesOfTheirTime(job[o].nodes, job[o].seen, job[o].steady)
      BY <1>4 DEF ExportFits
    <3>2. HasNode(job[o].seen, Own(n, n.name))
      BY <1>7, <1>11, NodeIsThere
    <3> QED
      BY <1>9, <1>11, <1>12, <3>1, <3>2 DEF NodesOfTheirTime
  <2>2. \A i \in scope(job[o].steady) : i \in job[o].left \/ Exported(job[o], i)
    BY <1>1, <1>4 DEF ExportFits
  <2> HIDE DEF scope
  <2>3. \A i \in scope(job[o].steady) : i \in j.left \/ Exported(j, i)
    BY <1>11, <1>12, <2>2 DEF Exported
  <2>4. job[o].left \subseteq scope(job[o].seen)
    BY <1>1, <1>4 DEF ExportFits, scope
  <2>5. j.left \subseteq scope(job[o].seen)
    BY <1>12, <2>4
  <2>6. \A m \in j.nodes : m.project \in Project /\ ~m.deleted
                           /\ InScope(m.project, j.project)
    BY <1>4, <1>7, <1>11, <1>12 DEF ExportFits
  <2> QED
    BY <1>4, <1>8, <1>12, <2>1, <2>3, <2>5, <2>6 DEF ExportFits, scope
<1>15. FileFits(file')
  BY <1>2 DEF Inv
<1>16. ExportFits(j, Live(j.db)) /\ j.at # "done" /\ j.at \in {"nodes", "texts", "done"}
  BY <1>12, <1>14 DEF live
<1>17. job' = [job EXCEPT ![o] = j]
  BY <1>2 DEF j
<1> QED
  BY <1>1, <1>2, <1>12, <1>13, <1>15, <1>16, <1>17, ExportGoesOn

\* A finished export of an undisturbed graph carries its content away.
LEMMA ExportIsFaithful ==
    ASSUME NEW j \in JobType, ExportFits(j, j.seen), j.at = "texts", j.left = {},
           j.seen = j.steady,
           NEW R, R = {[project |-> r.project, from |-> r.from.name, to |-> r.to.name,
                        type |-> r.type, deleted |-> FALSE] :
                          r \in ExportedRelations(j.seen, j.project)}
    PROVE  Faithful(j.nodes, R, Content(j.seen, j.project))
<1> DEFINE C == Content(j.seen, j.project)
           ids == {id \in IdsIn(j.seen) : InScope(id.project, j.project)}
<1>1. IdsIn(C) = ids
  BY DEF IdsIn, Content
<1>2. \A x \in C : x \in j.seen /\ (x.tab = "observations" => x.node \in ids)
  BY DEF Content
<1>3. \A x \in OfTab(C, "relations") :
         InScope(x.project, j.project) /\ {x.from, x.to} \subseteq IdsIn(j.seen)
  BY DEF Content, OfTab
<1>4. OfTab(C, "relations") = ExportedRelations(j.seen, j.project)
  BY DEF Content, OfTab, ExportedRelations
<1>5. \A id \in ids : TextsIn(C, id) = TextsIn(j.seen, id)
  BY DEF Content, TextsIn
<1>6. \A x \in OfTab(C, "relations") : x \in RelRow
  BY <1>2, RowOfTable DEF OfTab, JobType
<1> HIDE DEF C, ids
<1>7. \A n \in j.nodes : /\ n.project \in Project /\ ~n.deleted
                         /\ HasNode(C, Own(n, n.name))
                         /\ n.texts = TextsIn(C, Own(n, n.name))
  <2> TAKE n \in j.nodes
  <2>1. /\ HasNode(j.seen, Own(n, n.name)) /\ InScope(n.project, j.project)
        /\ n.texts = TextsIn(j.seen, Own(n, n.name)) /\ n.project \in Project /\ ~n.deleted
    BY DEF ExportFits, NodesOfTheirTime
  <2>2. Own(n, n.name) \in ids
    BY <2>1, NodeIsThere DEF ids, Own
  <2> QED
    BY <1>1, <1>5, <2>1, <2>2, NodeIsThere
<1>8. \A id \in IdsIn(C) : \E n \in j.nodes : Own(n, n.name) = id
  BY <1>1 DEF ExportFits, ids, Exported
<1>9. \A r \in R : r.project \in Project /\ ~r.deleted /\ \E x \in C : Names(r, x)
  <2> TAKE r \in R
  <2>1. PICK x \in ExportedRelations(j.seen, j.project) :
           r = [project |-> x.project, from |-> x.from.name, to |-> x.to.name,
                type |-> x.type, deleted |-> FALSE]
    OBVIOUS
  <2>2. x \in C /\ x.tab = "relations" /\ x \in RelRow
    BY <1>4, <1>6 DEF OfTab
  <2> QED
    BY <2>1, <2>2 DEF Names, RelRow
<1>10. \A x \in OfTab(C, "relations") : \E r \in R : Names(r, x)
  <2> TAKE x \in OfTab(C, "relations")
  <2> DEFINE r == [project |-> x.project, from |-> x.from.name, to |-> x.to.name,
                   type |-> x.type, deleted |-> FALSE]
  <2>1. r \in R
    BY <1>4
  <2>2. Names(r, x)
    BY DEF Names, OfTab
  <2> QED
    BY <2>1, <2>2
<1>11. \A x \in OfTab(C, "observations") : x.node \in IdsIn(C)
  BY <1>1, <1>2 DEF OfTab
<1>12. \A x \in OfTab(C, "relations") : SameProject(x) => {x.from, x.to} \subseteq IdsIn(C)
  BY <1>1, <1>3 DEF ids, SameProject
<1>13. Faithful(j.nodes, R, C)
  BY <1>7, <1>8, <1>9, <1>10, <1>11, <1>12 DEF Faithful
<1> QED
  BY <1>13 DEF C
\* fetchExportRelations tells of the relations of the live rows.
LEMMA RelationsAreTold ==
    ASSUME NEW S, S \subseteq Row, NEW p,
           NEW R, R = {[project |-> r.project, from |-> r.from.name, to |-> r.to.name,
                        type |-> r.type, deleted |-> FALSE] :
                          r \in ExportedRelations(S, p)}
    PROVE  /\ R \subseteq EdgeLine
           /\ \A r \in R : \E x \in S :
                 Names(r, x) /\ HasNode(S, x.from) /\ HasNode(S, x.to)
           /\ \A x \in ExportedRelations(S, p) : \E r \in R : Names(r, x)
<1> DEFINE line(x) == [project |-> x.project, from |-> x.from.name, to |-> x.to.name,
                       type |-> x.type, deleted |-> FALSE]
<1>1. ASSUME NEW x \in ExportedRelations(S, p)
      PROVE  line(x) \in EdgeLine /\ line(x) \in R /\ Names(line(x), x)
             /\ x \in S /\ HasNode(S, x.from) /\ HasNode(S, x.to)
  <2>1. x \in S /\ x.tab = "relations" /\ {x.from, x.to} \subseteq IdsIn(S)
    BY DEF ExportedRelations
  <2>2. x \in RelRow
    BY <2>1, RowOfTable
  <2>3. line(x) \in EdgeLine
    BY <2>2 DEF EdgeLine, RelRow, NodeId
  <2>4. Names(line(x), x)
    BY <2>1 DEF Names
  <2> QED
    BY <2>1, <2>3, <2>4, NodeIsThere
<1>2. \A r \in R : \E x \in ExportedRelations(S, p) : r = line(x)
  OBVIOUS
<1> HIDE DEF line
<1> QED
  BY <1>1, <1>2

LEMMA FetchExportRelationsKeeps ==
    ASSUME Inv, NEW o \in Operator, FetchExportRelations(o)
    PROVE  Inv'
<1> DEFINE live == Live(job[o].db)
           rels == {[project |-> r.project, from |-> r.from.name, to |-> r.to.name,
                     type |-> r.type, deleted |-> FALSE] :
                       r \in ExportedRelations(live, job[o].project)}
           j == [job[o] EXCEPT !.at = "done", !.rels = rels]
<1>1. /\ job[o].kind = "export" /\ job[o].at = "texts" /\ job[o] \in JobType
      /\ job[o].left = {}
  BY DEF FetchExportRelations, At, Inv
<1>2. /\ job' = [job EXCEPT ![o].at = "done", ![o].rels = rels]
      /\ UNCHANGED <<rows, dead, writes, jobs>>
      /\ file' = [nodes |-> job[o].nodes, entities |-> {}, rels |-> rels,
                  content |-> IF job[o].seen = job[o].steady
                              THEN Content(job[o].seen, job[o].project) ELSE None]
  BY DEF FetchExportRelations
<1>3. Good(job[o], rows[job[o].db], dead[job[o].db])
  BY DEF Inv
<1>4. JobFits(job[o]) /\ ExportFits(job[o], live)
  BY <1>1, <1>3 DEF Good, Live
<1>5. job[o].db \in Db /\ job[o].ins = {} /\ ~job[o].wiped
  BY <1>1, <1>4 DEF JobFits, Transfers
<1>6. live \subseteq Row /\ job[o].seen \subseteq Row
  BY <1>1, <1>5 DEF Inv, Live, JobType
<1>7. job[o].steady \subseteq live /\ live \subseteq job[o].seen
  BY <1>1, <1>4 DEF ExportFits
<1> HIDE DEF live
<1>8. /\ rels \subseteq EdgeLine
      /\ \A r \in rels : \E x \in live :
            Names(r, x) /\ HasNode(live, x.from) /\ HasNode(live, x.to)
      /\ \A x \in ExportedRelations(live, job[o].project) : \E r \in rels : Names(r, x)
  BY <1>6, RelationsAreTold
<1>9. ASSUME job[o].seen = job[o].steady
      PROVE  Faithful(job[o].nodes, rels, Content(job[o].seen, job[o].project))
  <2>1. live = job[o].seen
    BY <1>7, <1>9
  <2> QED
    BY <1>1, <1>4, <1>9, <2>1, ExportIsFaithful
<1> HIDE DEF rels
<1>10. /\ j.kind = "export" /\ j.at = "done" /\ j.db = job[o].db /\ j.rels = rels
       /\ j.left = job[o].left /\ j.nodes = job[o].nodes
       /\ j.project = job[o].project /\ j.seen = job[o].seen /\ j.steady = job[o].steady
       /\ j.ins = {} /\ ~j.wiped /\ j.stale = job[o].stale
  BY <1>1, <1>5 DEF JobType
<1>11. j \in JobType
  BY <1>1, <1>8 DEF JobType, Stage
<1>12. job' = [job EXCEPT ![o] = j]
  BY <1>2
<1> HIDE DEF j
<1>13. ExportFits(j, live)
  BY <1>4, <1>10 DEF ExportFits
<1>14. Told(j)
  <2>1. NodesOfTheirTime(j.nodes, j.seen, j.steady)
    BY <1>4, <1>10 DEF ExportFits
  <2>2. \A id \in IdsIn(j.steady) : InScope(id.project, j.project) => Exported(j, id)
    <3>1. \A id \in IdsIn(job[o].steady) : InScope(id.project, job[o].project) =>
             Exported(job[o], id)
      BY <1>1, <1>4 DEF ExportFits
    <3> QED
      BY <1>10, <3>1 DEF Exported
  <2>3. \A r \in j.rels : \E x \in j.seen :
           Names(r, x) /\ HasNode(j.seen, x.from) /\ HasNode(j.seen, x.to)
    <3>1. \A id : HasNode(live, id) => HasNode(j.seen, id)
      BY <1>7, <1>10 DEF HasNode
    <3> QED
      BY <1>7, <1>8, <1>10, <3>1
  <2>4. \A x \in OfTab(Content(j.steady, j.project), "relations") :
           \E r \in j.rels : Names(r, x)
    <3>1. OfTab(Content(j.steady, j.project), "relations")
            \subseteq ExportedRelations(live, j.project)
      BY <1>7, <1>10 DEF OfTab, Content, ExportedRelations, IdsIn
    <3> QED
      BY <1>8, <1>10, <3>1
  <2> QED
    BY <2>1, <2>2, <2>3, <2>4 DEF Told
<1>15. FileFits(file')
  <2> DEFINE C == Content(job[o].seen, job[o].project)
  <2>1. C \subseteq Row
    BY <1>6 DEF Content
  <2>2. job[o].seen = job[o].steady => Faithful(job[o].nodes, rels, C)
    BY <1>9
  <2>3. job[o].nodes \subseteq NodeLine
    BY <1>1 DEF JobType
  <2> HIDE DEF C
  <2>4. file' \in FileType
    BY <1>2, <1>8, <2>1, <2>3 DEF FileType, C
  <2>5. file'.content # None => file'.entities = {}
                                /\ Faithful(file'.nodes, file'.rels, file'.content)
    BY <1>2, <2>2 DEF C
  <2> QED
    BY <2>4, <2>5 DEF FileFits
<1>16. ExportFits(j, Live(j.db)) /\ j.at \in {"nodes", "texts", "done"}
  BY <1>10, <1>13 DEF live
<1> QED
  BY <1>1, <1>2, <1>10, <1>11, <1>12, <1>14, <1>15, <1>16, ExportGoesOn

LEMMA HandWriteKeeps ==
    ASSUME Inv, NEW f \in Sheet, HandWrite(f)
    PROVE  Inv'
<1>1. FileFits(f)
  BY SheetsAreFiles DEF FileFits
<1>2. FileFits(file') /\ UNCHANGED <<rows, dead, job, writes, jobs>>
  BY <1>1 DEF HandWrite
<1> QED
  BY <1>2 DEF Inv
-------------------------------------------------------------------------------
(* Transfers: their control.                                                   *)

\* What ParseImportPayload returns is well formed, and says the same graph.
LEMMA ParsedIsTyped ==
    ASSUME NEW f, FileFits(f)
    PROVE  /\ ParseImportPayload(f).nodes \subseteq NodeLine
           /\ ParseImportPayload(f).rels \subseteq EdgeLine
           /\ \A i \in ParseImportPayload(f).nodes \cup ParseImportPayload(f).rels :
                 i.project \in Project
           /\ f.content # None => Faithful(ParseImportPayload(f).nodes,
                                           ParseImportPayload(f).rels, f.content)
<1> DEFINE N == ParseImportPayload(f).nodes
           R == ParseImportPayload(f).rels
           F == IF f.nodes # {} THEN f.nodes ELSE f.entities
<1>1. /\ N = {n \in {InGlobal(i) : i \in F} : ~n.deleted}
      /\ R = {r \in {InGlobal(i) : i \in f.rels} : ~r.deleted}
  BY DEF ParseImportPayload
<1>2. F \subseteq NodeLine /\ f.rels \subseteq EdgeLine
  BY DEF FileFits, FileType
<1>3. \A i \in NodeLine : InGlobal(i) \in NodeLine /\ InGlobal(i).project \in Project
  BY GlobalIsAProject DEF InGlobal, NodeLine
<1>4. \A i \in EdgeLine : InGlobal(i) \in EdgeLine /\ InGlobal(i).project \in Project
  BY GlobalIsAProject DEF InGlobal, EdgeLine
<1>5. ASSUME f.content # None PROVE Faithful(N, R, f.content)
  <2>1. f.entities = {} /\ Faithful(f.nodes, f.rels, f.content)
    BY <1>5 DEF FileFits
  <2>2. F = f.nodes
    BY <2>1
  <2>3. \A i \in f.nodes \cup f.rels : InGlobal(i) = i /\ ~i.deleted
    BY <2>1, NoneIsNoValue DEF Faithful, InGlobal
  <2>4. N = f.nodes
    BY <1>1, <2>2, <2>3
  <2>5. R = f.rels
    BY <1>1, <2>3
  <2> QED
    BY <2>1, <2>4, <2>5
<1> HIDE DEF N, R, F
<1>6. N \subseteq NodeLine /\ \A i \in N : i.project \in Project
  BY <1>1, <1>2, <1>3
<1>7. R \subseteq EdgeLine /\ \A i \in R : i.project \in Project
  BY <1>1, <1>2, <1>4
<1>8. f.content # None => Faithful(N, R, f.content)
  BY <1>5
<1> QED
  BY <1>6, <1>7, <1>8 DEF N, R

\* A transfer that starts fits, whatever the tables.
LEMMA StartFits ==
    ASSUME NEW R, NEW D, Table(R, D),
           NEW j, j.ins = {}, ~j.wiped, j.at \in {"reset", "nodes", "done"},
           j.at = "nodes" => j.left = j.nodes,
           j.content # None => Faithful(j.nodes, j.rels, j.content)
    PROVE  TransferFits(j, R, D)
<1>1. Seen(j, R) = R
  BY DEF Seen
<1>2. Landed(j, Seen(j, R), LiveSeen(j, R, D))
  BY DEF Landed
<1> QED
  BY <1>1, <1>2 DEF TransferFits, Table

LEMMA BeginTransferKeeps ==
    ASSUME Inv, NEW o \in Operator, NEW j \in JobType, Begin(o, j), JobFits(j),
           j.kind \in Transfers, Waiting(j),
           j.content # None => Faithful(j.nodes, j.rels, j.content)
    PROVE  Inv'
<1>1. job' = [job EXCEPT ![o] = j] /\ UNCHANGED <<rows, dead, file, writes>>
  BY DEF Begin
<1>2. jobs' \in 0..MaxJobs /\ writes' \in 0..MaxWrites /\ FileFits(file')
  BY BoundsAreNumbers DEF Begin, Inv
<1>3. j.db \in Db /\ j.ins = {} /\ ~j.wiped
  BY DEF JobFits, Transfers, Waiting
<1>4. Table(rows[j.db], dead[j.db])
  BY <1>3 DEF Inv
<1>5. TransferFits(j, rows[j.db], dead[j.db])
  BY <1>3, <1>4, StartFits DEF Waiting
<1>6. Good(j, rows[j.db], dead[j.db])
  BY <1>5 DEF Good, Transfers
<1>7. \A q \in Operator \ {o} : Apart(j, job[q]) /\ Apart(job[q], j)
  BY <1>3, NothingYetIsApart DEF Inv, Good
<1> QED
  BY <1>1, <1>2, <1>6, <1>7, JobMoves

LEMMA BeginImportKeeps ==
    ASSUME Inv, NEW o \in Operator, NEW d \in Db, BeginImport(o, d)
    PROVE  Inv'
<1> DEFINE p == ParseImportPayload(file)
           j == [Idle EXCEPT !.kind = "import", !.at = "nodes", !.db = d,
                             !.nodes = p.nodes, !.rels = p.rels,
                             !.left = p.nodes, !.content = file.content]
<1>1. Begin(o, j)
  BY DEF BeginImport
<1>2. FileFits(file)
  BY DEF Inv
<1>3. /\ p.nodes \subseteq NodeLine /\ p.rels \subseteq EdgeLine
      /\ \A i \in p.nodes \cup p.rels : i.project \in Project
      /\ file.content # None => Faithful(p.nodes, p.rels, file.content)
  BY <1>2, ParsedIsTyped
<1> HIDE DEF p
<1>4. /\ j.kind = "import" /\ j.at = "nodes" /\ j.db = d /\ j.nodes = p.nodes
      /\ j.rels = p.rels /\ j.left = p.nodes /\ j.content = file.content
      /\ j.ins = {} /\ ~j.wiped
  BY DEF Idle
<1>5. j \in JobType
  BY <1>2, <1>3 DEF Idle, JobType, Stage, Transfers, FileFits, FileType
<1> HIDE DEF j
<1>6. JobFits(j) /\ Waiting(j) /\ j.kind \in Transfers
  BY <1>3, <1>4 DEF JobFits, Waiting, Transfers
<1> QED
  BY <1>1, <1>3, <1>4, <1>5, <1>6, BeginTransferKeeps

LEMMA BeginSeedKeeps ==
    ASSUME Inv, NEW o \in Operator, NEW d \in Db, NEW reset \in BOOLEAN,
           BeginSeed(o, d, reset)
    PROVE  Inv'
<1> DEFINE j == [Idle EXCEPT !.kind = "seed", !.db = d,
                             !.at = IF reset THEN "reset" ELSE "nodes",
                             !.nodes = FixtureNodes, !.rels = FixtureRelations,
                             !.left = FixtureNodes]
<1>1. Begin(o, j)
  BY DEF BeginSeed
<1>2. /\ j.kind = "seed" /\ j.at \in {"reset", "nodes"} /\ j.db = d
      /\ j.nodes = FixtureNodes /\ j.rels = FixtureRelations /\ j.left = FixtureNodes
      /\ j.content = None /\ j.ins = {} /\ ~j.wiped
  BY DEF Idle
<1>3. /\ FixtureNodes \subseteq NodeLine /\ FixtureRelations \subseteq EdgeLine
      /\ \A i \in FixtureNodes \cup FixtureRelations : i.project \in Project
  BY FixturesAreGlobal, GlobalIsAProject
<1>4. j \in JobType
  BY <1>3 DEF Idle, JobType, Stage, Transfers
<1> HIDE DEF j
<1>5. JobFits(j) /\ Waiting(j) /\ j.kind \in Transfers
  BY <1>2, <1>3 DEF JobFits, Waiting, Transfers
<1> QED
  BY <1>1, <1>2, <1>4, <1>5, BeginTransferKeeps

\* Fail and Exit.
LEMMA StoppingKeeps ==
    ASSUME Inv, NEW o \in Operator, Goto(o, Idle)
    PROVE  Inv'
<1>1. /\ job' = [job EXCEPT ![o] = Idle] /\ UNCHANGED <<rows, dead>>
      /\ UNCHANGED <<file, writes, jobs>>
  BY DEF Goto
<1>2. Idle \in JobType
  BY IdleIsAJob
<1>3. Good(Idle, rows[Idle.db], dead[Idle.db])
  BY IdleIsGood
<1>4. \A q \in Operator \ {o} : Apart(Idle, job[q]) /\ Apart(job[q], Idle)
  BY IdleIsApart DEF Inv, Good
<1>5. FileFits(file') /\ writes' \in 0..MaxWrites /\ jobs' \in 0..MaxJobs
  BY <1>1 DEF Inv
<1> QED
  BY <1>1, <1>2, <1>3, <1>4, <1>5, JobMoves
\* A transfer at work that goes on.
LEMMA TransferGoesOn ==
    ASSUME Inv, NEW o \in Operator, NEW K, NEW label, At(o, K, label),
           NEW j \in JobType, Goto(o, j), j.db = job[o].db, j.wiped = job[o].wiped,
           j.kind \in Transfers, JobFits(j),
           TransferFits(j, rows[j.db], dead[j.db]),
           \A q \in Operator \ {o} : job[q].db = j.db =>
              \A x \in j.ins \ job[o].ins, y \in job[q].ins : Key(x) # Key(y)
    PROVE  Inv'
<1>1. /\ job' = [job EXCEPT ![o] = j] /\ UNCHANGED <<rows, dead>>
      /\ UNCHANGED <<file, writes, jobs>>
  BY DEF Goto
<1>2. FileFits(file') /\ writes' \in 0..MaxWrites /\ jobs' \in 0..MaxJobs
  BY <1>1 DEF Inv
<1>3. Good(j, rows[j.db], dead[j.db])
  BY DEF Good, Transfers
<1>4. \A q \in Operator \ {o} : Apart(j, job[q]) /\ Apart(job[q], j)
  BY AtWorkStaysApart
<1> QED
  BY <1>1, <1>2, <1>3, <1>4, JobMoves

\* What is known of a transfer.
LEMMA TransferIsFit ==
    ASSUME Inv, NEW o \in Operator, job[o].kind \in Transfers
    PROVE  /\ job[o] \in JobType /\ JobFits(job[o]) /\ job[o].db \in Db
           /\ TransferFits(job[o], rows[job[o].db], dead[job[o].db])
           /\ Seen(job[o], rows[job[o].db]) \subseteq Row
<1>1. job[o] \in JobType /\ Good(job[o], rows[job[o].db], dead[job[o].db])
  BY DEF Inv
<1>2. JobFits(job[o]) /\ job[o].db \in Db
  BY <1>1 DEF Good, JobFits, Transfers
<1> QED
  BY <1>1, <1>2 DEF Good, Seen, JobType, Inv

LEMMA TruncateKeeps ==
    ASSUME Inv, NEW o \in Operator, Truncate(o)
    PROVE  Inv'
<1> DEFINE j == [job[o] EXCEPT !.wiped = TRUE, !.at = "nodes"]
           R == rows[job[o].db]
<1>1. job[o].kind = "seed" /\ job[o].at = "reset" /\ Goto(o, j)
  BY DEF Truncate, At
<1>2. /\ job[o] \in JobType /\ JobFits(job[o]) /\ job[o].db \in Db
      /\ TransferFits(job[o], R, dead[job[o].db])
  BY <1>1, TransferIsFit DEF Transfers
<1>3. Table(R, dead[job[o].db])
  BY <1>2 DEF Inv
<1>4. job[o].ins = {} /\ job[o].left = job[o].nodes
  BY <1>1, <1>2 DEF JobFits
<1> HIDE DEF R
<1>5. /\ j.kind = "seed" /\ j.at = "nodes" /\ j.db = job[o].db /\ j.wiped
      /\ j.ins = {} /\ j.left = j.nodes /\ j.nodes = job[o].nodes /\ j.rels = job[o].rels
      /\ j.content = job[o].content
  BY <1>1, <1>2, <1>4 DEF JobType
<1>6. j \in JobType
  BY <1>2 DEF JobType, Stage
<1> HIDE DEF j
<1>7. JobFits(j)
  BY <1>1, <1>2, <1>5 DEF JobFits, Transfers
<1>8. TransferFits(j, R, dead[job[o].db])
  <2>1. Seen(j, R) = {r \in R : r.tab = "sessions"}
    BY <1>5 DEF Seen
  <2>2. UniqueIn(Seen(j, R))
    BY <1>3, <2>1 DEF Table, UniqueIn
  <2>3. ReferencesIn(Seen(j, R))
    BY <2>1 DEF ReferencesIn, NodesOf
  <2>4. Landed(j, Seen(j, R), LiveSeen(j, R, dead[job[o].db]))
    BY <1>5 DEF Landed
  <2>5. j.content # None => Faithful(j.nodes, j.rels, j.content)
    BY <1>2, <1>5 DEF TransferFits
  <2> QED
    BY <1>5, <2>2, <2>3, <2>4, <2>5 DEF TransferFits
<1>9. Good(j, R, dead[job[o].db])
  BY <1>5, <1>7, <1>8 DEF Good, Transfers
<1>10. ASSUME NEW q \in Operator \ {o}
       PROVE  Apart(j, job[q]) /\ Apart(job[q], j)
  <2>1. JobFits(job[q])
    BY DEF Inv, Good
  <2>2. job[q].db = j.db => job[q].kind = "export" \/ Waiting(job[q])
    BY <1>5 DEF Truncate
  <2>3. job[q].db = j.db => job[q].ins = {} /\ ~job[q].wiped
    BY <2>1, <2>2 DEF JobFits, Waiting, Transfers
  <2>4. job[q].db = j.db /\ job[q].kind \in Transfers => Waiting(job[q])
    BY <2>2 DEF Transfers
  <2> QED
    BY <1>5, <2>3, <2>4 DEF Apart
<1>11. job' = [job EXCEPT ![o] = j] /\ UNCHANGED <<rows, dead, file, writes, jobs>>
  BY <1>1 DEF Goto
<1>12. FileFits(file') /\ writes' \in 0..MaxWrites /\ jobs' \in 0..MaxJobs
  BY <1>11 DEF Inv
<1>13. Good(j, rows[j.db], dead[j.db])
  BY <1>5, <1>9 DEF R
<1> QED
  BY <1>6, <1>10, <1>11, <1>12, <1>13, JobMoves

\* A loop that is over hands its items to the next one.
LEMMA LandedLoop ==
    ASSUME NEW i, NEW j, NEW S, NEW live, i.left = {}, Landed(i, S, live),
           j.nodes = i.nodes /\ j.rels = i.rels /\ j.kind = i.kind,
           \/ i.at = "nodes" /\ j.at = "texts" /\ j.left = j.nodes
           \/ i.at = "texts" /\ j.at = "links" /\ j.left = j.rels
           \/ i.at = "links" /\ j.at = "commit"
    PROVE  Landed(j, S, live)
<1>1. \A n : TextsLanded(i, n, S, live) => TextsLanded(j, n, S, live)
  BY DEF TextsLanded, Homonyms, Means
<1>2. \A r : LinkLanded(i, r, S, live) => LinkLanded(j, r, S, live)
  BY DEF LinkLanded, Homonyms, Means
<1> QED
  BY <1>1, <1>2 DEF Landed

LEMMA NextLoopKeeps ==
    ASSUME Inv, NEW o \in Operator, NextLoop(o)
    PROVE  Inv'
<1>1. PICK label \in {"nodes", "texts", "links"} : At(o, Transfers, label)
  BY DEF NextLoop, Transfers
<1>2. PICK j : /\ Goto(o, j)
               /\ \/ /\ job[o].at = "nodes"
                     /\ j = [job[o] EXCEPT !.at = "texts", !.left = job[o].nodes]
                  \/ /\ job[o].at = "texts"
                     /\ j = [job[o] EXCEPT !.at = "links", !.left = job[o].rels]
                  \/ /\ job[o].at = "links"
                     /\ j = [job[o] EXCEPT !.at = "commit"]
  BY <1>1 DEF NextLoop, At
<1>3. job[o].left = {} /\ job[o].kind \in Transfers
  BY <1>1 DEF NextLoop, At
<1> DEFINE R == rows[job[o].db]
           D == dead[job[o].db]
<1>4. job[o] \in JobType /\ JobFits(job[o]) /\ TransferFits(job[o], R, D)
  BY <1>3, TransferIsFit
<1>5. /\ j.kind = job[o].kind /\ j.db = job[o].db /\ j.wiped = job[o].wiped
      /\ j.ins = job[o].ins /\ j.nodes = job[o].nodes /\ j.rels = job[o].rels
      /\ j.content = job[o].content /\ j \in JobType
      /\ \/ job[o].at = "nodes" /\ j.at = "texts" /\ j.left = j.nodes
         \/ job[o].at = "texts" /\ j.at = "links" /\ j.left = j.rels
         \/ job[o].at = "links" /\ j.at = "commit"
  <2>1. /\ job[o].nodes \subseteq NodeId \cup NodeLine \cup EdgeLine
        /\ job[o].rels \subseteq NodeId \cup NodeLine \cup EdgeLine
    BY <1>4 DEF JobType
  <2>2. CASE job[o].at = "nodes" /\ j = [job[o] EXCEPT !.at = "texts", !.left = job[o].nodes]
    <3>1. j \in JobType
      BY <1>4, <2>1, <2>2 DEF JobType, Stage
    <3> QED
      BY <1>4, <2>2, <3>1 DEF JobType
  <2>3. CASE job[o].at = "texts" /\ j = [job[o] EXCEPT !.at = "links", !.left = job[o].rels]
    <3>1. j \in JobType
      BY <1>4, <2>1, <2>3 DEF JobType, Stage
    <3> QED
      BY <1>4, <2>3, <3>1 DEF JobType
  <2>4. CASE job[o].at = "links" /\ j = [job[o] EXCEPT !.at = "commit"]
    <3>1. j \in JobType
      BY <1>4, <2>4 DEF JobType, Stage
    <3> QED
      BY <1>4, <2>4, <3>1 DEF JobType
  <2> QED
    BY <1>2, <2>2, <2>3, <2>4
<1>6. j \in JobType
  BY <1>5
<1> HIDE DEF R, D
<1>7. JobFits(j)
  BY <1>3, <1>4, <1>5 DEF JobFits, Transfers
<1>8. TransferFits(j, R, D)
  <2>1. Seen(j, R) = Seen(job[o], R)
    BY <1>5 DEF Seen
  <2>2. LiveSeen(j, R, D) = LiveSeen(job[o], R, D)
    BY <1>5, <2>1 DEF LiveSeen
  <2>3. Landed(j, Seen(j, R), LiveSeen(j, R, D))
    BY <1>3, <1>4, <1>5, <2>1, <2>2, LandedLoop DEF TransferFits
  <2>4. \A x : FromFile(job[o], x) => FromFile(j, x)
    BY <1>5 DEF FromFile, Means
  <2> QED
    BY <1>4, <1>5, <2>1, <2>3, <2>4 DEF TransferFits
<1>9. TransferFits(j, rows[j.db], dead[j.db])
  BY <1>5, <1>8 DEF R, D
<1> QED
  BY <1>1, <1>2, <1>3, <1>5, <1>6, <1>7, <1>9, TransferGoesOn
-------------------------------------------------------------------------------
(* Transfers: their inserts.                                                   *)

\* The rows of X whose keys are free in S.
Free(X, S) == {x \in X : \A y \in S : Key(y) # Key(x)}

\* Rows a transfer may insert: of its file, with their nodes, none twice.
Insertable(j, X, S) ==
    /\ X \subseteq Row /\ UniqueIn(X)
    /\ \A x \in X : FromFile(j, x) /\ NodesOf(x) \subseteq IdsIn(S)

\* What a transfer sees once it has inserted the free rows of X.
LEMMA InsertedFits ==
    ASSUME NEW j, NEW R, NEW D, TransferFits(j, R, D), Seen(j, R) \subseteq Row,
           NEW X, Insertable(j, X, Seen(j, R)),
           NEW S, S = Seen(j, R) \cup Free(X, Seen(j, R)),
           NEW live, live = IdsIn(S \ (IF j.wiped THEN {} ELSE D))
    PROVE  /\ S \subseteq Row /\ UniqueIn(S) /\ ReferencesIn(S)
           /\ \A x \in X : \E y \in S : Key(y) = Key(x)
           /\ Landed(j, S, live)
           /\ \A id \in IdsIn(Seen(j, R)) : id \in IdsIn(S)
                                            /\ (id \in live => id \in LiveSeen(j, R, D))
<1> DEFINE old == Seen(j, R)
           D0 == IF j.wiped THEN {} ELSE D
<1>1. UniqueIn(old) /\ ReferencesIn(old) /\ Landed(j, old, IdsIn(old \ D0))
  BY DEF TransferFits, LiveSeen
<1> HIDE DEF old, D0
<1>2. S = old \cup Free(X, old) /\ X \subseteq Row /\ UniqueIn(X)
  BY DEF old, Insertable
<1>3. UniqueIn(S)
  BY <1>1, <1>2 DEF UniqueIn, Free
<1>4. S \subseteq Row
  BY <1>2 DEF old, Free
<1>5. ReferencesIn(S)
  <2>1. \A x \in Free(X, old) : \A id \in NodesOf(x) : HasNode(old, id)
    BY NodeIsThere DEF Insertable, Free, old
  <2> QED
    BY <1>1, <1>2, <2>1 DEF ReferencesIn, HasNode
<1>6. \A x \in X : \E y \in S : Key(y) = Key(x)
  BY <1>2 DEF Free
<1>7. D0 \cap old \subseteq D0 /\ old \subseteq S
  BY <1>2
<1>8. Landed(j, S, IdsIn(S \ D0))
  BY <1>1, <1>3, <1>4, <1>7, LandedGrows
<1>9. ASSUME NEW id \in IdsIn(old)
      PROVE  id \in IdsIn(S) /\ (id \in IdsIn(S \ D0) => id \in IdsIn(old \ D0))
  <2>1. HasNode(old, id)
    BY <1>9, NodeIsThere
  <2>2. id \in IdsIn(S \ D0) => id \in IdsIn(old \ D0)
    BY <1>3, <1>4, <1>7, <2>1, LiveBefore
  <2> QED
    BY <1>7, <1>9, <2>2 DEF IdsIn
<1> QED
  BY <1>3, <1>4, <1>5, <1>6, <1>8, <1>9 DEF old, D0, LiveSeen

\* One item less to do.
LEMMA LandedItem ==
    ASSUME NEW i, NEW j, NEW n, NEW S, NEW live, Landed(i, S, live),
           j.nodes = i.nodes /\ j.rels = i.rels /\ j.kind = i.kind /\ j.at = i.at,
           j.left = i.left \ {n},
           i.at = "nodes" => HasNode(S, Own(n, n.name)),
           i.at = "texts" => TextsLanded(i, n, S, live),
           i.at = "links" => LinkLanded(i, n, S, live)
    PROVE  Landed(j, S, live)
<1>1. \A m : TextsLanded(i, m, S, live) => TextsLanded(j, m, S, live)
  BY DEF TextsLanded, Homonyms, Means
<1>2. \A r : LinkLanded(i, r, S, live) => LinkLanded(j, r, S, live)
  BY DEF LinkLanded, Homonyms, Means
<1> QED
  BY <1>1, <1>2 DEF Landed

\* An item of a loop, with the rows X its statements insert.
LEMMA InsertKeeps ==
    ASSUME Inv, NEW o \in Operator, NEW label \in {"nodes", "texts", "links"},
           At(o, Transfers, label), NEW n \in job[o].left,
           NEW S, S = Seen(job[o], rows[job[o].db]),
           NEW D, D = IF job[o].wiped THEN {} ELSE dead[job[o].db],
           NEW X, Insertable(job[o], X, S),
           Insert(o, X, [job[o] EXCEPT !.left = @ \ {n}]),
           NEW S2, S2 = S \cup Free(X, S),
           label = "nodes" => HasNode(S2, Own(n, n.name)),
           label = "texts" => TextsLanded(job[o], n, S2, IdsIn(S2 \ D)),
           label = "links" => LinkLanded(job[o], n, S2, IdsIn(S2 \ D))
    PROVE  Inv'
<1> DEFINE new == Free(X, S)
           j == [job[o] EXCEPT !.left = @ \ {n}, !.ins = @ \cup new]
           R == rows[job[o].db]
<1>1. job[o].kind \in Transfers /\ job[o].at = label
  BY DEF At
<1>2. /\ job[o] \in JobType /\ JobFits(job[o]) /\ job[o].db \in Db
      /\ TransferFits(job[o], R, dead[job[o].db]) /\ S \subseteq Row
  BY <1>1, TransferIsFit
<1>3. S = View(o)
  BY SeenIsView
<1>4. /\ Goto(o, j)
      /\ \A x \in X : Unclaimed(x, job[o].db, Operator \ {o})
  <2>1. [[job[o] EXCEPT !.left = @ \ {n}] EXCEPT !.ins = @ \cup new] = j
    BY <1>2 DEF JobType
  <2>2. [job[o] EXCEPT !.left = @ \ {n}].db = job[o].db
    BY <1>2 DEF JobType
  <2> QED
    BY <1>3, <2>1, <2>2 DEF Insert, Free
<1>5. new \subseteq X /\ new \subseteq Row
  BY DEF Free, Insertable
<1>6. /\ S2 \subseteq Row /\ UniqueIn(S2) /\ ReferencesIn(S2)
      /\ Landed(job[o], S2, IdsIn(S2 \ D))
  <2>1. TransferFits(job[o], R, dead[job[o].db]) /\ Seen(job[o], R) \subseteq Row
    BY <1>2
  <2>2. Insertable(job[o], X, Seen(job[o], R))
    OBVIOUS
  <2>3. S2 = Seen(job[o], R) \cup Free(X, Seen(job[o], R))
    OBVIOUS
  <2> DEFINE D0 == dead[job[o].db]
             live == IdsIn(S2 \ (IF job[o].wiped THEN {} ELSE D0))
  <2>4. live = IdsIn(S2 \ D)
    OBVIOUS
  <2>5. TransferFits(job[o], R, D0)
    BY <2>1
  <2> HIDE DEF R, D0
  <2>6. /\ S2 \subseteq Row /\ UniqueIn(S2) /\ ReferencesIn(S2)
        /\ Landed(job[o], S2, live)
    BY <2>1, <2>2, <2>3, <2>5, InsertedFits
  <2> QED
    BY <2>4, <2>6
<1> HIDE DEF new, R
<1>7. /\ j.kind = job[o].kind /\ j.db = job[o].db /\ j.wiped = job[o].wiped
      /\ j.ins = job[o].ins \cup new /\ j.nodes = job[o].nodes /\ j.rels = job[o].rels
      /\ j.content = job[o].content /\ j.at = job[o].at /\ j.left = job[o].left \ {n}
  BY <1>2 DEF JobType
<1>8. j \in JobType
  BY <1>2, <1>5 DEF JobType
<1> HIDE DEF j
<1>9. JobFits(j)
  BY <1>1, <1>2, <1>7 DEF JobFits, Transfers
<1>10. Seen(j, R) = S2
  BY <1>7 DEF Seen, new, R
<1>11. LiveSeen(j, R, dead[job[o].db]) = IdsIn(S2 \ D)
  BY <1>7, <1>10 DEF LiveSeen
<1>12. Landed(j, S2, IdsIn(S2 \ D))
  BY <1>1, <1>6, <1>7, LandedItem
<1>13. \A x \in j.ins : FromFile(j, x)
  <2>1. \A x : FromFile(job[o], x) => FromFile(j, x)
    BY <1>7 DEF FromFile, Means
  <2> QED
    BY <1>2, <1>5, <1>7, <2>1 DEF TransferFits, Insertable
<1>14. TransferFits(j, rows[j.db], dead[j.db])
  BY <1>2, <1>6, <1>7, <1>10, <1>11, <1>12, <1>13 DEF TransferFits, R
<1>15. \A q \in Operator \ {o} : job[q].db = j.db =>
          \A x \in j.ins \ job[o].ins, y \in job[q].ins : Key(x) # Key(y)
  BY <1>4, <1>5, <1>7 DEF Unclaimed
<1> QED
  BY <1>1, <1>4, <1>7, <1>8, <1>9, <1>14, <1>15, TransferGoesOn

\* A statement that finds no node inserts nothing.
LEMMA SkipInsertsNothing ==
    ASSUME NEW o, NEW j \in JobType, Goto(o, j)
    PROVE  Insert(o, {}, j)
<1>1. [j EXCEPT !.ins = @ \cup {x \in {} : \A y \in View(o) : Key(y) # Key(x)}] = j
  BY DEF JobType
<1> QED
  BY <1>1 DEF Insert
LEMMA InsertNodeKeeps ==
    ASSUME Inv, NEW o \in Operator, InsertNode(o)
    PROVE  Inv'
<1>1. At(o, Transfers, "nodes") /\ job[o].kind \in Transfers /\ job[o].at = "nodes"
  BY DEF InsertNode, At, Transfers
<1>2. PICK n \in job[o].left : Insert(o, {Node(n.project, n.name, None)},
                                      [job[o] EXCEPT !.left = @ \ {n}])
  BY DEF InsertNode
<1> DEFINE S == Seen(job[o], rows[job[o].db])
           D == IF job[o].wiped THEN {} ELSE dead[job[o].db]
           X == {Node(n.project, n.name, None)}
           S2 == S \cup Free(X, S)
<1>3. job[o] \in JobType /\ JobFits(job[o]) /\ S \subseteq Row
  BY <1>1, TransferIsFit
<1>4. n \in job[o].nodes /\ n \in NodeLine /\ n.project \in Project
  BY <1>1, <1>3 DEF JobFits, JobType
<1>5. X \subseteq Row
  BY <1>4 DEF Node, Row, NodeRow, NodeLine
<1>6. Insertable(job[o], X, S)
  <2>1. UniqueIn(X)
    BY DEF UniqueIn
  <2>2. FromFile(job[o], Node(n.project, n.name, None))
    BY <1>4 DEF FromFile
  <2>3. NodesOf(Node(n.project, n.name, None)) = {}
    BY DEF NodesOf, Node
  <2> QED
    BY <1>5, <2>1, <2>2, <2>3 DEF Insertable
<1>7. HasNode(S2, Own(n, n.name))
  <2>1. \E y \in S2 : Key(y) = Key(Node(n.project, n.name, None))
    BY DEF Free
  <2>2. S2 \subseteq Row
    BY <1>3, <1>5 DEF Free
  <2> HIDE DEF S2
  <2> QED
    BY <2>1, <2>2, KeyTells DEF HasNode, Own
<1> HIDE DEF S, D, X, S2
<1>8. /\ S = Seen(job[o], rows[job[o].db])
      /\ D = IF job[o].wiped THEN {} ELSE dead[job[o].db]
      /\ S2 = S \cup Free(X, S)
  BY DEF S, D, S2
<1>9. Insert(o, X, [job[o] EXCEPT !.left = @ \ {n}])
  BY <1>2 DEF X
<1> QED
  BY <1>1, <1>6, <1>7, <1>8, <1>9, InsertKeeps

\* What a transfer resolves a name to: the live nodes the item may mean.
LEMMA ResolvedMeans ==
    ASSUME NEW o, job[o].kind \in Transfers, NEW i, NEW name
    PROVE  /\ \A id \in Resolve(o, i, name) :
                 id \in LiveIds(o) /\ Means(job[o], i, name, id)
           /\ Own(i, name) \in LiveIds(o) => Resolve(o, i, name) # {}
<1>1. \A id \in Resolve(o, i, name) :
         id \in LiveIds(o) /\ Means(job[o], i, name, id)
  BY DEF Resolve, ResolveFixture, ResolveImport, Means
<1>2. ASSUME Own(i, name) \in LiveIds(o) PROVE Own(i, name) \in Resolve(o, i, name)
  BY <1>2 DEF Resolve, ResolveFixture, ResolveImport, Own
<1> QED
  BY <1>1, <1>2

LEMMA InsertObservationsKeeps ==
    ASSUME Inv, NEW o \in Operator, InsertObservations(o)
    PROVE  Inv'
<1>1. At(o, Transfers, "texts") /\ job[o].kind \in Transfers /\ job[o].at = "texts"
  BY DEF InsertObservations, At, Transfers
<1> DEFINE on(n) == [job[o] EXCEPT !.left = @ \ {n}]
<1>2. PICK n \in job[o].left :
         \/ Resolve(o, n, n.name) = {} /\ Goto(o, on(n))
         \/ \E id \in Resolve(o, n, n.name) : Insert(o, {Obs(id, t) : t \in n.texts}, on(n))
  BY DEF InsertObservations
<1> DEFINE R == rows[job[o].db]
           S == Seen(job[o], R)
           D == IF job[o].wiped THEN {} ELSE dead[job[o].db]
           live == IdsIn(S \ D)
<1>3. /\ job[o] \in JobType /\ JobFits(job[o]) /\ S \subseteq Row
      /\ TransferFits(job[o], R, dead[job[o].db])
  BY <1>1, TransferIsFit
<1>4. n \in job[o].nodes /\ n \in NodeLine /\ n.project \in Project
  BY <1>1, <1>3 DEF JobFits, JobType
<1>5. on(n) \in JobType
  BY <1>3 DEF JobType
<1>6. LiveIds(o) = live /\ live \subseteq IdsIn(S)
  BY SeenIsView DEF LiveSeen, IdsIn
<1>7. IdsIn(S) \subseteq NodeId
  BY <1>3, IdsTyped
<1> HIDE DEF S, D, R, live, on
<1>8. ASSUME NEW X, Insertable(job[o], X, S), Insert(o, X, on(n)),
             NEW S2, S2 = S \cup Free(X, S), TextsLanded(job[o], n, S2, IdsIn(S2 \ D))
      PROVE  Inv'
  <2>1. S = Seen(job[o], rows[job[o].db]) /\ D = IF job[o].wiped THEN {} ELSE dead[job[o].db]
    BY DEF S, R, D
  <2>2. Insert(o, X, [job[o] EXCEPT !.left = @ \ {n}])
    BY <1>8 DEF on
  <2> QED
    BY <1>1, <1>8, <2>1, <2>2, InsertKeeps
<1>9. CASE Resolve(o, n, n.name) = {} /\ Goto(o, on(n))
  <2>1. Insert(o, {}, on(n))
    BY <1>5, <1>9, SkipInsertsNothing
  <2>2. Insertable(job[o], {}, S)
    BY DEF Insertable, UniqueIn
  <2>3. S = S \cup Free({}, S)
    BY DEF Free
  <2>4. Own(n, n.name) \notin live
    BY <1>1, <1>6, <1>9, ResolvedMeans
  <2>5. TextsLanded(job[o], n, S, IdsIn(S \ D))
    BY <2>4 DEF TextsLanded, live
  <2> QED
    BY <1>8, <2>1, <2>2, <2>3, <2>5
<1>10. ASSUME NEW id \in Resolve(o, n, n.name),
              Insert(o, {Obs(id, t) : t \in n.texts}, on(n))
       PROVE  Inv'
  <2> DEFINE X == {Obs(id, t) : t \in n.texts}
             S2 == S \cup Free(X, S)
  <2>1. id \in IdsIn(S) /\ Means(job[o], n, n.name, id) /\ id \in NodeId
    BY <1>1, <1>6, <1>7, ResolvedMeans
  <2>2. X \subseteq Row
    <3>1. n.texts \subseteq Text
      BY <1>4 DEF NodeLine
    <3> QED
      BY <2>1, <3>1 DEF Obs, Row, ObsRow
  <2>3. Insertable(job[o], X, S)
    <3>1. UniqueIn(X)
      BY DEF UniqueIn, Key, Obs
    <3>2. \A x \in X : FromFile(job[o], x)
      BY <1>4, <2>1 DEF FromFile
    <3>3. \A x \in X : NodesOf(x) = {id}
      BY DEF NodesOf, Obs
    <3> QED
      BY <2>1, <2>2, <3>1, <3>2, <3>3 DEF Insertable
  <2>4. TextsLanded(job[o], n, S2, IdsIn(S2 \ D))
    <3>1. id \in Homonyms(job[o], n, n.name, S2)
      BY <2>1 DEF Homonyms, IdsIn
    <3>2. S2 \subseteq Row
      BY <1>3, <2>2 DEF Free
    <3>3. ASSUME NEW t \in n.texts PROVE Obs(id, t) \in S2
      <4>1. \E y \in S2 : Key(y) = Key(Obs(id, t))
        BY DEF Free
      <4> HIDE DEF S2
      <4> QED
        BY <3>2, <4>1, KeyTells
    <3> HIDE DEF S2
    <3> QED
      BY <3>1, <3>3 DEF TextsLanded
  <2> HIDE DEF S2, X
  <2>5. Insert(o, X, on(n)) /\ S2 = S \cup Free(X, S)
    BY <1>10 DEF X, S2
  <2> QED
    BY <1>8, <2>3, <2>4, <2>5
<1> QED
  BY <1>2, <1>9, <1>10

LEMMA InsertRelationKeeps ==
    ASSUME Inv, NEW o \in Operator, InsertRelation(o)
    PROVE  Inv'
<1>1. At(o, Transfers, "links") /\ job[o].kind \in Transfers /\ job[o].at = "links"
  BY DEF InsertRelation, At, Transfers
<1> DEFINE on(r) == [job[o] EXCEPT !.left = @ \ {r}]
<1>2. PICK r \in job[o].left :
         \/ {} \in {Resolve(o, r, r.from), Resolve(o, r, r.to)} /\ Goto(o, on(r))
         \/ \E f \in Resolve(o, r, r.from), t \in Resolve(o, r, r.to) :
               Insert(o, {Rel(f, t, r.type, Global)}, on(r))
  BY DEF InsertRelation
<1> DEFINE R == rows[job[o].db]
           S == Seen(job[o], R)
           D == IF job[o].wiped THEN {} ELSE dead[job[o].db]
           live == IdsIn(S \ D)
<1>3. /\ job[o] \in JobType /\ JobFits(job[o]) /\ S \subseteq Row
      /\ TransferFits(job[o], R, dead[job[o].db])
  BY <1>1, TransferIsFit
<1>4. r \in job[o].rels /\ r \in EdgeLine /\ r.project \in Project
  BY <1>1, <1>3 DEF JobFits, JobType
<1>5. on(r) \in JobType
  BY <1>3 DEF JobType
<1>6. LiveIds(o) = live /\ live \subseteq IdsIn(S)
  BY SeenIsView DEF LiveSeen, IdsIn
<1>7. IdsIn(S) \subseteq NodeId
  BY <1>3, IdsTyped
<1> HIDE DEF S, D, R, live, on
<1>8. ASSUME NEW X, Insertable(job[o], X, S), Insert(o, X, on(r)),
             NEW S2, S2 = S \cup Free(X, S), LinkLanded(job[o], r, S2, IdsIn(S2 \ D))
      PROVE  Inv'
  <2>1. S = Seen(job[o], rows[job[o].db]) /\ D = IF job[o].wiped THEN {} ELSE dead[job[o].db]
    BY DEF S, R, D
  <2>2. Insert(o, X, [job[o] EXCEPT !.left = @ \ {r}])
    BY <1>8 DEF on
  <2> QED
    BY <1>1, <1>8, <2>1, <2>2, InsertKeeps
<1>9. CASE {} \in {Resolve(o, r, r.from), Resolve(o, r, r.to)} /\ Goto(o, on(r))
  <2>1. Insert(o, {}, on(r))
    BY <1>5, <1>9, SkipInsertsNothing
  <2>2. Insertable(job[o], {}, S)
    BY DEF Insertable, UniqueIn
  <2>3. S = S \cup Free({}, S)
    BY DEF Free
  <2>4. ~({Own(r, r.from), Own(r, r.to)} \subseteq live)
    BY <1>1, <1>6, <1>9, ResolvedMeans
  <2>5. LinkLanded(job[o], r, S, IdsIn(S \ D))
    BY <2>4 DEF LinkLanded, live
  <2> QED
    BY <1>8, <2>1, <2>2, <2>3, <2>5
<1>10. ASSUME NEW f \in Resolve(o, r, r.from), NEW t \in Resolve(o, r, r.to),
              Insert(o, {Rel(f, t, r.type, Global)}, on(r))
       PROVE  Inv'
  <2> DEFINE x == Rel(f, t, r.type, Global)
             X == {x}
             S2 == S \cup Free(X, S)
  <2>1. /\ f \in IdsIn(S) /\ Means(job[o], r, r.from, f) /\ f \in NodeId
        /\ t \in IdsIn(S) /\ Means(job[o], r, r.to, t) /\ t \in NodeId
    BY <1>1, <1>6, <1>7, ResolvedMeans
  <2>2. X \subseteq Row
    BY <1>4, <2>1, GlobalIsAProject DEF EdgeLine, Rel, Row, RelRow
  <2>3. Insertable(job[o], X, S)
    <3>1. UniqueIn(X)
      BY DEF UniqueIn
    <3>2. FromFile(job[o], x)
      BY <1>4, <2>1 DEF FromFile
    <3>3. NodesOf(x) = {f, t}
      BY DEF NodesOf, Rel
    <3> QED
      BY <2>1, <2>2, <3>1, <3>2, <3>3 DEF Insertable
  <2>4. LinkLanded(job[o], r, S2, IdsIn(S2 \ D))
    <3>1. f \in Homonyms(job[o], r, r.from, S2) /\ t \in Homonyms(job[o], r, r.to, S2)
      BY <2>1 DEF Homonyms, IdsIn
    <3>2. \E y \in S2 : Key(y) = Key(x)
      BY DEF Free
    <3> HIDE DEF S2
    <3> QED
      BY <3>1, <3>2 DEF LinkLanded
  <2> HIDE DEF S2
  <2>5. Insert(o, X, on(r)) /\ S2 = S \cup Free(X, S)
    BY <1>10 DEF S2
  <2> HIDE DEF X
  <2> QED
    BY <1>8, <2>3, <2>4, <2>5
<1> QED
  BY <1>2, <1>9, <1>10
-------------------------------------------------------------------------------
(* Commits.                                                                    *)

\* What an export read stays true: it has seen more since, and less is steady.
LEMMA ReadingStaysTrue ==
    ASSUME NEW N, NEW seen, NEW steady, NEW seen2, NEW steady2,
           seen \subseteq seen2, steady2 \subseteq steady,
           NodesOfTheirTime(N, seen, steady)
    PROVE  NodesOfTheirTime(N, seen2, steady2)
<1>1. \A id : TextsIn(seen, id) \subseteq TextsIn(seen2, id)
              /\ TextsIn(steady2, id) \subseteq TextsIn(steady, id)
  BY DEF TextsIn
<1>2. \A id : HasNode(seen, id) => HasNode(seen2, id)
  BY DEF HasNode
<1> QED
  BY <1>1, <1>2 DEF NodesOfTheirTime

\* The export i once it has witnessed a commit, L the live rows after it.
After(i, L, truncated) ==
    [i EXCEPT !.seen = @ \cup L,
              !.steady = IF truncated THEN {} ELSE @ \cap L,
              !.stale = @ \/ (truncated /\ i.at = "texts")]

LEMMA WitnessFits ==
    ASSUME NEW i, NEW L0, NEW L, NEW j, NEW truncated \in BOOLEAN, i \in JobType,
           L \subseteq Row, j = After(i, L, truncated),
           i.kind = "export", JobFits(i), ExportFits(i, L0), i.at = "done" => Told(i)
    PROVE  /\ j \in JobType /\ j.kind = "export" /\ j.db = i.db /\ j.ins = i.ins
           /\ j.wiped = i.wiped /\ j.at = i.at /\ JobFits(j) /\ ExportFits(j, L)
           /\ j.at = "done" => Told(j)
<1>1. /\ j.kind = i.kind /\ j.db = i.db /\ j.ins = i.ins /\ j.wiped = i.wiped
      /\ j.at = i.at /\ j.left = i.left /\ j.nodes = i.nodes /\ j.rels = i.rels
      /\ j.project = i.project /\ j.seen = i.seen \cup L
      /\ j.steady = (IF truncated THEN {} ELSE i.steady \cap L)
      /\ j.stale = (i.stale \/ (truncated /\ i.at = "texts"))
  BY DEF JobType, After
<1>2. j \in JobType
  BY DEF JobType, After
<1>3. /\ i.seen \subseteq j.seen /\ j.steady \subseteq i.steady
      /\ L \subseteq j.seen /\ j.steady \subseteq L
  BY <1>1
<1>4. JobFits(j)
  BY <1>1 DEF JobFits, Transfers
<1>5. NodesOfTheirTime(j.nodes, j.seen, j.steady)
  BY <1>1, <1>3, ReadingStaysTrue DEF ExportFits
<1>6. IdsIn(i.seen) \subseteq IdsIn(j.seen) /\ IdsIn(j.steady) \subseteq IdsIn(i.steady)
  BY <1>3 DEF IdsIn
<1>7. \A id : Exported(i, id) => Exported(j, id)
  BY <1>1 DEF Exported
<1>8. j.steady \subseteq j.seen /\ (j.stale => j.steady = {})
  BY <1>1 DEF ExportFits, JobType
<1> HIDE DEF JobType
<1>9. ExportFits(j, L)
  <2>1. j.at = "texts" =>
           /\ j.left \subseteq {id \in IdsIn(j.seen) : InScope(id.project, j.project)}
           /\ \A id \in {k \in IdsIn(j.steady) : InScope(k.project, j.project)} :
                 id \in j.left \/ Exported(j, id)
    BY <1>1, <1>6, <1>7 DEF ExportFits
  <2>2. \A n \in j.nodes : n.project \in Project /\ ~n.deleted
                           /\ InScope(n.project, j.project)
    BY <1>1 DEF ExportFits
  <2>3. /\ j.at \in {"nodes", "texts", "done"}
        /\ j.at = "nodes" => j.nodes = {}
    BY <1>1 DEF ExportFits
  <2> QED
    BY <1>3, <1>5, <1>8, <2>1, <2>2, <2>3 DEF ExportFits
<1>10. ASSUME j.at = "done" PROVE Told(j)
  <2>1. Told(i)
    BY <1>1, <1>10
  <2>2. \A id : HasNode(i.seen, id) => HasNode(j.seen, id)
    BY <1>3 DEF HasNode
  <2>3. {x \in Content(j.steady, j.project) : x.tab = "relations"}
          \subseteq Content(i.steady, i.project)
    BY <1>1, <1>3, <1>6 DEF Content
  <2>4. OfTab(Content(j.steady, j.project), "relations")
          \subseteq OfTab(Content(i.steady, i.project), "relations")
    BY <2>3 DEF OfTab
  <2>5. \A r \in j.rels : \E x \in j.seen :
           Names(r, x) /\ HasNode(j.seen, x.from) /\ HasNode(j.seen, x.to)
    BY <1>1, <1>3, <2>1, <2>2 DEF Told
  <2>6. \A id \in IdsIn(j.steady) : InScope(id.project, j.project) => Exported(j, id)
    BY <1>1, <1>6, <1>7, <2>1 DEF Told
  <2>7. \A x \in OfTab(Content(j.steady, j.project), "relations") :
           \E r \in j.rels : Names(r, x)
    BY <1>1, <2>1, <2>4 DEF Told
  <2> QED
    BY <1>5, <2>5, <2>6, <2>7 DEF Told
<1> QED
  BY <1>1, <1>2, <1>4, <1>9, <1>10

\* A transfer while another transaction commits: the tables have grown, by keys
\* it does not hold, or it has not begun.
LEMMA BystanderFits ==
    ASSUME NEW j, NEW R, NEW D, NEW R2, NEW D2, TransferFits(j, R, D), JobFits(j),
           j.ins \subseteq Row, Table(R2, D2),
           \/ /\ ~j.wiped /\ R \subseteq R2 /\ D \subseteq D2
              /\ \A x \in j.ins, y \in R2 \ R : Key(x) # Key(y)
           \/ Waiting(j)
    PROVE  TransferFits(j, R2, D2)
<1>1. CASE Waiting(j)
  BY <1>1, StartFits DEF Waiting, TransferFits
<1>2. CASE /\ ~j.wiped /\ R \subseteq R2 /\ D \subseteq D2
           /\ \A x \in j.ins, y \in R2 \ R : Key(x) # Key(y)
  <2> DEFINE S == j.ins \cup R
             S2 == j.ins \cup R2
  <2>1. /\ Seen(j, R) = S /\ LiveSeen(j, R, D) = IdsIn(S \ D)
        /\ Seen(j, R2) = S2 /\ LiveSeen(j, R2, D2) = IdsIn(S2 \ D2)
    BY <1>2 DEF Seen, LiveSeen
  <2>2. UniqueIn(S) /\ ReferencesIn(S) /\ Landed(j, S, IdsIn(S \ D))
    BY <2>1 DEF TransferFits
  <2>3. UniqueIn(R2) /\ ReferencesIn(R2) /\ R2 \subseteq Row
    BY DEF Table
  <2>4. S \subseteq S2 /\ S2 \subseteq Row /\ D \cap S \subseteq D2
    BY <1>2, <2>3
  <2>5. UniqueIn(S2)
    <3> SUFFICES ASSUME NEW x \in S2, NEW y \in S2, Key(x) = Key(y)
                 PROVE  x = y
      BY DEF UniqueIn
    <3>1. CASE x \in R2 /\ y \in R2
      BY <2>3, <3>1 DEF UniqueIn
    <3>2. CASE x \in S /\ y \in S
      BY <2>2, <3>2 DEF UniqueIn
    <3>3. CASE x \in j.ins /\ y \in R2 \ R
      BY <1>2, <3>3
    <3>4. CASE y \in j.ins /\ x \in R2 \ R
      BY <1>2, <3>4
    <3> QED
      BY <3>1, <3>2, <3>3, <3>4
  <2>6. ReferencesIn(S2)
    BY <2>2, <2>3, <2>4 DEF ReferencesIn, HasNode
  <2> HIDE DEF S, S2
  <2>7. Landed(j, S2, IdsIn(S2 \ D2))
    BY <2>2, <2>4, <2>5, LandedGrows
  <2> QED
    BY <2>1, <2>5, <2>6, <2>7 DEF TransferFits
<1> QED
  BY <1>1, <1>2
\* The jobs J are those of the state but for the one that commits to d.
LEMMA StoreKeeps ==
    ASSUME Inv, NEW d \in Db, NEW R, NEW D, NEW J \in [Operator -> JobType],
           NEW truncated \in BOOLEAN, Store(d, R, D, J, truncated), Table(R, D),
           UNCHANGED file, writes' \in 0..MaxWrites, jobs' \in 0..MaxJobs,
           \A q \in Operator : JobFits(J[q]),
           \A q \in Operator : J[q].db = d /\ J[q].kind \in Transfers =>
                                  TransferFits(J[q], R, D),
           \A q \in Operator : J[q].db # d \/ J[q].kind = "export" => J[q] = job[q],
           \A p, q \in Operator : p # q => Apart(J[p], J[q])
    PROVE  Inv'
<1> DEFINE live == R \ D
           after(i) == After(i, live, truncated)
<1>1. /\ rows' = [rows EXCEPT ![d] = R] /\ dead' = [dead EXCEPT ![d] = D]
      /\ job' = [o \in Operator |-> IF J[o].kind = "export" /\ J[o].db = d
                                    THEN after(J[o]) ELSE J[o]]
  BY DEF Store, Witnessed, After
<1>2. R \subseteq Row /\ D \subseteq R
  BY DEF Table
<1>3. /\ rows' \in [Db -> SUBSET Row] /\ dead' \in [Db -> SUBSET Row]
      /\ \A e \in Db : Table(rows'[e], dead'[e])
  <2>1. rows'[d] = R /\ dead'[d] = D
    BY <1>1 DEF Inv
  <2>2. \A e \in Db \ {d} : rows'[e] = rows[e] /\ dead'[e] = dead[e]
    BY <1>1 DEF Inv
  <2>3. \A e \in Db : Table(rows'[e], dead'[e])
    BY <2>1, <2>2 DEF Inv
  <2> QED
    BY <1>1, <1>2, <2>3 DEF Inv
<1> HIDE DEF after
<1>4. ASSUME NEW q \in Operator, J[q].kind = "export", J[q].db = d
      PROVE  /\ job'[q] \in JobType /\ job'[q].kind = "export" /\ job'[q].db = d
             /\ job'[q].ins = J[q].ins /\ job'[q].wiped = J[q].wiped /\ JobFits(job'[q])
             /\ ExportFits(job'[q], live) /\ (job'[q].at = "done" => Told(job'[q]))
  <2>1. J[q] = job[q] /\ J[q] \in JobType
    BY <1>4
  <2>2. Good(J[q], rows[d], dead[d])
    BY <1>4, <2>1 DEF Inv
  <2>3. ExportFits(J[q], rows[d] \ dead[d]) /\ (J[q].at = "done" => Told(J[q]))
    BY <1>4, <2>2 DEF Good
  <2>4. job'[q] = after(J[q])
    BY <1>1, <1>4
  <2>5. live \subseteq Row
    BY <1>2
  <2> DEFINE i == J[q]
             j == after(i)
             L0 == rows[d] \ dead[d]
  <2>6. /\ i \in JobType /\ i.kind = "export" /\ JobFits(i)
        /\ ExportFits(i, L0)
        /\ i.at = "done" => Told(i)
    BY <1>4, <2>1, <2>3
  <2>7. j = After(i, live, truncated)
    BY DEF after
  <2> HIDE DEF i, j, live, L0
  <2>8. /\ j \in JobType /\ j.kind = "export" /\ j.db = i.db /\ j.ins = i.ins
        /\ j.wiped = i.wiped /\ JobFits(j) /\ ExportFits(j, live)
        /\ j.at = "done" => Told(j)
    BY <2>5, <2>6, <2>7, WitnessFits
  <2> QED
    BY <1>4, <2>4, <2>8 DEF i, j
<1>5. ASSUME NEW q \in Operator, ~(J[q].kind = "export" /\ J[q].db = d)
      PROVE  job'[q] = J[q]
  BY <1>1, <1>5
<1>6. \A q \in Operator : /\ job'[q] \in JobType /\ job'[q].kind = J[q].kind
                          /\ job'[q].db = J[q].db /\ job'[q].ins = J[q].ins
                          /\ job'[q].wiped = J[q].wiped
  BY <1>4, <1>5
<1>7. job' \in [Operator -> JobType]
  BY <1>1, <1>6
<1>8. ASSUME NEW q \in Operator
      PROVE  Good(job'[q], rows'[job'[q].db], dead'[job'[q].db])
  <2>1. rows'[d] = R /\ dead'[d] = D
    BY <1>1 DEF Inv
  <2>2. CASE J[q].kind = "export" /\ J[q].db = d
    BY <1>4, <2>1, <2>2 DEF Good, Transfers
  <2>3. CASE J[q].db = d /\ J[q].kind # "export"
    <3>1. job'[q] = J[q]
      BY <1>5, <2>3
    <3> QED
      BY <2>1, <2>3, <3>1 DEF Good
  <2>4. CASE J[q].db # d
    <3>1. job'[q] = job[q] /\ job[q].db # d
      BY <1>5, <2>4
    <3>2. Good(job[q], rows[job[q].db], dead[job[q].db])
      BY DEF Inv
    <3>3. CASE job[q].db \in Db
      BY <1>1, <3>1, <3>2, <3>3 DEF Inv
    <3>4. CASE job[q].db \notin Db
      BY <3>1, <3>2, <3>4 DEF Good, JobFits, Transfers
    <3> QED
      BY <3>3, <3>4
  <2> QED
    BY <2>2, <2>3, <2>4
<1>9. ASSUME NEW p \in Operator, NEW q \in Operator, p # q
      PROVE  Apart(job'[p], job'[q])
  <2>1. Apart(J[p], J[q])
    BY <1>9
  <2>2. job'[q].kind \in Transfers => job'[q] = J[q]
    BY <1>5, <1>6 DEF Transfers
  <2> QED
    BY <1>6, <2>1, <2>2 DEF Apart
<1>10. FileFits(file')
  BY DEF Inv
<1> QED
  BY <1>3, <1>7, <1>8, <1>9, <1>10 DEF Inv

LEMMA WriteKeeps ==
    ASSUME Inv, NEW d \in Db, NEW w \in Change, Write(d, w)
    PROVE  Inv'
<1> DEFINE R == rows[d] \cup w.new
           D == dead[d] \cup w.gone
<1>1. Store(d, R, D, job, FALSE) /\ UNCHANGED <<file, jobs>>
  BY DEF Write
<1>b. writes' \in 0..MaxWrites
  <2>1. writes \in 0..MaxWrites /\ MaxWrites \in Nat
    BY BoundsAreNumbers DEF Inv
  <2>2. writes < MaxWrites /\ writes' = writes + 1
    BY DEF Write
  <2> QED
    BY <2>1, <2>2
<1>2. /\ w.new \subseteq Row /\ UniqueIn(w.new)
  BY ChangesAreWrites DEF UniqueIn
<1>3. Table(rows[d], dead[d])
  BY DEF Inv
<1>4. Table(R, D)
  <2>1. UniqueIn(R)
    BY <1>2, <1>3 DEF Write, Table, UniqueIn
  <2>2. ReferencesIn(R)
    <3>1. \A x \in w.new : \A id \in NodesOf(x) : HasNode(R, id)
      BY DEF Write
    <3> QED
      BY <1>3, <3>1 DEF Table, ReferencesIn, HasNode
  <2>3. D \subseteq R
    BY <1>3 DEF Write, Live, Table
  <2> QED
    BY <1>2, <1>3, <2>1, <2>2, <2>3 DEF Table
<1>5. ASSUME NEW q \in Operator, job[q].db = d, job[q].kind \in Transfers
      PROVE  TransferFits(job[q], R, D)
  <2>1. TransferFits(job[q], rows[d], dead[d]) /\ JobFits(job[q]) /\ job[q] \in JobType
    BY <1>5, TransferIsFit
  <2>2. ~job[q].wiped
    BY <1>5 DEF Write, Unlocked
  <2>3. \A x \in job[q].ins, y \in R \ rows[d] : Key(x) # Key(y)
    BY <1>5 DEF Write, Unclaimed
  <2>4. rows[d] \subseteq R /\ dead[d] \subseteq D /\ job[q].ins \subseteq Row
    BY <2>1 DEF JobType
  <2> HIDE DEF R, D
  <2> QED
    BY <1>4, <2>1, <2>2, <2>3, <2>4, BystanderFits
<1>6. /\ job \in [Operator -> JobType] /\ jobs' \in 0..MaxJobs
      /\ \A q \in Operator : JobFits(job[q])
      /\ \A p, q \in Operator : p # q => Apart(job[p], job[q])
  BY <1>1 DEF Inv, Good
<1> HIDE DEF R, D
<1> QED
  BY <1>1, <1>b, <1>4, <1>5, <1>6, StoreKeeps

LEMMA CommitKeeps ==
    ASSUME Inv, NEW o \in Operator, Commit(o)
    PROVE  Inv'
<1> DEFINE d == job[o].db
           R == View(o)
           D == dead[d] \cap View(o)
           J == [job EXCEPT ![o].at = "done", ![o].ins = {}, ![o].wiped = FALSE]
           done == [job[o] EXCEPT !.at = "done", !.ins = {}, !.wiped = FALSE]
<1>1. /\ At(o, Transfers, "commit") /\ job[o].kind \in Transfers /\ job[o].at = "commit"
      /\ Store(d, R, D, J, job[o].wiped) /\ UNCHANGED <<file, writes, jobs>>
  BY DEF Commit, At, Transfers
<1>2. /\ job[o] \in JobType /\ JobFits(job[o]) /\ d \in Db
      /\ TransferFits(job[o], rows[d], dead[d]) /\ R \subseteq Row
  <2>1. Seen(job[o], rows[d]) = R
    BY SeenIsView
  <2> QED
    BY <1>1, <2>1, TransferIsFit
<1>3. Table(rows[d], dead[d])
  BY <1>2 DEF Inv
<1>4. Table(R, D)
  <2>1. Seen(job[o], rows[d]) = R
    BY SeenIsView
  <2>2. UniqueIn(R) /\ ReferencesIn(R)
    BY <1>2, <2>1 DEF TransferFits
  <2> QED
    BY <1>2, <2>2 DEF Table
<1>5. ~job[o].wiped => R = rows[d] \cup job[o].ins /\ D = dead[d]
  <2>1. ~job[o].wiped => R = rows[d] \cup job[o].ins
    BY DEF View
  <2> QED
    BY <1>3, <2>1 DEF Table
<1>6. job[o].wiped \in BOOLEAN
  BY <1>2 DEF JobType
<1>7. /\ done \in JobType /\ done.kind = job[o].kind /\ done.db = d /\ done.at = "done"
      /\ done.ins = {} /\ ~done.wiped /\ done.nodes = job[o].nodes
      /\ done.rels = job[o].rels /\ done.content = job[o].content
  BY <1>2 DEF JobType, Stage
<1>8. J \in [Operator -> JobType] /\ J[o] = done /\ \A q \in Operator \ {o} : J[q] = job[q]
  <2>1. J = [job EXCEPT ![o] = done]
    BY DEF Inv
  <2> HIDE DEF J, done
  <2> QED
    BY <1>7, <2>1 DEF Inv
<1> HIDE DEF R, D, J, done
<1>9. JobFits(done) /\ TransferFits(done, R, D)
  <2>1. JobFits(done)
    BY <1>1, <1>2, <1>7 DEF JobFits, Transfers
  <2>2. done.content # None => Faithful(done.nodes, done.rels, done.content)
    BY <1>2, <1>7 DEF TransferFits
  <2> QED
    BY <1>4, <1>7, <2>1, <2>2, StartFits
<1>10. ASSUME NEW q \in Operator \ {o}, job[q].db = d, job[q].kind \in Transfers
       PROVE  TransferFits(job[q], R, D)
  <2>1. TransferFits(job[q], rows[d], dead[d]) /\ JobFits(job[q]) /\ job[q] \in JobType
    BY <1>10, TransferIsFit
  <2>2. Apart(job[o], job[q]) /\ Apart(job[q], job[o])
    BY DEF Inv
  <2>3. CASE job[o].wiped
    <3>1. Waiting(job[q])
      BY <1>10, <2>2, <2>3 DEF Apart
    <3>2. job[q].ins \subseteq Row
      BY <2>1 DEF JobType
    <3> QED
      BY <1>4, <2>1, <3>1, <3>2, BystanderFits
  <2>4. CASE ~job[o].wiped
    <3>1. ~job[q].wiped
      BY <1>1, <1>10, AloneAtWork
    <3>2. rows[d] \subseteq R /\ dead[d] \subseteq D /\ job[q].ins \subseteq Row
      BY <1>5, <2>1, <2>4 DEF JobType
    <3>3. \A x \in job[q].ins, y \in R \ rows[d] : Key(x) # Key(y)
      BY <1>5, <1>10, <2>2, <2>4 DEF Apart
    <3> QED
      BY <1>4, <2>1, <3>1, <3>2, <3>3, BystanderFits
  <2> QED
    BY <2>3, <2>4
<1>11. \A q \in Operator : JobFits(J[q])
  BY <1>8, <1>9 DEF Inv, Good
<1>12. \A p, q \in Operator : p # q => Apart(J[p], J[q])
  <2>1. ASSUME NEW q \in Operator \ {o} PROVE Apart(done, job[q]) /\ Apart(job[q], done)
    <3>1. JobFits(job[q])
      BY DEF Inv, Good
    <3>2. Waiting(done)
      BY <1>7 DEF Waiting
    <3> QED
      BY <1>7, <1>9, <3>1, <3>2, NothingYetIsApart
  <2> QED
    BY <1>8, <2>1 DEF Inv
<1>13. \A q \in Operator : J[q].db = d /\ J[q].kind \in Transfers => TransferFits(J[q], R, D)
  BY <1>8, <1>9, <1>10
<1>14. \A q \in Operator : J[q].db # d \/ J[q].kind = "export" => J[q] = job[q]
  BY <1>1, <1>7, <1>8 DEF Transfers
<1>15. writes' \in 0..MaxWrites /\ jobs' \in 0..MaxJobs
  BY <1>1 DEF Inv
<1> HIDE DEF d
<1> QED
  BY <1>1, <1>2, <1>4, <1>6, <1>8, <1>11, <1>12, <1>13, <1>14, <1>15, StoreKeeps

-------------------------------------------------------------------------------
(* Every step.                                                                 *)

LEMMA InvGoesOn == Inv /\ [Next]_vars => Inv'
<1> SUFFICES ASSUME Inv, [Next]_vars PROVE Inv'
  OBVIOUS
<1>1. ASSUME NEW o \in Operator, JobStep(o) PROVE Inv'
  <2>1. ASSUME NEW e \in Errand, e.kind = "export", BeginExport(o, e.db, e.project)
        PROVE  Inv'
    <3>1. e.db \in Db /\ e.project \in Project \cup {None}
      BY <2>1, ErrandsAreCommands
    <3> QED
      BY <2>1, <3>1, BeginExportKeeps
  <2>2. ASSUME NEW e \in Errand, e.kind = "import", BeginImport(o, e.db)
        PROVE  Inv'
    <3>1. e.db \in Db
      BY <2>2, ErrandsAreCommands
    <3> QED
      BY <2>2, <3>1, BeginImportKeeps
  <2>3. ASSUME NEW e \in Errand, e.kind = "seed", BeginSeed(o, e.db, e.reset)
        PROVE  Inv'
    <3>1. e.db \in Db /\ e.reset \in BOOLEAN
      BY <2>3, ErrandsAreCommands
    <3> QED
      BY <2>3, <3>1, BeginSeedKeeps
  <2>4. CASE FetchExportNodes(o)
    BY <2>4, FetchExportNodesKeeps
  <2>5. CASE FetchNodeObservations(o)
    BY <2>5, FetchNodeObservationsKeeps
  <2>6. CASE FetchExportRelations(o)
    BY <2>6, FetchExportRelationsKeeps
  <2>7. CASE Truncate(o)
    BY <2>7, TruncateKeeps
  <2>8. CASE InsertNode(o)
    BY <2>8, InsertNodeKeeps
  <2>9. CASE InsertObservations(o)
    BY <2>9, InsertObservationsKeeps
  <2>10. CASE InsertRelation(o)
    BY <2>10, InsertRelationKeeps
  <2>11. CASE NextLoop(o)
    BY <2>11, NextLoopKeeps
  <2>12. CASE Commit(o)
    BY <2>12, CommitKeeps
  <2>13. CASE Fail(o) \/ Exit(o)
    BY <2>13, StoppingKeeps DEF Fail, Exit
  <2> QED
    BY <1>1, <2>1, <2>2, <2>3, <2>4, <2>5, <2>6, <2>7, <2>8, <2>9, <2>10, <2>11,
       <2>12, <2>13 DEF JobStep
<1>2. ASSUME NEW d \in Db, NEW w \in Change, Write(d, w) PROVE Inv'
  BY <1>2, WriteKeeps
<1>3. ASSUME NEW f \in Sheet, HandWrite(f) PROVE Inv'
  BY <1>3, HandWriteKeeps
<1>4. CASE UNCHANGED vars
  BY <1>4 DEF vars, Inv, Good
<1> QED
  BY <1>1, <1>2, <1>3, <1>4 DEF Next

LEMMA InvHolds == Spec => []Inv
BY InvStarts, InvGoesOn, PTL DEF Spec
-------------------------------------------------------------------------------
(* Theorems.                                                                   *)

\* Whatever the exports, imports, seeds and tools do together, no two rows of
\* the tables, or of what the open transactions have still to commit, have the
\* same key, and no row lacks its nodes.
THEOREM TablesStayConsistent == Spec => []TypeOK
BY InvHolds, InvGivesTypeOK, PTL

\* ON CONFLICT DO NOTHING and the locks keep every transaction as far as its
\* loops say, with rows of its own file only, alone if it resets.
THEOREM TransfersKeepTheirPlace == Spec => []TransferInv
BY InvHolds, InvGivesTransferInv, PTL

\* khctl export reads statement by statement while others commit: every node,
\* text and relation of its file was there at some moment of the export, and
\* what was there all along is in the file.
THEOREM ExportsTellTheTruth == Spec => []ExportsAreOfTheirTime
BY InvHolds, InvGivesExports, PTL

-------------------------------------------------------------------------------
(* What a step does to the tables.                                             *)

\* A step that leaves vars alone, or moves one job by Goto or Begin, changes no
\* table, and only FetchExportRelations and Commit bring a job to its end.
LEMMA TablesChange ==
    ASSUME Inv, [Next]_vars
    PROVE  \/ \E d \in Db, w \in Change : Write(d, w)
           \/ \E o \in Operator : Commit(o)
           \/ /\ UNCHANGED <<rows, dead>>
              /\ \A q \in Operator : ~Finished(q)
<1>0. job \in [Operator -> JobType]
  BY DEF Inv
<1>1. ASSUME NEW o \in Operator, NEW j, job' = [job EXCEPT ![o] = j],
             UNCHANGED <<rows, dead>>,
             j.at # "done" \/ job[o].at = "done" \/ job[o].kind \notin Transfers
      PROVE  UNCHANGED <<rows, dead>> /\ \A q \in Operator : ~Finished(q)
  <2>1. ASSUME NEW q \in Operator PROVE ~Finished(q)
    <3>1. CASE q = o
      BY <1>0, <1>1, <3>1 DEF Finished
    <3>2. CASE q # o
      BY <1>0, <1>1, <3>2 DEF Finished
    <3> QED
      BY <3>1, <3>2
  <2> QED
    BY <1>1, <2>1
<1> DEFINE Moves(o) == \E j : /\ job' = [job EXCEPT ![o] = j] /\ UNCHANGED <<rows, dead>>
                              /\ \/ j.at # "done" \/ job[o].at = "done"
                                 \/ job[o].kind \notin Transfers
<1>2. ASSUME NEW o \in Operator, JobStep(o), ~Commit(o)
      PROVE  Moves(o)
  <2>1. job[o] \in JobType
    BY <1>0
  <2>2. ASSUME NEW j, Goto(o, j) \/ Begin(o, j),
               j.at # "done" \/ job[o].kind \notin Transfers
        PROVE  Moves(o)
    BY <2>2 DEF Goto, Begin
  <2>3. ASSUME NEW n
        PROVE  [job[o] EXCEPT !.left = @ \ {n}] \in JobType
               /\ [job[o] EXCEPT !.left = @ \ {n}].at = job[o].at
    BY <2>1 DEF JobType
  <2>4. ASSUME NEW X, NEW j, Insert(o, X, j), j \in JobType, j.at # "done"
        PROVE  Moves(o)
    <3> DEFINE i == [j EXCEPT !.ins = @ \cup {x \in X : \A y \in View(o) : Key(y) # Key(x)}]
    <3>1. Goto(o, i)
      BY <2>4 DEF Insert
    <3>2. i.at = j.at
      BY <2>4 DEF JobType
    <3> HIDE DEF i, Moves
    <3> QED
      BY <2>2, <2>4, <3>1, <3>2
  <2> HIDE DEF Moves
  <2>5. ASSUME NEW d, NEW q, BeginExport(o, d, q) PROVE Moves(o)
    <3> DEFINE i == [Idle EXCEPT !.kind = "export", !.at = "nodes", !.db = d,
                                 !.project = q, !.seen = Live(d), !.steady = Live(d)]
    <3>1. Begin(o, i)
      BY <2>5 DEF BeginExport
    <3>2. i.at # "done"
      BY DEF Idle
    <3> QED
      BY <2>2, <3>1, <3>2
  <2>6. ASSUME NEW d, BeginImport(o, d) PROVE Moves(o)
    <3> DEFINE p == ParseImportPayload(file)
               i == [Idle EXCEPT !.kind = "import", !.at = "nodes", !.db = d,
                                 !.nodes = p.nodes, !.rels = p.rels,
                                 !.left = p.nodes, !.content = file.content]
    <3>1. Begin(o, i)
      BY <2>6 DEF BeginImport
    <3>2. i.at # "done"
      BY DEF Idle
    <3> HIDE DEF i
    <3> QED
      BY <2>2, <3>1, <3>2
  <2>7. ASSUME NEW d, NEW reset, BeginSeed(o, d, reset) PROVE Moves(o)
    <3> DEFINE i == [Idle EXCEPT !.kind = "seed", !.db = d,
                                 !.at = IF reset THEN "reset" ELSE "nodes",
                                 !.nodes = FixtureNodes, !.rels = FixtureRelations,
                                 !.left = FixtureNodes]
    <3>1. Begin(o, i)
      BY <2>7 DEF BeginSeed
    <3>2. i.at # "done"
      BY DEF Idle
    <3> HIDE DEF i
    <3> QED
      BY <2>2, <3>1, <3>2
  <2>8. CASE FetchExportNodes(o) \/ FetchNodeObservations(o)
    <3>1. job[o].kind \notin Transfers /\ \E j : Goto(o, j)
      BY <2>8 DEF FetchExportNodes, FetchNodeObservations, At, Transfers
    <3> QED
      BY <2>2, <3>1
  <2>9. CASE FetchExportRelations(o)
    <3>1. job[o].kind \notin Transfers /\ UNCHANGED <<rows, dead>>
      BY <2>9 DEF FetchExportRelations, At, Transfers
    <3>2. PICK R : job' = [job EXCEPT ![o].at = "done", ![o].rels = R]
      BY <2>9 DEF FetchExportRelations
    <3>3. job' = [job EXCEPT ![o] = [job[o] EXCEPT !.at = "done", !.rels = R]]
      BY <3>2
    <3> QED
      BY <3>1, <3>3 DEF Moves
  <2>10. CASE Truncate(o)
    <3>1. Goto(o, [job[o] EXCEPT !.wiped = TRUE, !.at = "nodes"])
      BY <2>10 DEF Truncate
    <3>2. [job[o] EXCEPT !.wiped = TRUE, !.at = "nodes"].at # "done"
      BY <2>1 DEF JobType
    <3> QED
      BY <2>2, <3>1, <3>2
  <2>11. CASE InsertNode(o) \/ InsertObservations(o) \/ InsertRelation(o)
    <3>1. job[o].at # "done"
      BY <2>11 DEF InsertNode, InsertObservations, InsertRelation, At
    <3>2. PICK n : \/ Goto(o, [job[o] EXCEPT !.left = @ \ {n}])
                   \/ \E X : Insert(o, X, [job[o] EXCEPT !.left = @ \ {n}])
      BY <2>11 DEF InsertNode, InsertObservations, InsertRelation
    <3> DEFINE i == [job[o] EXCEPT !.left = @ \ {n}]
    <3>3. i \in JobType /\ i.at # "done"
      BY <2>3, <3>1
    <3>4. Goto(o, i) \/ \E X : Insert(o, X, i)
      BY <3>2
    <3> HIDE DEF i
    <3> QED
      BY <2>2, <2>4, <3>3, <3>4
  <2>12. CASE NextLoop(o)
    <3>1. \/ Goto(o, [job[o] EXCEPT !.at = "texts", !.left = job[o].nodes])
          \/ Goto(o, [job[o] EXCEPT !.at = "links", !.left = job[o].rels])
          \/ Goto(o, [job[o] EXCEPT !.at = "commit"])
      BY <2>12 DEF NextLoop, At
    <3>2. /\ [job[o] EXCEPT !.at = "texts", !.left = job[o].nodes].at # "done"
          /\ [job[o] EXCEPT !.at = "links", !.left = job[o].rels].at # "done"
          /\ [job[o] EXCEPT !.at = "commit"].at # "done"
      BY <2>1 DEF JobType
    <3> QED
      BY <2>2, <3>1, <3>2
  <2>13. CASE Fail(o) \/ Exit(o)
    <3>1. Goto(o, Idle) /\ Idle.at # "done"
      BY <2>13 DEF Fail, Exit, Idle
    <3> QED
      BY <2>2, <3>1
  <2> QED
    BY <1>2, <2>5, <2>6, <2>7, <2>8, <2>9, <2>10, <2>11, <2>12, <2>13 DEF JobStep
<1>3. ASSUME NEW o \in Operator, JobStep(o), ~Commit(o)
      PROVE  UNCHANGED <<rows, dead>> /\ \A q \in Operator : ~Finished(q)
  BY <1>1, <1>2, <1>3
<1>4. ASSUME NEW f \in Sheet, HandWrite(f)
      PROVE  UNCHANGED <<rows, dead>> /\ \A q \in Operator : ~Finished(q)
  BY <1>4 DEF HandWrite, Finished
<1>5. CASE UNCHANGED vars
  BY <1>5 DEF vars, Finished
<1> QED
  BY <1>3, <1>4, <1>5 DEF Next

\* A commit finishes its own job and no other, and the tables become its view.
LEMMA CommitFinishes ==
    ASSUME Inv, NEW o \in Operator, Commit(o)
    PROVE  /\ Finished(o) /\ \A q \in Operator : Finished(q) => q = o
           /\ job[o].at = "commit" /\ job[o].kind \in Transfers /\ job[o].db \in Db
           /\ rows' = [rows EXCEPT ![job[o].db] = View(o)]
           /\ dead' = [dead EXCEPT ![job[o].db] = dead[job[o].db] \cap View(o)]
           /\ rows'[job[o].db] = View(o)
           /\ dead'[job[o].db] = dead[job[o].db] \cap View(o)
           /\ writes' = writes
<1> DEFINE d == job[o].db
           J == [job EXCEPT ![o].at = "done", ![o].ins = {}, ![o].wiped = FALSE]
<1>1. /\ job[o].at = "commit" /\ job[o].kind \in Transfers
      /\ Store(d, View(o), dead[d] \cap View(o), J, job[o].wiped) /\ writes' = writes
  BY DEF Commit, At, Transfers
<1>2. d \in Db /\ job \in [Operator -> JobType]
  BY <1>1, TransferIsFit DEF Inv
<1>3. J[o].at = "done" /\ J[o].kind = job[o].kind /\ \A q \in Operator \ {o} : J[q] = job[q]
  BY <1>2 DEF JobType
<1>4. /\ rows' = [rows EXCEPT ![d] = View(o)]
      /\ dead' = [dead EXCEPT ![d] = dead[d] \cap View(o)]
      /\ job' = Witnessed(J, d, View(o), dead[d] \cap View(o), job[o].wiped)
  BY <1>1 DEF Store
<1>5. rows'[d] = View(o) /\ dead'[d] = dead[d] \cap View(o)
  BY <1>2, <1>4 DEF Inv
<1> HIDE DEF J, d
<1>6. job'[o].at = "done"
  BY <1>1, <1>3, <1>4 DEF Witnessed, Transfers
<1>7. ASSUME NEW q \in Operator \ {o}, job[q].kind \in Transfers PROVE job'[q] = job[q]
  BY <1>3, <1>4, <1>7 DEF Witnessed, Transfers
<1>8. Finished(o) /\ \A q \in Operator : Finished(q) => q = o
  BY <1>1, <1>6, <1>7 DEF Finished
<1> QED
  BY <1>1, <1>2, <1>4, <1>5, <1>8 DEF d

\* A write of the tools makes the tables grow and finishes no job.
LEMMA WriteGrows ==
    ASSUME Inv, NEW d \in Db, NEW w \in Change, Write(d, w)
    PROVE  /\ \A e \in Db : rows[e] \subseteq rows'[e] /\ dead[e] \subseteq dead'[e]
           /\ writes' # writes
           /\ \A q \in Operator : ~Finished(q)
<1>1. /\ rows' = [rows EXCEPT ![d] = rows[d] \cup w.new]
      /\ dead' = [dead EXCEPT ![d] = dead[d] \cup w.gone]
      /\ job' = Witnessed(job, d, rows[d] \cup w.new, dead[d] \cup w.gone, FALSE)
  BY DEF Write, Store
<1>2. \A e \in Db : rows[e] \subseteq rows'[e] /\ dead[e] \subseteq dead'[e]
  BY <1>1 DEF Inv
<1>3. writes' # writes
  <2>1. writes' = writes + 1 /\ writes \in 0..MaxWrites /\ MaxWrites \in Nat
    BY BoundsAreNumbers DEF Inv, Write
  <2> QED
    BY <2>1
<1>4. ASSUME NEW q \in Operator PROVE ~Finished(q)
  <2>1. CASE job[q].kind \in Transfers
    BY <1>1, <2>1 DEF Witnessed, Transfers, Finished
  <2>2. CASE job[q].kind \notin Transfers
    BY <2>2 DEF Finished
  <2> QED
    BY <2>1, <2>2
<1> QED
  BY <1>2, <1>3, <1>4

\* Short of a reset, what was in the tables is there after a commit, and what
\* was deleted is deleted.
THEOREM DeletedStaysDeleted == Spec => NothingComesBack
<1> DEFINE Grows == \A d \in Db : \/ (rows[d] \subseteq rows'[d] /\ dead[d] \subseteq dead'[d])
                                  \/ \E o \in Operator : Finished(o) /\ job[o].wiped
<1>1. Inv /\ [Next]_vars => [Grows]_vars
  <2> SUFFICES ASSUME Inv, [Next]_vars PROVE Grows
    OBVIOUS
  <2>1. ASSUME NEW d \in Db, NEW w \in Change, Write(d, w) PROVE Grows
    BY <2>1, WriteGrows
  <2>2. ASSUME NEW o \in Operator, Commit(o) PROVE Grows
    <3>1. /\ Finished(o) /\ job[o].db \in Db
          /\ rows' = [rows EXCEPT ![job[o].db] = View(o)]
          /\ dead' = [dead EXCEPT ![job[o].db] = dead[job[o].db] \cap View(o)]
      BY <2>2, CommitFinishes
    <3>2. CASE job[o].wiped
      BY <3>1, <3>2
    <3>3. CASE ~job[o].wiped
      <4>1. rows[job[o].db] \subseteq View(o)
        BY <3>3 DEF View
      <4>2. dead[job[o].db] \subseteq dead[job[o].db] \cap View(o)
        BY <3>1, <4>1 DEF Inv, Table
      <4> QED
        BY <3>1, <4>1, <4>2 DEF Inv
    <3> QED
      BY <3>2, <3>3
  <2>3. UNCHANGED <<rows, dead>> => Grows
    OBVIOUS
  <2> QED
    BY <2>1, <2>2, <2>3, TablesChange
<1> QED
  BY <1>1, InvHolds, PTL DEF Spec, NothingComesBack

\* When a job commits, its file has landed in what it commits.
LEMMA CommitHasLanded ==
    ASSUME Inv, NEW o \in Operator, Commit(o),
           NEW S, S = rows'[job[o].db],
           NEW live, live = IdsIn(S \ dead'[job[o].db])
    PROVE  /\ S = View(o) /\ S \subseteq Row /\ UniqueIn(S) /\ ReferencesIn(S)
           /\ \A n \in job[o].nodes : /\ HasNode(S, Own(n, n.name))
                                      /\ TextsLanded(job[o], n, S, live)
           /\ \A r \in job[o].rels : LinkLanded(job[o], r, S, live)
<1>1. /\ job[o].at = "commit" /\ job[o].kind \in Transfers /\ S = View(o)
      /\ live = IdsIn(View(o) \ (dead[job[o].db] \cap View(o)))
  BY CommitFinishes
<1>2. /\ TransferFits(job[o], rows[job[o].db], dead[job[o].db])
      /\ Seen(job[o], rows[job[o].db]) \subseteq Row
  BY <1>1, TransferIsFit
<1>3. /\ Landed(job[o], S, LiveIds(o)) /\ S \subseteq Row /\ UniqueIn(S) /\ ReferencesIn(S)
  BY <1>1, <1>2, SeenIsView DEF TransferFits
<1>4. live \subseteq LiveIds(o)
  BY <1>1 DEF LiveIds, IdsIn
<1>5. /\ \A n \in job[o].nodes : /\ HasNode(S, Own(n, n.name))
                                 /\ TextsLanded(job[o], n, S, LiveIds(o))
      /\ \A r \in job[o].rels : LinkLanded(job[o], r, S, LiveIds(o))
  BY <1>1, <1>3 DEF Landed
<1>6. \A n \in job[o].nodes : TextsLanded(job[o], n, S, live)
  BY <1>4, <1>5 DEF TextsLanded
<1>7. \A r \in job[o].rels : LinkLanded(job[o], r, S, live)
  BY <1>4, <1>5 DEF LinkLanded
<1> QED
  BY <1>1, <1>3, <1>5, <1>6, <1>7

\* khctl import and seed are one transaction each: nothing of the file before
\* the commit, and after it every node, every text and every relation between
\* the file's live nodes.
THEOREM TransfersAreAtomic == Spec => TransfersLandWhole
<1> DEFINE Whole ==
       /\ \A d \in Db : rows'[d] # rows[d] /\ writes' = writes =>
             (\E o \in Operator : Finished(o) /\ job[o].db = d)
       /\ \A o \in Operator : Finished(o) =>
            LET j == job[o]
                S == rows'[j.db]
                live == IdsIn(S \ dead'[j.db])
            IN /\ \A n \in j.nodes : /\ HasNode(S, Own(n, n.name))
                                     /\ TextsLanded(j, n, S, live)
               /\ \A r \in j.rels : LinkLanded(j, r, S, live)
<1>1. Inv /\ [Next]_vars => [Whole]_vars
  <2> SUFFICES ASSUME Inv, [Next]_vars PROVE Whole
    OBVIOUS
  <2>1. ASSUME NEW d \in Db, NEW w \in Change, Write(d, w) PROVE Whole
    BY <2>1, WriteGrows
  <2>2. ASSUME NEW o \in Operator, Commit(o) PROVE Whole
    <3>1. /\ Finished(o) /\ \A q \in Operator : Finished(q) => q = o
          /\ rows' = [rows EXCEPT ![job[o].db] = View(o)]
      BY <2>2, CommitFinishes
    <3>2. \A d \in Db : rows'[d] # rows[d] => job[o].db = d
      BY <3>1 DEF Inv
    <3> DEFINE S == rows'[job[o].db]
               live == IdsIn(S \ dead'[job[o].db])
    <3>3. /\ \A n \in job[o].nodes : /\ HasNode(S, Own(n, n.name))
                                     /\ TextsLanded(job[o], n, S, live)
          /\ \A r \in job[o].rels : LinkLanded(job[o], r, S, live)
      BY <2>2, CommitHasLanded
    <3>4. \A d \in Db : rows'[d] # rows[d] /\ writes' = writes =>
             (\E q \in Operator : Finished(q) /\ job[q].db = d)
      BY <3>1, <3>2
    <3> QED
      BY <3>1, <3>3, <3>4
  <2>3. UNCHANGED <<rows, dead>> /\ (\A q \in Operator : ~Finished(q)) => Whole
    OBVIOUS
  <2> HIDE DEF Whole
  <2> QED
    BY <2>1, <2>2, <2>3, TablesChange
<1> QED
  BY <1>1, InvHolds, PTL DEF Spec, TransfersLandWhole

\* What finishes has committed.
LEMMA OnlyCommitFinishes ==
    ASSUME Inv, [Next]_vars, NEW o \in Operator, Finished(o)
    PROVE  Commit(o)
BY TablesChange, WriteGrows, CommitFinishes

\* Nodes, texts and relations a transfer has inserted, told apart.
LEMMA InsertedByTable ==
    ASSUME NEW j, NEW x, FromFile(j, x)
    PROVE  /\ x.tab = "nodes" => \E n \in j.nodes : x = Node(n.project, n.name, None)
           /\ x.tab = "observations" =>
                 \E n \in j.nodes, id \in NodeId : \E t \in n.texts :
                    Means(j, n, n.name, id) /\ x = Obs(id, t)
           /\ x.tab = "relations" =>
                 \E r \in j.rels, f \in NodeId, t \in NodeId :
                    /\ Means(j, r, r.from, f) /\ Means(j, r, r.to, t)
                    /\ x = Rel(f, t, r.type, Global)
           /\ x.tab # "sessions"
<1>1. \A p, n, s : Node(p, n, s).tab = "nodes"
  BY DEF Node
<1>2. \A id, t : Obs(id, t).tab = "observations"
  BY DEF Obs
<1>3. \A f, t, y, p : Rel(f, t, y, p).tab = "relations"
  BY DEF Rel
<1>4. CASE \E n \in j.nodes : x = Node(n.project, n.name, None)
  BY <1>1, <1>4
<1>5. CASE \E n \in j.nodes, id \in NodeId : \E t \in n.texts :
              Means(j, n, n.name, id) /\ x = Obs(id, t)
  BY <1>2, <1>5
<1>6. CASE \E r \in j.rels, f \in NodeId, t \in NodeId :
              /\ Means(j, r, r.from, f) /\ Means(j, r, r.to, t)
              /\ x = Rel(f, t, r.type, Global)
  BY <1>3, <1>6
<1> QED
  BY <1>4, <1>5, <1>6 DEF FromFile
\* An import into an empty database: the item of the file means its own node.
LEMMA ImportMeansOwn ==
    ASSUME NEW j, j.kind = "import", NEW i, NEW name, NEW id \in NodeId,
           Means(j, i, name, id)
    PROVE  id = Own(i, name)
BY DEF Means, Own, NodeId

\* Import after export is the identity on the graph: the file says the graph C,
\* the transaction has inserted S, and all of it.
LEMMA FaithfulFileLandsAsIs ==
    ASSUME NEW j, j.kind = "import", NEW C, C \subseteq Row,
           Faithful(j.nodes, j.rels, C), NEW S, S \subseteq Row,
           \A x \in S : FromFile(j, x),
           NEW live, live = IdsIn(S),
           \A n \in j.nodes : HasNode(S, Own(n, n.name)) /\ TextsLanded(j, n, S, live),
           \A r \in j.rels : LinkLanded(j, r, S, live),
           \A r \in OfTab(C, "relations") : SameProject(r)
    PROVE  /\ IdsIn(S) = IdsIn(C)
           /\ OfTab(S, "observations") = OfTab(C, "observations")
           /\ {Triple(r) : r \in OfTab(S, "relations")} =
                {Triple(r) : r \in OfTab(C, "relations")}
<1>1. /\ \A n \in j.nodes : /\ HasNode(C, Own(n, n.name))
                            /\ n.texts = TextsIn(C, Own(n, n.name))
      /\ \A id \in IdsIn(C) : \E n \in j.nodes : Own(n, n.name) = id
      /\ \A r \in j.rels : \E x \in C : Names(r, x)
      /\ \A x \in OfTab(C, "relations") : \E r \in j.rels : Names(r, x)
      /\ \A x \in OfTab(C, "observations") : x.node \in IdsIn(C)
      /\ \A x \in OfTab(C, "relations") : {x.from, x.to} \subseteq IdsIn(C)
  BY DEF Faithful
<1>2. \A id \in IdsIn(S) \cup IdsIn(C) : id \in NodeId
  BY IdsTyped
<1>3. ASSUME NEW id \in IdsIn(S) PROVE id \in IdsIn(C)
  <2>1. PICK x \in S : x.tab = "nodes" /\ IdOf(x) = id
    BY DEF IdsIn
  <2>2. PICK n \in j.nodes : x = Node(n.project, n.name, None)
    BY <2>1, InsertedByTable
  <2>3. id = Own(n, n.name)
    BY <2>1, <2>2 DEF IdOf, Node, Own
  <2> QED
    BY <1>1, <2>3, NodeIsThere
<1>4. ASSUME NEW id \in IdsIn(C) PROVE id \in IdsIn(S)
  BY <1>1, NodeIsThere
<1>5. ASSUME NEW x \in OfTab(S, "observations") PROVE x \in OfTab(C, "observations")
  <2>1. x \in S /\ x.tab = "observations"
    BY DEF OfTab
  <2>a. PICK n \in j.nodes, id \in NodeId : \E t \in n.texts :
           Means(j, n, n.name, id) /\ x = Obs(id, t)
    BY <2>1, InsertedByTable
  <2>2. PICK t \in n.texts : Means(j, n, n.name, id) /\ x = Obs(id, t)
    BY <2>a
  <2>3. id = Own(n, n.name)
    BY <2>2, ImportMeansOwn
  <2>4. t \in TextsIn(C, id)
    BY <1>1, <2>2, <2>3
  <2>5. PICK y \in C : y.tab = "observations" /\ y.node = id /\ y.text = t
    BY <2>4 DEF TextsIn
  <2>6. y \in ObsRow
    BY <2>5, RowOfTable
  <2>7. y = Obs(id, t)
    BY <2>5, <2>6 DEF ObsRow, Obs
  <2> QED
    BY <2>2, <2>5, <2>7 DEF OfTab
<1>6. ASSUME NEW y \in OfTab(C, "observations") PROVE y \in OfTab(S, "observations")
  <2>1. y \in C /\ y.tab = "observations" /\ y.node \in IdsIn(C)
    BY <1>1 DEF OfTab
  <2>2. PICK n \in j.nodes : Own(n, n.name) = y.node
    BY <1>1, <2>1
  <2>3. y.text \in n.texts
    BY <1>1, <2>1, <2>2 DEF TextsIn
  <2>4. y.node \in live
    BY <1>4, <2>1
  <2>5. PICK id \in Homonyms(j, n, n.name, S) : {Obs(id, t) : t \in n.texts} \subseteq S
    BY <2>2, <2>4 DEF TextsLanded
  <2>6. id = y.node
    BY <1>2, <2>2, <2>5, ImportMeansOwn DEF Homonyms
  <2>7. Obs(y.node, y.text) \in S
    BY <2>3, <2>5, <2>6
  <2>8. y \in ObsRow
    BY <2>1, RowOfTable
  <2>9. y = Obs(y.node, y.text)
    BY <2>8 DEF ObsRow, Obs
  <2> QED
    BY <2>1, <2>7, <2>9 DEF OfTab
<1>7. ASSUME NEW x \in OfTab(S, "relations")
      PROVE  \E y \in OfTab(C, "relations") : Triple(y) = Triple(x)
  <2>1. x \in S /\ x.tab = "relations"
    BY DEF OfTab
  <2>2. PICK r \in j.rels, f \in NodeId, t \in NodeId :
           /\ Means(j, r, r.from, f) /\ Means(j, r, r.to, t)
           /\ x = Rel(f, t, r.type, Global)
    BY <2>1, InsertedByTable
  <2>3. f = Own(r, r.from) /\ t = Own(r, r.to)
    BY <2>2, ImportMeansOwn
  <2>4. PICK y \in C : Names(r, y)
    BY <1>1
  <2>5. y \in OfTab(C, "relations") /\ y \in RelRow
    BY <2>4, RowOfTable DEF OfTab, Names
  <2>6. y.from \in NodeId /\ y.to \in NodeId /\ SameProject(y)
    BY <2>5 DEF RelRow
  <2>7. y.from = f /\ y.to = t /\ y.type = r.type
    BY <2>3, <2>4, <2>6 DEF Names, SameProject, Own, NodeId
  <2>8. Triple(x) = <<f, t, r.type>>
    BY <2>2 DEF Rel, Triple
  <2> QED
    BY <2>5, <2>7, <2>8 DEF Triple
<1>8. ASSUME NEW y \in OfTab(C, "relations")
      PROVE  \E x \in OfTab(S, "relations") : Triple(x) = Triple(y)
  <2>1. PICK r \in j.rels : Names(r, y)
    BY <1>1
  <2>2. y.from \in IdsIn(C) /\ y.to \in IdsIn(C) /\ SameProject(y)
    BY <1>1
  <2>3. Own(r, r.from) = y.from /\ Own(r, r.to) = y.to /\ y.type = r.type
    BY <1>2, <2>1, <2>2 DEF Names, SameProject, Own, NodeId
  <2>4. {Own(r, r.from), Own(r, r.to)} \subseteq live \cap {Own(n, n.name) : n \in j.nodes}
    BY <1>1, <1>4, <2>2, <2>3
  <2>5. PICK f \in Homonyms(j, r, r.from, S), t \in Homonyms(j, r, r.to, S), x \in S :
           Key(x) = Key(Rel(f, t, r.type, Global))
    BY <2>4 DEF LinkLanded
  <2>6. f = y.from /\ t = y.to
    BY <1>2, <2>3, <2>5, ImportMeansOwn DEF Homonyms
  <2>7. x.tab = "relations" /\ x.from = f /\ x.to = t /\ x.type = r.type
    BY <2>5, KeyTells
  <2> QED
    BY <2>3, <2>5, <2>6, <2>7 DEF OfTab, Triple
<1>9. IdsIn(S) = IdsIn(C)
  BY <1>3, <1>4
<1>10. OfTab(S, "observations") = OfTab(C, "observations")
  BY <1>5, <1>6
<1>11. {Triple(r) : r \in OfTab(S, "relations")} = {Triple(r) : r \in OfTab(C, "relations")}
  <2> DEFINE left == {Triple(r) : r \in OfTab(S, "relations")}
             right == {Triple(r) : r \in OfTab(C, "relations")}
  <2>1. \A z \in left : z \in right
    BY <1>7
  <2>2. \A z \in right : z \in left
    BY <1>8
  <2> HIDE DEF left, right
  <2>3. left = right
    BY <2>1, <2>2
  <2> QED
    BY <2>3 DEF left, right
<1> QED
  BY <1>9, <1>10, <1>11

\* tests/migration_test.go, for every graph whose relations stay in their
\* project: an undisturbed export, imported into a database that is still empty
\* when the import commits, gives the same nodes, observations and triples.
THEOREM RoundTripIsFaithful == Spec => RoundTripKeepsGraph
<1> DEFINE Same ==
       \A o \in Operator :
         LET j == job[o]
             S == rows'[j.db]
         IN /\ Finished(o) /\ j.kind = "import" /\ j.content # None
            /\ rows[j.db] = {}
            /\ \A r \in OfTab(j.content, "relations") : SameProject(r)
            => /\ IdsIn(S) = IdsIn(j.content)
               /\ OfTab(S, "observations") = OfTab(j.content, "observations")
               /\ {Triple(r) : r \in OfTab(S, "relations")} =
                    {Triple(r) : r \in OfTab(j.content, "relations")}
<1>1. Inv /\ [Next]_vars => [Same]_vars
  <2> SUFFICES ASSUME Inv, [Next]_vars, NEW o \in Operator,
                      Finished(o), job[o].kind = "import", job[o].content # None,
                      rows[job[o].db] = {},
                      \A r \in OfTab(job[o].content, "relations") : SameProject(r)
               PROVE  LET j == job[o]
                          S == rows'[j.db]
                      IN /\ IdsIn(S) = IdsIn(j.content)
                         /\ OfTab(S, "observations") = OfTab(j.content, "observations")
                         /\ {Triple(r) : r \in OfTab(S, "relations")} =
                              {Triple(r) : r \in OfTab(j.content, "relations")}
    OBVIOUS
  <2> DEFINE d == job[o].db
             S == rows'[d]
             C == job[o].content
             live == IdsIn(S \ dead'[d])
  <2>1. Commit(o)
    BY OnlyCommitFinishes
  <2>2. /\ S = View(o) /\ S \subseteq Row
        /\ \A n \in job[o].nodes : HasNode(S, Own(n, n.name))
                                   /\ TextsLanded(job[o], n, S, live)
        /\ \A r \in job[o].rels : LinkLanded(job[o], r, S, live)
    BY <2>1, CommitHasLanded
  <2>3. /\ job[o] \in JobType /\ JobFits(job[o]) /\ d \in Db
        /\ TransferFits(job[o], rows[d], dead[d])
    BY TransferIsFit DEF Transfers
  <2>4. ~job[o].wiped
    BY <2>3 DEF JobFits
  <2>5. S = job[o].ins
    BY <2>2, <2>4 DEF View
  <2>6. dead'[d] = {}
    <3>1. dead[d] \subseteq rows[d]
      BY <2>3 DEF Inv, Table
    <3>2. dead'[d] = dead[d] \cap View(o)
      BY <2>1, CommitFinishes
    <3> QED
      BY <3>1, <3>2
  <2>7. live = IdsIn(S)
    BY <2>6
  <2>8. (\A x \in S : FromFile(job[o], x)) /\ Faithful(job[o].nodes, job[o].rels, C)
    BY <2>3, <2>5 DEF TransferFits
  <2>9. C \subseteq Row
    BY <2>3 DEF JobType
  <2> HIDE DEF S, C, live, d
  <2>10. /\ IdsIn(S) = IdsIn(C)
         /\ OfTab(S, "observations") = OfTab(C, "observations")
         /\ {Triple(r) : r \in OfTab(S, "relations")} =
              {Triple(r) : r \in OfTab(C, "relations")}
    <3>1. \A r \in OfTab(C, "relations") : SameProject(r)
      BY DEF C
    <3> QED
      BY <2>2, <2>7, <2>8, <2>9, <3>1, FaithfulFileLandsAsIs
  <2> QED
    BY <2>10 DEF S, C, d
<1> QED
  BY <1>1, InvHolds, PTL DEF Spec, RoundTripKeepsGraph
LEMMA FixtureRowsAre ==
    ASSUME NEW x
    PROVE  x \in FixtureRows <=>
              \/ \E n \in FixtureNodes : x = Node(Global, n.name, None)
              \/ \E n \in FixtureNodes : \E t \in n.texts : x = Obs(FixtureId(n.name), t)
              \/ \E r \in FixtureRelations :
                    x = Rel(FixtureId(r.from), FixtureId(r.to), r.type, Global)
BY DEF FixtureRows

\* A seed that has truncated the tables: the rows of the graph it commits are
\* the fixtures.  W are the sessions it has left, I what it has inserted.
LEMMA FixturesLandAsTheyAre ==
    ASSUME NEW j, j.kind = "seed", j.nodes = FixtureNodes, j.rels = FixtureRelations,
           NEW W, NEW I, NEW S, S = I \cup W, S \subseteq Row,
           \A x \in W : x.tab = "sessions", \A x \in I : FromFile(j, x),
           ReferencesIn(S),
           NEW live, live = IdsIn(S),
           \A n \in j.nodes : HasNode(S, Own(n, n.name)) /\ TextsLanded(j, n, S, live),
           \A r \in j.rels : LinkLanded(j, r, S, live)
    PROVE  S = W \cup FixtureRows
<1>1. /\ \A n \in FixtureNodes : n.project = Global
      /\ \A r \in FixtureRelations :
            /\ r.project = Global
            /\ \E n \in FixtureNodes : n.name = r.from
            /\ \E n \in FixtureNodes : n.name = r.to
  BY FixturesAreGlobal
<1>2. \A n \in FixtureNodes : Own(n, n.name) = FixtureId(n.name)
  BY <1>1 DEF Own, FixtureId
<1>3. ASSUME NEW x \in S, x.tab = "nodes"
      PROVE  \E n \in FixtureNodes : x = Node(Global, n.name, None)
  <2>1. x \in I
    BY <1>3
  <2>2. PICK n \in FixtureNodes : x = Node(n.project, n.name, None)
    BY <1>3, <2>1, InsertedByTable
  <2> QED
    BY <1>1, <2>2
<1>4. ASSUME NEW k \in IdsIn(S) PROVE k = FixtureId(k.name)
  <2>1. PICK x \in S : x.tab = "nodes" /\ IdOf(x) = k
    BY DEF IdsIn
  <2>2. \E n \in FixtureNodes : x = Node(Global, n.name, None)
    BY <1>3, <2>1
  <2> QED
    BY <2>1, <2>2 DEF IdOf, Node, FixtureId
<1>5. ASSUME NEW x \in S, x.tab = "observations"
      PROVE  \E n \in FixtureNodes : \E t \in n.texts : x = Obs(FixtureId(n.name), t)
  <2>1. x \in I
    BY <1>5
  <2>2. PICK n \in FixtureNodes, k \in NodeId : \E t \in n.texts :
           Means(j, n, n.name, k) /\ x = Obs(k, t)
    BY <1>5, <2>1, InsertedByTable
  <2>3. PICK t \in n.texts : Means(j, n, n.name, k) /\ x = Obs(k, t)
    BY <2>2
  <2>4. NodesOf(x) = {k}
    BY <2>3 DEF NodesOf, Obs
  <2>5. k \in IdsIn(S)
    BY <2>4, NodeIsThere DEF ReferencesIn
  <2>6. k = FixtureId(n.name)
    BY <1>4, <2>3, <2>5 DEF Means
  <2> QED
    BY <2>3, <2>6
<1>6. ASSUME NEW x \in S, x.tab = "relations"
      PROVE  \E r \in FixtureRelations :
                x = Rel(FixtureId(r.from), FixtureId(r.to), r.type, Global)
  <2>1. x \in I
    BY <1>6
  <2>2. PICK r \in FixtureRelations, f \in NodeId, t \in NodeId :
           /\ Means(j, r, r.from, f) /\ Means(j, r, r.to, t)
           /\ x = Rel(f, t, r.type, Global)
    BY <1>6, <2>1, InsertedByTable
  <2>3. NodesOf(x) = {f, t}
    BY <2>2 DEF NodesOf, Rel
  <2>4. f \in IdsIn(S) /\ t \in IdsIn(S)
    BY <2>3, NodeIsThere DEF ReferencesIn
  <2>5. f = FixtureId(r.from) /\ t = FixtureId(r.to)
    BY <1>4, <2>2, <2>4 DEF Means
  <2> QED
    BY <2>2, <2>5
<1>7. ASSUME NEW x \in S PROVE x \in W \cup FixtureRows
  <2>1. CASE x \in W
    BY <2>1
  <2>2. CASE x \in I
    <3>1. x \in Row /\ x.tab # "sessions"
      BY <2>2, InsertedByTable
    <3>2. x.tab \in {"nodes", "observations", "relations"}
      BY <3>1 DEF Row, NodeRow, ObsRow, RelRow, SessRow
    <3> QED
      BY <1>3, <1>5, <1>6, <3>2, FixtureRowsAre
  <2> QED
    BY <2>1, <2>2
<1>8. ASSUME NEW n \in FixtureNodes PROVE Node(Global, n.name, None) \in S
  <2>1. PICK x \in S : x.tab = "nodes" /\ IdOf(x) = FixtureId(n.name)
    BY <1>2 DEF HasNode
  <2>2. PICK m \in FixtureNodes : x = Node(Global, m.name, None)
    BY <1>3, <2>1
  <2>3. m.name = n.name
    BY <2>1, <2>2 DEF IdOf, Node, FixtureId
  <2> QED
    BY <2>2, <2>3
<1>9. ASSUME NEW n \in FixtureNodes PROVE FixtureId(n.name) \in live
  BY <1>2, NodeIsThere
<1>10. ASSUME NEW n \in FixtureNodes, NEW t \in n.texts PROVE Obs(FixtureId(n.name), t) \in S
  <2>1. TextsLanded(j, n, S, live) /\ Own(n, n.name) \in live
    BY <1>2, <1>9
  <2>2. PICK k \in Homonyms(j, n, n.name, S) : {Obs(k, u) : u \in n.texts} \subseteq S
    BY <2>1 DEF TextsLanded
  <2>3. k = FixtureId(n.name)
    BY <1>4, <2>2 DEF Homonyms, Means
  <2> QED
    BY <2>2, <2>3
<1>11. ASSUME NEW r \in FixtureRelations
       PROVE  Rel(FixtureId(r.from), FixtureId(r.to), r.type, Global) \in S
  <2>1. PICK m \in FixtureNodes, n \in FixtureNodes : m.name = r.from /\ n.name = r.to
    BY <1>1
  <2>2. Own(r, r.from) = Own(m, m.name) /\ Own(r, r.to) = Own(n, n.name)
    <3>1. r.project = Global /\ m.project = Global /\ n.project = Global
      BY <1>1
    <3> QED
      BY <2>1, <3>1 DEF Own
  <2>a. Own(m, m.name) \in live /\ Own(n, n.name) \in live
    BY <1>2, <1>9
  <2>3. {Own(r, r.from), Own(r, r.to)} \subseteq live \cap {Own(i, i.name) : i \in j.nodes}
    BY <2>2, <2>a
  <2>4. PICK f \in Homonyms(j, r, r.from, S), t \in Homonyms(j, r, r.to, S), x \in S :
           Key(x) = Key(Rel(f, t, r.type, Global))
    BY <2>3 DEF LinkLanded
  <2>5. f = FixtureId(r.from) /\ t = FixtureId(r.to)
    BY <1>4, <2>4 DEF Homonyms, Means
  <2>6. x.tab = "relations" /\ x.from = f /\ x.to = t /\ x.type = r.type
    BY <2>4, KeyTells
  <2>7. PICK q \in FixtureRelations : x = Rel(FixtureId(q.from), FixtureId(q.to), q.type, Global)
    BY <1>6, <2>6
  <2>8. x = Rel(x.from, x.to, x.type, Global)
    BY <2>7 DEF Rel
  <2> QED
    BY <2>5, <2>6, <2>8
<1>12. \A x : x \in S <=> x \in W \cup FixtureRows
  <2>1. ASSUME NEW x \in FixtureRows PROVE x \in S
    BY <1>8, <1>10, <1>11, FixtureRowsAre
  <2> QED
    BY <1>7, <2>1
<1> QED
  BY <1>12

\* khctl seed --reset: whatever was in the tables, and whatever else wants to
\* write meanwhile, its commit leaves the fixtures and the sessions.
THEOREM ResetStartsOver == Spec => ResetLeavesTheFixtures
<1> DEFINE Fixtures ==
       \A o \in Operator : Finished(o) /\ job[o].wiped =>
         rows'[job[o].db] = OfTab(rows[job[o].db], "sessions") \cup FixtureRows
<1>1. Inv /\ [Next]_vars => [Fixtures]_vars
  <2> SUFFICES ASSUME Inv, [Next]_vars, NEW o \in Operator, Finished(o), job[o].wiped
               PROVE  rows'[job[o].db] =
                         OfTab(rows[job[o].db], "sessions") \cup FixtureRows
    OBVIOUS
  <2> DEFINE d == job[o].db
             S == rows'[d]
             W == OfTab(rows[d], "sessions")
             live == IdsIn(S \ dead'[d])
  <2>1. Commit(o)
    BY OnlyCommitFinishes
  <2>2. /\ S = View(o) /\ S \subseteq Row /\ ReferencesIn(S)
        /\ \A n \in job[o].nodes : HasNode(S, Own(n, n.name))
        /\ \A n \in job[o].nodes : TextsLanded(job[o], n, S, LiveIds(o))
        /\ \A r \in job[o].rels : LinkLanded(job[o], r, S, LiveIds(o))
    <3>1. job[o].at = "commit" /\ job[o].kind \in Transfers /\ S = View(o)
      BY <2>1, CommitFinishes
    <3>2. S \subseteq Row /\ ReferencesIn(S)
      BY <2>1, CommitHasLanded
    <3>3. TransferFits(job[o], rows[d], dead[d])
      BY <3>1, TransferIsFit
    <3>4. Landed(job[o], S, LiveIds(o))
      BY <3>1, <3>3, SeenIsView DEF TransferFits
    <3> QED
      BY <3>1, <3>2, <3>4 DEF Landed
  <2>3. /\ JobFits(job[o]) /\ d \in Db
        /\ \A x \in job[o].ins : FromFile(job[o], x)
    BY <2>1, CommitFinishes, TransferIsFit DEF TransferFits
  <2>4. job[o].kind = "seed" /\ job[o].nodes = FixtureNodes /\ job[o].rels = FixtureRelations
    BY <2>3 DEF JobFits
  <2>5. S = job[o].ins \cup W
    BY <2>2 DEF View, OfTab
  <2>6. LiveIds(o) = IdsIn(S)
    BY <2>2 DEF LiveIds
  <2>7. \A x \in W : x.tab = "sessions"
    BY DEF OfTab
  <2>8. \A n \in job[o].nodes : HasNode(S, Own(n, n.name))
                                /\ TextsLanded(job[o], n, S, LiveIds(o))
    BY <2>2
  <2> HIDE DEF S, W, d
  <2>9. S = W \cup FixtureRows
    BY <2>2, <2>3, <2>4, <2>5, <2>6, <2>7, <2>8, FixturesLandAsTheyAre
  <2> QED
    BY <2>9 DEF S, W, d
<1> QED
  BY <1>1, InvHolds, PTL DEF Spec, ResetLeavesTheFixtures
===============================================================================
