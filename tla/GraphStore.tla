------------------------------ MODULE GraphStore ------------------------------
(***************************************************************************)
(* The tables of the knowledge graph (migrations/*.sql) and the statements *)
(* of internal/store, run by transactions at READ COMMITTED, the isolation *)
(* level pool.Begin gives every handler.                                   *)
(*                                                                         *)
(* A row is immutable once written, except for its deleted_at column (for  *)
(* a session, ended_at), so a table is a set of rows and one set `dead`    *)
(* holds the rows whose timestamp is set.  A transaction keeps what it has *)
(* inserted and stamped to itself until it commits.  Two things make it    *)
(* wait for another one: a unique key the other has inserted and not yet   *)
(* committed, and a row the other has updated and not yet committed.       *)
(***************************************************************************)
EXTENDS GraphRows

CONSTANT
    Client      \* the request handlers that may run at the same time

VARIABLES
    rows,       \* the committed rows of every table
    dead,       \* the committed rows with deleted_at (ended_at) set
    ins,        \* ins[c]: rows inserted by the open transaction of c
    del         \* del[c]: rows stamped by the open transaction of c

storeVars == <<rows, dead, ins, del>>

-------------------------------------------------------------------------------
(* What a statement of the transaction of c sees: every committed row, and  *)
(* its own writes.  Each statement takes a new snapshot.                    *)

\* Mutated form of Visible: READ UNCOMMITTED.
Visible_Dirty(c) == rows \cup UNION {ins[d] : d \in Client}

Visible(c) == rows \cup ins[c]

Live(c) == Visible(c) \ (dead \cup del[c])

Taken(c, k) == \E r \in Visible(c) : Key(r) = k

\* Other open transactions that have inserted the key k.
Inserters(c, k) == {d \in Client \ {c} : \E r \in ins[d] : Key(r) = k}

\* Other open transactions that have updated the row r.
Lockers(c, r) == {d \in Client \ {c} : r \in del[d]}

\* FindByName with a nil project filter: the active nodes of that name, and
\* the one among them whose project_id sorts first.
Homonyms(c, n) == {r \in Live(c) : r.tab = "nodes" /\ r.name = n}

FirstHomonym(S) == IdOf(CHOOSE r \in S : \A q \in S : r.project <= q.project)

-------------------------------------------------------------------------------
(* Statements. *)

\* The key of r is free, or taken for good: an insert of it need not wait.
KeySettled(c, r) == Taken(c, Key(r)) \/ Inserters(c, Key(r)) = {}

\* Mutated form of InsertRow: a look-up before the insert in place of the
\* constraint, which does not see a key in flight.
InsertRow_CheckThenInsert(c, r) ==
    /\ ins' = IF Taken(c, Key(r)) THEN ins
              ELSE [ins EXCEPT ![c] = @ \cup {r}]
    /\ UNCHANGED <<rows, dead, del>>

\* INSERT ... ON CONFLICT DO NOTHING.  A key held by a dead row is a conflict
\* like any other; a key in flight elsewhere is waited for.
InsertRow(c, r) ==
    /\ KeySettled(c, r)
    /\ ins' = IF Taken(c, Key(r)) THEN ins
              ELSE [ins EXCEPT ![c] = @ \cup {r}]
    /\ UNCHANGED <<rows, dead, del>>

\* UPDATE ... SET deleted_at = now() WHERE <r> AND deleted_at IS NULL: waits
\* for the row's lock, then stamps the row if it is still live.
StampRow(c, r) ==
    /\ Lockers(c, r) = {}
    /\ del' = IF r \in Live(c) THEN [del EXCEPT ![c] = @ \cup {r}] ELSE del
    /\ UNCHANGED <<rows, dead, ins>>

CommitTx(c) ==
    /\ rows' = rows \cup ins[c]
    /\ dead' = dead \cup del[c]
    /\ ins' = [ins EXCEPT ![c] = {}]
    /\ del' = [del EXCEPT ![c] = {}]

RollbackTx(c) ==
    /\ ins' = [ins EXCEPT ![c] = {}]
    /\ del' = [del EXCEPT ![c] = {}]
    /\ UNCHANGED <<rows, dead>>

\* A statement an operator runs on its own (autocommit): it stamps the live
\* rows of S, once no open transaction holds any of them.
StampNow(S) ==
    /\ S # {}
    /\ \A c \in Client : del[c] \cap S = {}
    /\ dead' = dead \cup S
    /\ UNCHANGED <<rows, ins, del>>

StoreInit ==
    /\ rows = Seed
    /\ dead = {}
    /\ ins = [c \in Client |-> {}]
    /\ del = [c \in Client |-> {}]

StoreTypeOK ==
    /\ rows \subseteq Row
    /\ dead \subseteq rows
    /\ ins \in [Client -> SUBSET Row]
    /\ del \in [Client -> SUBSET Row]
    /\ \A c \in Client : del[c] \subseteq Visible(c)
    /\ IsFiniteSet(rows) /\ \A c \in Client : IsFiniteSet(ins[c])

===============================================================================
