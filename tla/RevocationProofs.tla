--------------------------- MODULE RevocationProofs ---------------------------
(***************************************************************************)
(* Proofs about Revocation, for every number of users, requests, edits and *)
(* faults, and for every TTL.                                              *)
(***************************************************************************)
EXTENDS Revocation, TLAPS

ReqType ==
    {Free} \cup [at : {"query"}, user : User]
    \cup [at : {"set"}, user : User, val : BOOLEAN, wait : 0 .. MaxQueryTicks]
    \cup [at : {"done"}, user : User, val : BOOLEAN]

SyncType ==
    {NoSync} \cup [at : {"fetched"}, list : [User -> Record]]
    \cup [at : {"loaded"}, list : [User -> Record],
          local : [User -> BOOLEAN], todo : SUBSET User]

-------------------------------------------------------------------------------
(* What the steps of a request have in their records. *)

LEMMA ReqFields ==
    ASSUME TypeOK, NEW w \in Worker
    PROVE  /\ req[w] \in ReqType
           /\ req[w].at \in {"query", "set", "done"} => req[w].user \in User
           /\ req[w].at \in {"set", "done"} => req[w].val \in BOOLEAN
           /\ req[w].at = "set" => req[w].wait \in 0 .. MaxQueryTicks
<1>1. req[w] \in ReqType
  BY DEF TypeOK, ReqType
<1> QED
  BY <1>1 DEF ReqType, Free

LEMMA SyncFields ==
    ASSUME TypeOK
    PROVE  /\ sync \in SyncType
           /\ sync.at \in {"fetched", "loaded"} => sync.list \in [User -> Record]
           /\ sync.at = "loaded" => /\ sync.local \in [User -> BOOLEAN]
                                    /\ sync.todo \in SUBSET User
<1>1. sync \in SyncType
  BY DEF TypeOK, SyncType
<1> QED
  BY <1>1 DEF SyncType, NoSync

\* Writing the table keeps its types; so does leaving it alone.
LEMMA TableTyped ==
    ASSUME TypeOK, NEW u \in User, NEW b \in BOOLEAN,
           SetRevoked(u, b) \/ KeepTable
    PROVE  /\ revoked' \in [User -> BOOLEAN]
           /\ since' \in [User -> [BOOLEAN -> 0 .. Horizon]]
           /\ announced' \in [User -> {"no", "racing", "clean"}]
<1>1. CASE SetRevoked(u, b)
  <2>1. 0 \in 0 .. Horizon
    BY RevocationBounds DEF Horizon
  <2>2. revoked' \in [User -> BOOLEAN]
    BY <1>1 DEF SetRevoked, TypeOK
  <2>3. since' \in [User -> [BOOLEAN -> 0 .. Horizon]]
    <3>1. since[u] \in [BOOLEAN -> 0 .. Horizon]
      BY DEF TypeOK
    <3>2. [since[u] EXCEPT ![b] = 0] \in [BOOLEAN -> 0 .. Horizon]
      BY <2>1, <3>1
    <3> QED
      BY <1>1, <3>2 DEF SetRevoked, TypeOK
  <2>4. announced' \in [User -> {"no", "racing", "clean"}]
    BY <1>1 DEF SetRevoked, TypeOK
  <2> QED
    BY <2>2, <2>3, <2>4
<1>2. CASE KeepTable
  BY <1>2 DEF KeepTable, TypeOK
<1> QED
  BY <1>1, <1>2

LEMMA KeptTyped ==
    ASSUME TypeOK, KeepTable
    PROVE  /\ revoked' \in [User -> BOOLEAN]
           /\ since' \in [User -> [BOOLEAN -> 0 .. Horizon]]
           /\ announced' \in [User -> {"no", "racing", "clean"}]
  BY DEF KeepTable, TypeOK

LEMMA CapTyped ==
    ASSUME NEW limit \in Nat, NEW n \in 0 .. limit
    PROVE  Cap(n + 1, limit) \in 0 .. limit
  BY DEF Cap

-------------------------------------------------------------------------------
(* Type correctness. *)

LEMMA RequestTyped ==
    ASSUME TypeOK, NEW w \in Worker, NEW u \in User, Request(w, u)
    PROVE  TypeOK'
<1>1. CASE Usable(u)
  <2>1. cache[u] \in Entry
    BY <1>1 DEF Usable, TypeOK
  <2>2. cache[u].revoked \in BOOLEAN
    BY <2>1 DEF Entry
  <2>3. [at |-> "done", user |-> u, val |-> cache[u].revoked] \in ReqType
    BY <2>2 DEF ReqType
  <2>4. req' \in [Worker -> ReqType]
    BY <1>1, <2>3 DEF Request, TypeOK, ReqType
  <2>5. KeepTable /\ UNCHANGED <<idp, lapsed, cache, hooks, sync, logins, edits,
                                 faults>>
    BY <1>1 DEF Request
  <2> QED
    BY <2>4, <2>5, KeptTyped DEF TypeOK, ReqType
<1>2. CASE ~Usable(u)
  <2>1. [at |-> "query", user |-> u] \in ReqType
    BY DEF ReqType
  <2>2. req' \in [Worker -> ReqType]
    BY <1>2, <2>1 DEF Request, TypeOK, ReqType
  <2>3. cache' \in [User -> Entry \cup {NoEntry}]
    BY <1>2 DEF Request, TypeOK
  <2>4. KeepTable /\ UNCHANGED <<idp, lapsed, hooks, sync, logins, edits, faults>>
    BY DEF Request
  <2> QED
    BY <2>2, <2>3, <2>4, KeptTyped DEF TypeOK, ReqType
<1> QED
  BY <1>1, <1>2

LEMMA ReadTyped ==
    ASSUME TypeOK, NEW w \in Worker, GetRevoked(w) \/ GetRevokedFails(w)
    PROVE  TypeOK'
<1>1. req[w].user \in User
  BY ReqFields DEF GetRevoked, GetRevokedFails
<1>2. \A val \in BOOLEAN : [at |-> "set", user |-> req[w].user, val |-> val,
                            wait |-> 0] \in ReqType
  BY <1>1, RevocationBounds DEF ReqType
<1>3. \A val \in BOOLEAN : Read(w, val) => req' \in [Worker -> ReqType]
  BY <1>2 DEF Read, TypeOK, ReqType
<1>4. req' \in [Worker -> ReqType]
  BY <1>1, <1>3 DEF GetRevoked, GetRevokedFails, TypeOK
<1>5. faults' \in 0 .. MaxFaults
  <2>1. CASE GetRevoked(w)
    BY <2>1 DEF GetRevoked, TypeOK
  <2>2. CASE GetRevokedFails(w)
    BY <2>2, RevocationBounds DEF GetRevokedFails, Fault, TypeOK
  <2> QED
    BY <2>1, <2>2
<1>6. KeepTable /\ UNCHANGED <<idp, lapsed, cache, hooks, sync, logins, edits>>
  BY DEF GetRevoked, GetRevokedFails
<1> QED
  BY <1>4, <1>5, <1>6, KeptTyped DEF TypeOK, ReqType

LEMMA SetEntryTyped ==
    ASSUME TypeOK, NEW w \in Worker, SetEntry(w)
    PROVE  TypeOK'
<1>1. req[w].user \in User /\ req[w].val \in BOOLEAN
  BY ReqFields DEF SetEntry
<1>2. [revoked |-> req[w].val, age |-> 0] \in Entry
  BY <1>1, RevocationBounds DEF Entry
<1>3. [at |-> "done", user |-> req[w].user, val |-> req[w].val] \in ReqType
  BY <1>1 DEF ReqType
<1> QED
  BY <1>1, <1>2, <1>3, KeptTyped DEF SetEntry, TypeOK, ReqType

LEMMA TickTyped ==
    ASSUME TypeOK, Tick
    PROVE  TypeOK'
<1>1. cache' \in [User -> Entry \cup {NoEntry}]
  <2>1. ASSUME NEW u \in User, cache[u] # NoEntry
        PROVE  [cache[u] EXCEPT !.age = Cap(@ + 1, TTL + 1)] \in Entry
    <3>1. cache[u] \in Entry
      BY <2>1 DEF TypeOK
    <3>2. Cap(cache[u].age + 1, TTL + 1) \in 0 .. TTL + 1
      BY <3>1, CapTyped, RevocationBounds DEF Entry
    <3> QED
      BY <3>1, <3>2 DEF Entry
  <2> QED
    BY <2>1 DEF Tick
<1>2. req' \in [Worker -> ReqType]
  <2>1. ASSUME NEW w \in Worker, req[w].at = "set"
        PROVE  [req[w] EXCEPT !.wait = @ + 1] \in ReqType
    <3>1. req[w] \in [at : {"set"}, user : User, val : BOOLEAN,
                      wait : 0 .. MaxQueryTicks]
      BY <2>1, ReqFields DEF ReqType, Free
    <3>2. req[w].wait + 1 \in 0 .. MaxQueryTicks
      BY <2>1, <3>1, RevocationBounds DEF Tick
    <3> QED
      BY <3>1, <3>2 DEF ReqType
  <2>2. \A w \in Worker : req[w] \in ReqType
    BY ReqFields
  <2> QED
    BY <2>1, <2>2 DEF Tick
<1>3. since' \in [User -> [BOOLEAN -> 0 .. Horizon]]
  <2>1. ASSUME NEW u \in User, NEW b \in BOOLEAN
        PROVE  (IF revoked[u] = b THEN 0 ELSE Cap(since[u][b] + 1, Horizon))
                  \in 0 .. Horizon
    BY CapTyped, RevocationBounds DEF TypeOK, Horizon
  <2> QED
    BY <2>1 DEF Tick
<1> QED
  BY <1>1, <1>2, <1>3 DEF Tick, TypeOK, ReqType

\* What comes from outside: the provider, the webhook calls, operators, logins.
LEMMA ProviderTyped ==
    ASSUME TypeOK, NEW u \in User, NEW kind \in Kind, ProviderChange(u, kind)
    PROVE  TypeOK'
<1>1. edits' \in 0 .. MaxEdits
  BY RevocationBounds DEF ProviderChange, Edit, TypeOK
<1>2. [kind |-> kind, n |-> edits'] \in Record
  BY <1>1 DEF Record
<1> QED
  BY <1>1, <1>2, KeptTyped DEF ProviderChange, TypeOK

LEMMA BanLapsesTyped ==
    ASSUME TypeOK, NEW u \in User, BanLapses(u)
    PROVE  TypeOK'
<1>1. idp[u].n \in 0 .. MaxEdits
  BY DEF TypeOK, Record
<1> QED
  BY <1>1, KeptTyped DEF BanLapses, TypeOK

LEMMA HookTyped ==
    ASSUME TypeOK, NEW h \in hooks,
           LoseHook(h) \/ HandleHook(h) \/ HandleHookFails(h) \/ Invalidate(h)
    PROVE  TypeOK'
<1>1. h \in [user : User, rec : Record, at : {"sent", "written"}]
  BY DEF TypeOK
<1>2. [h EXCEPT !.at = "written"]
        \in [user : User, rec : Record, at : {"sent", "written"}]
  BY <1>1
<1>3. hooks' \subseteq [user : User, rec : Record, at : {"sent", "written"}]
  BY <1>2 DEF LoseHook, HandleHook, HandleHookFails, Invalidate, Written, TypeOK
<1>4. faults' \in 0 .. MaxFaults
  BY RevocationBounds
     DEF LoseHook, HandleHook, HandleHookFails, Invalidate, Fault, TypeOK
<1>5. CASE LoseHook(h) \/ HandleHookFails(h)
  BY <1>3, <1>4, <1>5, KeptTyped DEF LoseHook, HandleHookFails, TypeOK
<1>6. CASE HandleHook(h)
  <2>1. ShouldRevoke(h.rec) \in BOOLEAN /\ h.user \in User
    BY <1>1 DEF ShouldRevoke
  <2> QED
    BY <1>3, <1>4, <1>6, <2>1, TableTyped DEF HandleHook, TypeOK
<1>7. CASE Invalidate(h)
  <2>1. announced' \in [User -> {"no", "racing", "clean"}]
    BY <1>7 DEF Invalidate, Announce, TypeOK
  <2> QED
    BY <1>3, <1>4, <1>7, <2>1 DEF Invalidate, TypeOK
<1> QED
  BY <1>5, <1>6, <1>7

LEMMA OperateTyped ==
    ASSUME TypeOK, NEW u \in User,
           \/ \E b \in BOOLEAN : Operate(u, b)
           \/ LoginAccepted(u) \/ MintToken(u)
    PROVE  TypeOK'
<1>1. edits' \in 0 .. MaxEdits
  <2>1. Edit \/ UNCHANGED edits
    BY DEF Operate, LoginAccepted, MintToken
  <2> QED
    BY <2>1, RevocationBounds DEF Edit, TypeOK
<1>2. CASE \E b \in BOOLEAN : Operate(u, b)
  BY <1>1, <1>2, TableTyped DEF Operate, TypeOK
<1>3. CASE LoginAccepted(u) \/ MintToken(u)
  BY <1>1, <1>3, TableTyped, KeptTyped DEF LoginAccepted, MintToken, TypeOK
<1> QED
  BY <1>2, <1>3

LEMMA SyncTyped ==
    ASSUME TypeOK,
           \/ SyncFetch \/ SyncLoad \/ SyncAborts
           \/ \E u \in User : SyncFetchShifts(u) \/ SyncUser(u) \/ SyncUserFails(u)
    PROVE  TypeOK'
<1>1. CASE SyncFetch
  <2>1. [at |-> "fetched", list |-> idp] \in SyncType
    BY DEF SyncType, TypeOK
  <2> QED
    BY <1>1, <2>1, KeptTyped DEF SyncFetch, TypeOK, SyncType
<1>2. CASE SyncLoad
  <2>1. [at |-> "loaded", list |-> sync.list, local |-> revoked, todo |-> User]
          \in SyncType
    BY <1>2, SyncFields DEF SyncLoad, SyncType, TypeOK
  <2> QED
    BY <1>2, <2>1, KeptTyped DEF SyncLoad, TypeOK, SyncType
<1>3. CASE SyncAborts
  BY <1>3, KeptTyped, RevocationBounds DEF SyncAborts, Fault, TypeOK
<1>4. ASSUME NEW u \in User, SyncUser(u) \/ SyncUserFails(u)
      PROVE  TypeOK'
  <2>1. sync.at = "loaded" /\ SyncDone(u)
    BY <1>4 DEF SyncUser, SyncUserFails
  <2>2. sync' \in SyncType
    <3>1. sync \in [at : {"loaded"}, list : [User -> Record],
                    local : [User -> BOOLEAN], todo : SUBSET User]
      BY <2>1, SyncFields DEF SyncType, NoSync
    <3>2. [sync EXCEPT !.todo = @ \ {u}] \in SyncType
      BY <3>1 DEF SyncType
    <3> QED
      BY <2>1, <3>2 DEF SyncDone, SyncType
  <2>3. ShouldRevoke(sync.list[u]) \in BOOLEAN
    BY DEF ShouldRevoke
  <2>4. faults' \in 0 .. MaxFaults
    BY <1>4, RevocationBounds DEF SyncUser, SyncUserFails, Fault, TypeOK
  <2>5. SetRevoked(u, ShouldRevoke(sync.list[u])) \/ KeepTable
    BY <1>4 DEF SyncUser, SyncUserFails
  <2>6. UNCHANGED <<idp, lapsed, cache, req, hooks, logins, edits>>
    BY <1>4 DEF SyncUser, SyncUserFails
  <2>7. /\ revoked' \in [User -> BOOLEAN]
        /\ since' \in [User -> [BOOLEAN -> 0 .. Horizon]]
        /\ announced' \in [User -> {"no", "racing", "clean"}]
    BY <2>3, <2>5, TableTyped
  <2> QED
    BY <2>2, <2>4, <2>6, <2>7 DEF TypeOK, SyncType
<1>5. ASSUME NEW u \in User, SyncFetchShifts(u)
      PROVE  TypeOK'
  <2>1. [idp[u] EXCEPT !.kind = "deleted"] \in Record
    <3>1. idp[u] \in Record /\ "deleted" \in Kind
      BY DEF TypeOK, Kind
    <3> QED
      BY <3>1 DEF Record
  <2>2. [idp EXCEPT ![u].kind = "deleted"] \in [User -> Record]
    BY <2>1 DEF TypeOK
  <2>3. [at |-> "fetched", list |-> [idp EXCEPT ![u].kind = "deleted"]] \in SyncType
    BY <2>2 DEF SyncType
  <2>4. edits' \in 0 .. MaxEdits
    BY <1>5, RevocationBounds DEF SyncFetchShifts, Edit, TypeOK
  <2>5. sync' \in SyncType
    BY <1>5, <2>3 DEF SyncFetchShifts
  <2>6. KeepTable /\ UNCHANGED <<idp, lapsed, cache, req, hooks, logins, faults>>
    BY <1>5 DEF SyncFetchShifts
  <2> QED
    BY <2>4, <2>5, <2>6, KeptTyped DEF TypeOK, SyncType
<1> QED
  BY <1>1, <1>2, <1>3, <1>4, <1>5

LEMMA TypeStep ==
    ASSUME TypeOK, [Next]_vars
    PROVE  TypeOK'
<1>1. ASSUME NEW w \in Worker,
             \/ \E u \in User : Request(w, u)
             \/ GetRevoked(w) \/ GetRevokedFails(w) \/ SetEntry(w)
      PROVE  TypeOK'
  BY <1>1, RequestTyped, ReadTyped, SetEntryTyped
<1>2. ASSUME NEW w \in Worker, Finish(w) PROVE TypeOK'
  BY <1>2, KeptTyped DEF Finish, TypeOK
<1>3. CASE EvictExpired \/ Restart
  BY <1>3, KeptTyped DEF EvictExpired, Restart, TypeOK
<1>4. CASE Tick
  BY <1>4, TickTyped
<1>5. ASSUME NEW u \in User,
             \/ \E kind \in Kind : ProviderChange(u, kind)
             \/ BanLapses(u)
             \/ \E b \in BOOLEAN : Operate(u, b)
             \/ LoginAccepted(u) \/ MintToken(u)
      PROVE  TypeOK'
  BY <1>5, ProviderTyped, BanLapsesTyped, OperateTyped
<1>6. ASSUME NEW h \in hooks,
             LoseHook(h) \/ HandleHook(h) \/ HandleHookFails(h) \/ Invalidate(h)
      PROVE  TypeOK'
  BY <1>6, HookTyped
<1>7. CASE \/ SyncFetch \/ SyncLoad \/ SyncAborts
           \/ \E u \in User : SyncFetchShifts(u) \/ SyncUser(u) \/ SyncUserFails(u)
  BY <1>7, SyncTyped
<1>8. CASE UNCHANGED vars
  BY <1>8 DEF vars, TypeOK
<1> QED
  BY <1>1, <1>2, <1>3, <1>4, <1>5, <1>6, <1>7, <1>8 DEF Next

\* Every state of the revocation machinery is well formed.
THEOREM RevocationTyped == Spec => []TypeOK
<1>1. Init => TypeOK
  BY RevocationBounds
     DEF Init, TypeOK, Record, Kind, Free, NoSync, Horizon, Entry
<1> QED
  BY <1>1, TypeStep, PTL DEF Spec

-------------------------------------------------------------------------------
(* What a step may do to the table, the cache and the checks in flight. *)

TableMoves == KeepTable \/ \E u \in User, b \in BOOLEAN : SetRevoked(u, b)

\* Only the middleware, the janitor, a restart, the clock and the end of a
\* webhook call touch the cache or a check; everyone else moves the table.
LEMMA StepKinds ==
    ASSUME TypeOK, [Next]_vars
    PROVE  \/ UNCHANGED <<cache, req>> /\ TableMoves
           \/ \E h \in hooks : Invalidate(h)
           \/ EvictExpired \/ Restart \/ Tick
           \/ \E w \in Worker : \/ \E u \in User : Request(w, u)
                                \/ GetRevoked(w) \/ GetRevokedFails(w)
                                \/ SetEntry(w) \/ Finish(w)
<1> DEFINE Outside == UNCHANGED <<cache, req>> /\ TableMoves
<1>1. ASSUME NEW u \in User,
             \/ \E kind \in Kind : ProviderChange(u, kind)
             \/ BanLapses(u) \/ LoginAccepted(u)
             \/ SyncFetchShifts(u) \/ SyncUserFails(u)
      PROVE  Outside
  BY <1>1 DEF ProviderChange, BanLapses, LoginAccepted, SyncFetchShifts,
              SyncUserFails, TableMoves
<1>2. ASSUME NEW u \in User,
             (\E b \in BOOLEAN : Operate(u, b)) \/ MintToken(u)
      PROVE  Outside
  BY <1>2 DEF Operate, MintToken, TableMoves
<1>3. ASSUME NEW u \in User, SyncUser(u) PROVE Outside
  <2>1. ShouldRevoke(sync.list[u]) \in BOOLEAN
    BY DEF ShouldRevoke
  <2> QED
    BY <1>3, <2>1 DEF SyncUser, TableMoves
<1>4. ASSUME NEW h \in hooks, LoseHook(h) \/ HandleHookFails(h) PROVE Outside
  BY <1>4 DEF LoseHook, HandleHookFails, TableMoves
<1>5. ASSUME NEW h \in hooks, HandleHook(h) PROVE Outside
  <2>1. ShouldRevoke(h.rec) \in BOOLEAN /\ h.user \in User
    BY DEF ShouldRevoke, TypeOK
  <2> QED
    BY <1>5, <2>1 DEF HandleHook, TableMoves
<1>6. CASE SyncFetch \/ SyncLoad \/ SyncAborts
  BY <1>6 DEF SyncFetch, SyncLoad, SyncAborts, TableMoves
<1>7. CASE UNCHANGED vars
  BY <1>7 DEF vars, TableMoves, KeepTable
<1> QED
  BY <1>1, <1>2, <1>3, <1>4, <1>5, <1>6, <1>7 DEF Next

\* The value the table has now is no time old.
SinceNow == \A u \in User : since[u][revoked[u]] = 0

LEMMA SinceNowStep ==
    ASSUME TypeOK, SinceNow, [Next]_vars
    PROVE  SinceNow'
<1>1. CASE UNCHANGED <<revoked, since>>
  BY <1>1 DEF SinceNow
<1>2. ASSUME NEW u \in User, NEW b \in BOOLEAN, SetRevoked(u, b)
      PROVE  SinceNow'
  <2>1. revoked'[u] = b /\ since'[u][b] = 0
    BY <1>2 DEF SetRevoked, TypeOK
  <2>2. \A v \in User \ {u} : revoked'[v] = revoked[v] /\ since'[v] = since[v]
    BY <1>2 DEF SetRevoked, TypeOK
  <2> QED
    BY <2>1, <2>2 DEF SinceNow
<1>3. CASE Tick
  BY <1>3 DEF Tick, SinceNow, TypeOK
<1> QED
  <2>1. KeepTable => UNCHANGED <<revoked, since>>
    BY DEF KeepTable
  <2>2. ASSUME NEW w \in Worker,
               \/ \E u \in User : Request(w, u)
               \/ GetRevoked(w) \/ GetRevokedFails(w)
               \/ SetEntry(w) \/ Finish(w)
        PROVE  KeepTable
    BY <2>2 DEF Request, GetRevoked, GetRevokedFails, SetEntry, Finish
  <2>3. ASSUME NEW h \in hooks, Invalidate(h) PROVE UNCHANGED <<revoked, since>>
    BY <2>3 DEF Invalidate
  <2>4. EvictExpired \/ Restart => KeepTable
    BY DEF EvictExpired, Restart
  <2> QED
    BY <1>1, <1>2, <1>3, <2>1, <2>2, <2>3, <2>4, StepKinds DEF TableMoves

-------------------------------------------------------------------------------
(* How old an answer b can be: a check in flight read it at most wait ticks *)
(* ago, a usable entry was filled age ticks ago by such a check.            *)

FillRecent(w, b) ==
    req[w].at = "set" /\ req[w].val = b
        => since[req[w].user][b] <= req[w].wait

EntryRecent(u, b) ==
    Usable(u) /\ cache[u].revoked = b
        => since[u][b] <= cache[u].age + MaxQueryTicks

Recent(b) == /\ \A w \in Worker : FillRecent(w, b)
             /\ \A u \in User : EntryRecent(u, b)

LEMMA EntryFields ==
    ASSUME TypeOK, NEW u \in User, cache[u] # NoEntry
    PROVE  cache[u].revoked \in BOOLEAN /\ cache[u].age \in 0 .. TTL + 1
  BY DEF TypeOK, Entry

LEMMA SinceFields ==
    ASSUME TypeOK, NEW u \in User, NEW b \in BOOLEAN
    PROVE  since[u][b] \in 0 .. Horizon
  BY DEF TypeOK

\* Moving the table makes no answer older.
LEMMA TableKeepsRecent ==
    ASSUME TypeOK, NEW b \in BOOLEAN, Recent(b), TableMoves, UNCHANGED <<cache, req>>
    PROVE  Recent(b)'
<1>1. CASE KeepTable
  BY <1>1 DEF KeepTable, Recent, FillRecent, EntryRecent, Usable
<1>2. ASSUME NEW u \in User, NEW c \in BOOLEAN, SetRevoked(u, c)
      PROVE  Recent(b)'
  <2>1. \A v \in User : since'[v][b] = 0 \/ since'[v][b] = since[v][b]
    BY <1>2 DEF SetRevoked, TypeOK
  <2>2. ASSUME NEW w \in Worker PROVE FillRecent(w, b)'
    <3>1. SUFFICES ASSUME req[w].at = "set", req[w].val = b
                   PROVE  since'[req[w].user][b] <= req[w].wait
      BY DEF FillRecent
    <3>2. req[w].user \in User /\ req[w].wait \in Nat
      BY <3>1, ReqFields, RevocationBounds
    <3>3. since[req[w].user][b] <= req[w].wait
      BY <3>1 DEF Recent, FillRecent
    <3> QED
      BY <2>1, <3>2, <3>3
  <2>3. ASSUME NEW v \in User PROVE EntryRecent(v, b)'
    <3>1. SUFFICES ASSUME Usable(v), cache[v].revoked = b
                   PROVE  since'[v][b] <= cache[v].age + MaxQueryTicks
      BY DEF EntryRecent, Usable
    <3>2. cache[v].age \in Nat
      BY <3>1, EntryFields, RevocationBounds DEF Usable
    <3>3. since[v][b] <= cache[v].age + MaxQueryTicks
      BY <3>1 DEF Recent, EntryRecent
    <3> QED
      BY <2>1, <3>2, <3>3, RevocationBounds
  <2> QED
    BY <2>2, <2>3 DEF Recent
<1> QED
  BY <1>1, <1>2 DEF TableMoves

\* A check or an entry that is dropped, and one that is kept, stay recent.
LEMMA DroppingKeepsRecent ==
    ASSUME TypeOK, NEW b \in BOOLEAN, Recent(b), UNCHANGED <<revoked, since>>,
           \A w \in Worker : req'[w] = req[w] \/ req'[w].at # "set",
           \A u \in User : cache'[u] = cache[u] \/ cache'[u] = NoEntry
    PROVE  Recent(b)'
<1>1. ASSUME NEW w \in Worker PROVE FillRecent(w, b)'
  <2>1. CASE req'[w] = req[w]
    BY <2>1 DEF Recent, FillRecent
  <2>2. CASE req'[w].at # "set"
    BY <2>2 DEF FillRecent
  <2> QED
    BY <2>1, <2>2
<1>2. ASSUME NEW u \in User PROVE EntryRecent(u, b)'
  <2>1. CASE cache'[u] = cache[u]
    BY <2>1 DEF Recent, EntryRecent, Usable
  <2>2. CASE cache'[u] = NoEntry
    BY <2>2 DEF EntryRecent, Usable
  <2> QED
    BY <2>1, <2>2
<1> QED
  BY <1>1, <1>2 DEF Recent

\* A step in which a call fails is counted.
LEMMA FaultsAreCounted ==
    ASSUME TypeOK, Fault
    PROVE  faults' # 0
<1>1. faults \in Nat
  BY RevocationBounds DEF TypeOK
<1> QED
  BY <1>1 DEF Fault

\* The table's own answer is no time old; the one a failed query makes up is
\* FALSE, so it matters for b = FALSE only.
LEMMA ReadKeepsRecent ==
    ASSUME TypeOK, SinceNow, NEW b \in BOOLEAN, Recent(b),
           b = TRUE \/ faults' = 0,
           NEW w \in Worker, GetRevoked(w) \/ GetRevokedFails(w)
    PROVE  Recent(b)'
<1>1. UNCHANGED <<cache, revoked, since>>
  BY DEF GetRevoked, GetRevokedFails, KeepTable
<1>2. req[w].user \in User
  BY ReqFields DEF GetRevoked, GetRevokedFails
<1>3. ~(GetRevokedFails(w) /\ faults' = 0)
  BY FaultsAreCounted DEF GetRevokedFails
<1>4. PICK val \in BOOLEAN : /\ Read(w, val)
                             /\ val = b => revoked[req[w].user] = b
  BY <1>2, <1>3 DEF GetRevoked, GetRevokedFails, TypeOK
<1>5. ASSUME NEW x \in Worker PROVE FillRecent(x, b)'
  <2>1. CASE x = w
    <3>1. /\ req'[w].user = req[w].user /\ req'[w].val = val
          /\ req'[w].wait = 0
      BY <1>4 DEF Read, TypeOK
    <3>2. val = b => since[req[w].user][b] = 0
      BY <1>2, <1>4 DEF SinceNow
    <3> QED
      BY <1>1, <2>1, <3>1, <3>2 DEF FillRecent
  <2>2. CASE x # w
    <3>1. req'[x] = req[x]
      BY <1>4, <2>2 DEF Read, TypeOK
    <3> QED
      BY <1>1, <3>1 DEF Recent, FillRecent
  <2> QED
    BY <2>1, <2>2
<1>6. \A u \in User : EntryRecent(u, b)'
  BY <1>1 DEF Recent, EntryRecent, Usable
<1> QED
  BY <1>5, <1>6 DEF Recent

\* cache.Set hands the age of the answer on to the entry.
LEMMA SetEntryKeepsRecent ==
    ASSUME TypeOK, NEW b \in BOOLEAN, Recent(b), NEW w \in Worker, SetEntry(w)
    PROVE  Recent(b)'
<1>1. UNCHANGED <<revoked, since>>
  BY DEF SetEntry, KeepTable
<1>2. req[w].user \in User /\ req[w].wait \in 0 .. MaxQueryTicks
  BY ReqFields DEF SetEntry
<1>3. ASSUME NEW x \in Worker PROVE FillRecent(x, b)'
  <2>1. req'[x] = req[x] \/ req'[x].at = "done"
    BY DEF SetEntry, TypeOK
  <2> QED
    BY <1>1, <2>1 DEF Recent, FillRecent
<1>4. ASSUME NEW u \in User PROVE EntryRecent(u, b)'
  <2>1. CASE u = req[w].user
    <3>1. cache'[u].revoked = req[w].val /\ cache'[u].age = 0
      BY <2>1 DEF SetEntry, TypeOK
    <3>2. req[w].val = b => since[u][b] <= req[w].wait
      BY <2>1 DEF SetEntry, Recent, FillRecent
    <3>3. since[u][b] \in Nat
      BY SinceFields, RevocationBounds DEF Horizon
    <3> QED
      BY <1>1, <1>2, <3>1, <3>2, <3>3, RevocationBounds DEF EntryRecent
  <2>2. CASE u # req[w].user
    <3>1. cache'[u] = cache[u]
      BY <2>2 DEF SetEntry, TypeOK
    <3> QED
      BY <1>1, <3>1 DEF Recent, EntryRecent, Usable
  <2> QED
    BY <2>1, <2>2
<1> QED
  BY <1>3, <1>4 DEF Recent

\* The clock ages the table's value, the checks and the entries alike.
LEMMA TickKeepsRecent ==
    ASSUME TypeOK, NEW b \in BOOLEAN, Recent(b), Tick
    PROVE  Recent(b)'
<1>1. \A u \in User : since'[u][b] <= since[u][b] + 1
  <2>1. ASSUME NEW u \in User PROVE since'[u][b] <= since[u][b] + 1
    <3>1. since[u][b] \in Nat
      BY SinceFields, RevocationBounds DEF Horizon
    <3>2. since'[u][b] = 0 \/ since'[u][b] = Cap(since[u][b] + 1, Horizon)
      BY DEF Tick
    <3>3. Cap(since[u][b] + 1, Horizon) <= since[u][b] + 1
      BY <3>1, RevocationBounds DEF Cap, Horizon
    <3> QED
      BY <3>1, <3>2, <3>3
  <2> QED
    BY <2>1
<1>2. ASSUME NEW w \in Worker PROVE FillRecent(w, b)'
  <2>1. CASE req[w].at = "set"
    <3>1. req[w] \in [at : {"set"}, user : User, val : BOOLEAN,
                      wait : 0 .. MaxQueryTicks]
      BY <2>1, ReqFields DEF ReqType, Free
    <3>2. /\ req'[w].user = req[w].user /\ req'[w].val = req[w].val
          /\ req'[w].wait = req[w].wait + 1
      BY <2>1, <3>1 DEF Tick
    <3>3. req[w].val = b => since[req[w].user][b] <= req[w].wait
      BY <2>1 DEF Recent, FillRecent
    <3>4. since[req[w].user][b] \in Nat /\ since'[req[w].user][b] \in Nat
      <4>1. TypeOK'
        BY TickTyped
      <4> QED
        BY <3>1, <4>1, RevocationBounds DEF TypeOK, Horizon
    <3> QED
      BY <1>1, <3>1, <3>2, <3>3, <3>4, RevocationBounds DEF FillRecent
  <2>2. CASE req[w].at # "set"
    BY <2>2 DEF Tick, FillRecent
  <2> QED
    BY <2>1, <2>2
<1>3. ASSUME NEW u \in User PROVE EntryRecent(u, b)'
  <2>1. SUFFICES ASSUME Usable(u)', cache'[u].revoked = b
                 PROVE  since'[u][b] <= cache'[u].age + MaxQueryTicks
    BY DEF EntryRecent
  <2>2. cache[u] # NoEntry
    BY <2>1 DEF Tick, Usable
  <2>3. cache[u] \in Entry
    BY <2>2 DEF TypeOK
  <2>4. /\ cache'[u].revoked = cache[u].revoked
        /\ cache'[u].age = Cap(cache[u].age + 1, TTL + 1)
    BY <2>2, <2>3 DEF Tick, Entry
  <2>5. cache'[u].age = cache[u].age + 1 /\ cache[u].age <= TTL
    BY <2>1, <2>3, <2>4, RevocationBounds DEF Usable, Cap, Entry
  <2>6. since[u][b] <= cache[u].age + MaxQueryTicks
    BY <2>1, <2>2, <2>4, <2>5 DEF Recent, EntryRecent, Usable
  <2>7. since[u][b] \in Nat /\ since'[u][b] \in Nat
    <3>1. TypeOK'
      BY TickTyped
    <3> QED
      BY <3>1, RevocationBounds DEF TypeOK, Horizon
  <2> QED
    BY <1>1, <2>3, <2>5, <2>6, <2>7, RevocationBounds DEF Entry
<1> QED
  BY <1>2, <1>3 DEF Recent

LEMMA RecentStep ==
    ASSUME TypeOK, SinceNow, NEW b \in BOOLEAN, Recent(b),
           b = TRUE \/ faults' = 0, [Next]_vars
    PROVE  Recent(b)'
<1>1. CASE UNCHANGED <<cache, req>> /\ TableMoves
  BY <1>1, TableKeepsRecent
<1>2. ASSUME NEW h \in hooks, Invalidate(h) PROVE Recent(b)'
  <2>1. /\ UNCHANGED <<revoked, since, req>>
        /\ \A u \in User : cache'[u] = cache[u] \/ cache'[u] = NoEntry
    BY <1>2 DEF Invalidate, TypeOK
  <2> QED
    BY <2>1, DroppingKeepsRecent
<1>3. CASE EvictExpired
  <2>1. /\ UNCHANGED <<revoked, since, req>>
        /\ \A u \in User : cache'[u] = cache[u] \/ cache'[u] = NoEntry
    BY <1>3 DEF EvictExpired, KeepTable
  <2> QED
    BY <2>1, DroppingKeepsRecent
<1>4. CASE Restart
  <2>1. /\ UNCHANGED <<revoked, since>>
        /\ \A w \in Worker : req'[w].at # "set"
        /\ \A u \in User : cache'[u] = NoEntry
    BY <1>4 DEF Restart, KeepTable, Free
  <2> QED
    BY <2>1, DroppingKeepsRecent
<1>5. CASE Tick
  BY <1>5, TickKeepsRecent
<1>6. ASSUME NEW w \in Worker, NEW u \in User, Request(w, u) PROVE Recent(b)'
  <2>1. UNCHANGED <<revoked, since>>
    BY <1>6 DEF Request, KeepTable
  <2>2. \A x \in Worker : req'[x] = req[x] \/ req'[x].at # "set"
    BY <1>6 DEF Request, TypeOK
  <2>3. \A v \in User : cache'[v] = cache[v] \/ cache'[v] = NoEntry
    BY <1>6 DEF Request, TypeOK
  <2> QED
    BY <2>1, <2>2, <2>3, DroppingKeepsRecent
<1>7. ASSUME NEW w \in Worker, Finish(w) PROVE Recent(b)'
  <2>1. /\ UNCHANGED <<revoked, since, cache>>
        /\ \A x \in Worker : req'[x] = req[x] \/ req'[x].at # "set"
    BY <1>7 DEF Finish, KeepTable, Free, TypeOK
  <2> QED
    BY <2>1, DroppingKeepsRecent
<1> QED
  BY <1>1, <1>2, <1>3, <1>4, <1>5, <1>6, <1>7, StepKinds, ReadKeepsRecent,
     SetEntryKeepsRecent

\* An answer comes from a usable entry or from a check that fills the cache.
LEMMA AnswerSteps ==
    ASSUME TypeOK, [Next]_vars, NEW w \in Worker, NEW u \in User,
           NEW b \in BOOLEAN, AnsweredNow(w, u, b)
    PROVE  (\E v \in User : Request(w, v)) \/ SetEntry(w)
<1>1. req[w].at # "done" /\ req'[w].at = "done"
  BY DEF AnsweredNow
<1>2. ASSUME NEW x \in Worker,
             \/ \E v \in User : Request(x, v)
             \/ GetRevoked(x) \/ GetRevokedFails(x)
             \/ SetEntry(x) \/ Finish(x)
      PROVE  x # w => req'[w] = req[w]
  BY <1>2 DEF Request, GetRevoked, GetRevokedFails, Read, SetEntry, Finish, TypeOK
<1>3. ~(GetRevoked(w) \/ GetRevokedFails(w) \/ Finish(w))
  BY <1>1 DEF GetRevoked, GetRevokedFails, Read, Finish, TypeOK
<1>4. ASSUME NEW h \in hooks, Invalidate(h) PROVE FALSE
  BY <1>1, <1>4 DEF Invalidate
<1>5. ~(EvictExpired \/ Restart)
  BY <1>1 DEF EvictExpired, Restart, Free
<1>6. ~Tick
  <2>1. req[w] \in ReqType
    BY ReqFields
  <2> QED
    BY <1>1, <2>1 DEF Tick, ReqType, Free
<1> QED
  BY <1>1, <1>2, <1>3, <1>4, <1>5, <1>6, StepKinds

\* So an answer is as recent as what it comes from.
LEMMA AnswerRecent ==
    ASSUME TypeOK, NEW b \in BOOLEAN, Recent(b), [Next]_vars,
           NEW w \in Worker, NEW u \in User, AnsweredNow(w, u, b)
    PROVE  since[u][b] <= TTL + MaxQueryTicks
<1>1. since[u][b] \in Nat
  BY SinceFields, RevocationBounds DEF Horizon
<1>2. req[w].at # "done" /\ req'[w].at = "done"
  BY DEF AnsweredNow
<1>3. (\E v \in User : Request(w, v)) \/ SetEntry(w)
  BY AnswerSteps
<1>4. ASSUME NEW v \in User, Request(w, v)
      PROVE  since[u][b] <= TTL + MaxQueryTicks
  <2>1. Usable(v) /\ v = u /\ cache[u].revoked = b
    BY <1>2, <1>4 DEF Request, AnsweredNow, TypeOK
  <2>2. since[u][b] <= cache[u].age + MaxQueryTicks /\ cache[u].age <= TTL
    BY <2>1 DEF Recent, EntryRecent, Usable
  <2>3. cache[u].age \in Nat
    BY <2>1, EntryFields, RevocationBounds DEF Usable
  <2> QED
    BY <1>1, <2>2, <2>3, RevocationBounds
<1>5. CASE SetEntry(w)
  <2>1. req[w].user = u /\ req[w].val = b /\ req[w].at = "set"
    BY <1>5 DEF SetEntry, AnsweredNow, TypeOK
  <2>2. since[u][b] <= req[w].wait /\ req[w].wait \in 0 .. MaxQueryTicks
    BY <2>1, ReqFields DEF Recent, FillRecent
  <2> QED
    BY <1>1, <2>2, RevocationBounds
<1> QED
  BY <1>3, <1>4, <1>5

\* What has failed stays counted.
LEMMA FaultsStay ==
    ASSUME TypeOK, [Next]_vars, faults' = 0
    PROVE  faults = 0
<1>1. faults \in Nat
  BY RevocationBounds DEF TypeOK
<1>2. faults' \in {faults, faults + 1}
  BY DEF Next, vars, Request, GetRevoked, GetRevokedFails, Fault, SetEntry, Finish,
     EvictExpired, Tick, Restart, ProviderChange, BanLapses, Operate,
     LoginAccepted, MintToken, LoseHook, HandleHook, HandleHookFails, Invalidate,
     SyncFetch, SyncLoad, SyncAborts, SyncFetchShifts, SyncUser, SyncUserFails
<1> QED
  BY <1>1, <1>2

LEMMA InitRecent ==
    ASSUME Init, NEW b \in BOOLEAN
    PROVE  TypeOK /\ SinceNow /\ Recent(b)
<1>1. TypeOK
  BY RevocationBounds
     DEF Init, TypeOK, Record, Kind, Free, NoSync, Horizon, Entry
<1>2. SinceNow
  BY DEF Init, SinceNow
<1>3. Recent(b)
  BY DEF Init, Recent, FillRecent, EntryRecent, Usable, Free
<1> QED
  BY <1>1, <1>2, <1>3

\* A user who is refused was revoked in the table no longer ago than an entry
\* may live and a fill may take, whatever fails, restarts or interleaves.
THEOREM RefusalsStayRecent == Spec => RefusalsAreRecent
<1> DEFINE Inv == TypeOK /\ SinceNow /\ Recent(TRUE)
<1>1. Init => Inv
  BY InitRecent
<1>2. Inv /\ [Next]_vars => Inv'
  BY TypeStep, SinceNowStep, RecentStep
<1>3. Inv /\ [Next]_vars
      => [\A w \in Worker, u \in User :
            AnsweredNow(w, u, TRUE) => since[u][TRUE] <= TTL + MaxQueryTicks]_vars
  BY AnswerRecent
<1> QED
  BY <1>1, <1>2, <1>3, PTL DEF Spec, RefusalsAreRecent

\* Until a call fails, a user who is let through was not revoked in the table
\* that recently either: the promise of docs/auth.md for a lost webhook.
THEOREM AcceptancesStayRecent == Spec => AcceptancesAreRecent
<1> DEFINE Inv == TypeOK /\ SinceNow /\ (faults = 0 => Recent(FALSE))
<1>1. Init => Inv
  BY InitRecent
<1>2. Inv /\ [Next]_vars => Inv'
  <2>1. Inv /\ [Next]_vars => TypeOK' /\ SinceNow'
    BY TypeStep, SinceNowStep
  <2>2. ASSUME Inv, [Next]_vars, faults' = 0 PROVE Recent(FALSE)'
    <3>1. faults = 0
      BY <2>2, FaultsStay
    <3> QED
      BY <2>2, <3>1, RecentStep
  <2> QED
    BY <2>1, <2>2
<1>3. Inv /\ [Next]_vars
      => [\A w \in Worker, u \in User :
            faults = 0 /\ AnsweredNow(w, u, FALSE)
               => since[u][FALSE] <= TTL + MaxQueryTicks]_vars
  BY AnswerRecent
<1> QED
  BY <1>1, <1>2, <1>3, PTL DEF Spec, AcceptancesAreRecent

-------------------------------------------------------------------------------
(* A webhook call that ended with no fill of that user in flight: from then *)
(* on the table, the entry and every check in flight say revoked, until the *)
(* table is told otherwise.                                                 *)

Clean(u) ==
    announced[u] = "clean"
        => /\ revoked[u]
           /\ Usable(u) => cache[u].revoked = TRUE
           /\ \A w \in Worker : req[w].at = "set" /\ req[w].user = u
                                   => req[w].val = TRUE

\* Dropping checks and entries, with the table left alone, disturbs nothing.
LEMMA DroppingKeepsClean ==
    ASSUME TypeOK, NEW u \in User, Clean(u), KeepTable,
           \A w \in Worker : req'[w] = req[w] \/ req'[w].at # "set",
           cache'[u] = cache[u] \/ cache'[u] = NoEntry
    PROVE  Clean(u)'
<1>1. SUFFICES ASSUME announced'[u] = "clean"
               PROVE  /\ revoked'[u]
                      /\ Usable(u)' => cache'[u].revoked = TRUE
                      /\ \A w \in Worker : req'[w].at = "set" /\ req'[w].user = u
                                              => req'[w].val = TRUE
  BY DEF Clean
<1>2. announced[u] = "clean" /\ revoked'[u] = revoked[u]
  BY <1>1 DEF KeepTable
<1>3. revoked'[u]
  BY <1>2 DEF Clean
<1>4. Usable(u)' => cache'[u].revoked = TRUE
  BY <1>2 DEF Clean, Usable
<1>5. \A w \in Worker : req'[w].at = "set" /\ req'[w].user = u
                           => req'[w].val = TRUE
  BY <1>2 DEF Clean
<1> QED
  BY <1>3, <1>4, <1>5

LEMMA TableKeepsClean ==
    ASSUME TypeOK, NEW u \in User, Clean(u), TableMoves, UNCHANGED <<cache, req>>
    PROVE  Clean(u)'
<1>1. CASE KeepTable
  BY <1>1, DroppingKeepsClean
<1>2. ASSUME NEW v \in User, NEW b \in BOOLEAN, SetRevoked(v, b)
      PROVE  Clean(u)'
  <2>1. CASE v # u
    <3>1. revoked'[u] = revoked[u] /\ announced'[u] = announced[u]
      BY <1>2, <2>1 DEF SetRevoked, TypeOK
    <3> QED
      BY <3>1 DEF Clean, Usable
  <2>2. CASE v = u /\ b = TRUE
    <3>1. revoked'[u] = TRUE /\ announced'[u] = announced[u]
      BY <1>2, <2>2 DEF SetRevoked, TypeOK
    <3> QED
      BY <3>1 DEF Clean, Usable
  <2>3. CASE v = u /\ b = FALSE
    <3>1. announced'[u] = "no"
      BY <1>2, <2>3 DEF SetRevoked, TypeOK
    <3> QED
      BY <3>1 DEF Clean
  <2> QED
    BY <2>1, <2>2, <2>3
<1> QED
  BY <1>1, <1>2 DEF TableMoves

\* The end of a webhook call is where a user becomes "clean".
LEMMA InvalidateKeepsClean ==
    ASSUME TypeOK, NEW u \in User, Clean(u), NEW h \in hooks, Invalidate(h)
    PROVE  Clean(u)'
<1>1. h.user \in User /\ UNCHANGED <<revoked, req>>
  BY DEF TypeOK, Invalidate
<1>2. CASE h.user # u
  <2>1. announced'[u] = announced[u] /\ cache'[u] = cache[u]
    BY <1>1, <1>2 DEF Invalidate, Announce, TypeOK
  <2> QED
    BY <1>1, <2>1 DEF Clean, Usable
<1>3. CASE h.user = u
  <2>1. cache'[u] = NoEntry
    BY <1>3 DEF Invalidate, TypeOK
  <2>2. CASE revoked[u]
    <3>1. announced'[u] = "clean"
            => \A w \in Worker : ~(req[w].at = "set" /\ req[w].user = u)
      BY <1>3, <2>2 DEF Invalidate, Announce, TypeOK
    <3> QED
      BY <1>1, <2>1, <2>2, <3>1 DEF Clean, Usable
  <2>3. CASE ~revoked[u]
    <3>1. announced'[u] = announced[u]
      BY <1>3, <2>3 DEF Invalidate, Announce
    <3> QED
      BY <2>3, <3>1 DEF Clean
  <2> QED
    BY <2>2, <2>3
<1> QED
  BY <1>2, <1>3

LEMMA TickKeepsClean ==
    ASSUME TypeOK, NEW u \in User, Clean(u), Tick
    PROVE  Clean(u)'
<1>1. revoked'[u] = revoked[u] /\ announced'[u] = announced[u]
  BY DEF Tick
<1>2. ASSUME Usable(u)' PROVE Usable(u) /\ cache'[u].revoked = cache[u].revoked
  <2>1. cache[u] # NoEntry
    BY <1>2 DEF Tick, Usable
  <2>2. cache[u] \in Entry
    BY <2>1 DEF TypeOK
  <2>3. /\ cache'[u].revoked = cache[u].revoked
        /\ cache'[u].age = Cap(cache[u].age + 1, TTL + 1)
    BY <2>1, <2>2 DEF Tick, Entry
  <2>4. cache[u].age <= TTL
    BY <1>2, <2>2, <2>3, RevocationBounds DEF Usable, Cap, Entry
  <2> QED
    BY <2>1, <2>3, <2>4 DEF Usable
<1>3. ASSUME NEW w \in Worker, req'[w].at = "set"
      PROVE  /\ req[w].at = "set" /\ req'[w].user = req[w].user
             /\ req'[w].val = req[w].val
  <2>1. req[w].at = "set"
    BY <1>3 DEF Tick
  <2>2. req[w] \in [at : {"set"}, user : User, val : BOOLEAN,
                    wait : 0 .. MaxQueryTicks]
    BY <2>1, ReqFields DEF ReqType, Free
  <2> QED
    BY <2>1, <2>2 DEF Tick
<1> QED
  BY <1>1, <1>2, <1>3 DEF Clean

LEMMA MiddlewareKeepsClean ==
    ASSUME TypeOK, NEW u \in User, Clean(u), faults' = 0, NEW w \in Worker,
           \/ \E v \in User : Request(w, v)
           \/ GetRevoked(w) \/ GetRevokedFails(w)
           \/ SetEntry(w) \/ Finish(w)
    PROVE  Clean(u)'
<1>1. ASSUME NEW v \in User, Request(w, v) PROVE Clean(u)'
  <2>1. KeepTable
    BY <1>1 DEF Request
  <2>2. \A x \in Worker : req'[x] = req[x] \/ req'[x].at # "set"
    BY <1>1 DEF Request, TypeOK
  <2>3. cache'[u] = cache[u] \/ cache'[u] = NoEntry
    BY <1>1 DEF Request, TypeOK
  <2> QED
    BY <2>1, <2>2, <2>3, DroppingKeepsClean
<1>2. CASE Finish(w)
  <2>1. /\ KeepTable /\ cache'[u] = cache[u]
        /\ \A x \in Worker : req'[x] = req[x] \/ req'[x].at # "set"
    BY <1>2 DEF Finish, Free, TypeOK
  <2> QED
    BY <2>1, DroppingKeepsClean
<1>3. ~GetRevokedFails(w)
  BY FaultsAreCounted DEF GetRevokedFails
<1>4. CASE GetRevoked(w)
  <2>1. UNCHANGED <<cache, revoked, announced>>
    BY <1>4 DEF GetRevoked, KeepTable
  <2>2. req'[w].user = req[w].user /\ req'[w].val = revoked[req[w].user]
    BY <1>4 DEF GetRevoked, Read, TypeOK
  <2>3. \A x \in Worker \ {w} : req'[x] = req[x]
    BY <1>4 DEF GetRevoked, Read, TypeOK
  <2>4. revoked[u] \in BOOLEAN
    BY DEF TypeOK
  <2> QED
    BY <2>1, <2>2, <2>3, <2>4 DEF Clean, Usable
<1>5. CASE SetEntry(w)
  <2>1. UNCHANGED <<revoked, announced>>
    BY <1>5 DEF SetEntry, KeepTable
  <2>2. \A x \in Worker : req'[x] = req[x] \/ req'[x].at # "set"
    BY <1>5 DEF SetEntry, TypeOK
  <2>3. \/ cache'[u] = cache[u]
        \/ req[w].user = u /\ cache'[u].revoked = req[w].val
    BY <1>5 DEF SetEntry, TypeOK
  <2> QED
    BY <1>5, <2>1, <2>2, <2>3 DEF Clean, Usable, SetEntry
<1> QED
  BY <1>1, <1>2, <1>3, <1>4, <1>5

LEMMA CleanStep ==
    ASSUME TypeOK, NEW u \in User, Clean(u), faults' = 0, [Next]_vars
    PROVE  Clean(u)'
<1>1. CASE EvictExpired
  BY <1>1, DroppingKeepsClean DEF EvictExpired
<1>2. CASE Restart
  BY <1>2, DroppingKeepsClean DEF Restart, Free
<1> QED
  BY <1>1, <1>2, StepKinds, TableKeepsClean, InvalidateKeepsClean, TickKeepsClean,
     MiddlewareKeepsClean

\* Once a webhook call has seen a revocation through, with no fill of that user
\* in flight and no call failing, the user is not let through again until the
\* table says otherwise.
THEOREM AnnouncedStaysRefused == Spec => RefusedOnceAnnounced
<1> DEFINE Inv == TypeOK /\ (faults = 0 => \A u \in User : Clean(u))
<1>1. Init => Inv
  <2>1. Init => TypeOK
    BY InitRecent
  <2>2. Init => \A u \in User : Clean(u)
    BY DEF Init, Clean
  <2> QED
    BY <2>1, <2>2
<1>2. Inv /\ [Next]_vars => Inv'
  <2>1. Inv /\ [Next]_vars => TypeOK'
    BY TypeStep
  <2>2. ASSUME Inv, [Next]_vars, faults' = 0 PROVE \A u \in User : Clean(u)'
    <3>1. faults = 0
      BY <2>2, FaultsStay
    <3> QED
      BY <2>2, <3>1, CleanStep
  <2> QED
    BY <2>1, <2>2
<1>3. Inv /\ [Next]_vars
      => [\A w \in Worker, u \in User :
            faults = 0 /\ announced[u] = "clean" => ~AnsweredNow(w, u, FALSE)]_vars
  <2>1. SUFFICES ASSUME Inv, [Next]_vars, NEW w \in Worker, NEW u \in User,
                        faults = 0, announced[u] = "clean",
                        AnsweredNow(w, u, FALSE)
                 PROVE  FALSE
    BY Zenon
  <2>2. Clean(u)
    BY <2>1
  <2>3. (\E v \in User : Request(w, v)) \/ SetEntry(w)
    BY <2>1, AnswerSteps
  <2>4. ASSUME NEW v \in User, Request(w, v) PROVE FALSE
    <3>1. Usable(v) /\ v = u /\ cache[u].revoked = FALSE
      BY <2>1, <2>4 DEF Request, AnsweredNow, TypeOK
    <3> QED
      BY <2>1, <2>2, <3>1 DEF Clean
  <2>5. CASE SetEntry(w)
    <3>1. req[w].user = u /\ req[w].val = FALSE /\ req[w].at = "set"
      BY <2>1, <2>5 DEF SetEntry, AnsweredNow, TypeOK
    <3> QED
      BY <2>1, <2>2, <3>1 DEF Clean
  <2> QED
    BY <2>3, <2>4, <2>5
<1> QED
  BY <1>1, <1>2, <1>3, PTL DEF Spec, RefusedOnceAnnounced

===============================================================================
