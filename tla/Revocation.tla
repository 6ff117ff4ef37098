------------------------------ MODULE Revocation ------------------------------
(***************************************************************************)
(* Who may use the server: the identity provider's record of a user, the   *)
(* copy of it in users.revoked_at, and the copy of that in the middleware's *)
(* RevocationCache (internal/auth).  Five writers keep the copies in step   *)
(* and none of them holds a lock across its steps: requests that fill the   *)
(* cache, the webhook (internal/web), the six-hourly sync-users job and the *)
(* operator's revoke and reinstate (internal/khctl), and logins.            *)
(***************************************************************************)
EXTENDS Naturals, FiniteSets

CONSTANTS
    User,           \* users with a row in the users table
    Worker,         \* HTTP requests that may be served at the same time
    NoEntry,        \* the cache has no entry for a user
    TTL,            \* revocationTTL, in ticks of the clock
    MaxQueryTicks,  \* assumed: ticks from the table's answer to cache.Set
    MaxEdits,       \* bound of the model: changes at the provider, operator calls, logins
    MaxFaults       \* bound of the model: failed database or provider calls

ASSUME RevocationBounds ==
    /\ TTL \in Nat /\ MaxQueryTicks \in Nat
    /\ MaxEdits \in Nat /\ MaxFaults \in Nat

Kind == {"active", "banned", "deleted"}

\* The provider's record of a user; n tells one ban from the next.
Record == [kind : Kind, n : 0 .. MaxEdits]

Entry == [revoked : BOOLEAN, age : 0 .. TTL + 1]

ASSUME NoEntryIsNoEntry == NoEntry \notin Entry

VARIABLES
    idp,        \* idp[u]: the provider's record (auth.users)
    lapsed,     \* the bans whose banned_until has passed
    revoked,    \* revoked[u]: users.revoked_at IS NOT NULL
    cache,      \* cache[u]: RevocationCache.entries
    req,        \* req[w]: the revocation check of a request
    hooks,      \* webhook calls on their way or being handled
    sync,       \* the sync-users job
    logins,     \* users the provider has vouched for, their rows not written yet
    edits,      \* how much of MaxEdits is used up
    faults,     \* how much of MaxFaults is used up
    since,      \* history: since[u][b], ticks since revoked[u] last was b
    announced   \* history: announced[u], how a webhook saw a revocation through

vars == <<idp, lapsed, revoked, cache, req, hooks, sync, logins, edits, faults,
          since, announced>>

Cap(n, limit) == IF n < limit THEN n ELSE limit

Horizon == TTL + MaxQueryTicks + 1

\* handleUpdate and applyBanReconciliation read a record when they act on it: a
\* ban counts while its banned_until lies in the future.
ShouldRevoke(rec) ==
    rec.kind = "deleted" \/ (rec.kind = "banned" /\ rec.n \notin lapsed)

-------------------------------------------------------------------------------
(* The table.  Every write is one statement of its own. *)

SetRevoked(u, b) ==
    /\ revoked' = [revoked EXCEPT ![u] = b]
    /\ since' = [since EXCEPT ![u][b] = 0]
    /\ announced' = IF b THEN announced ELSE [announced EXCEPT ![u] = "no"]

KeepTable == UNCHANGED <<revoked, since, announced>>

Fault == faults < MaxFaults /\ faults' = faults + 1

Edit == edits < MaxEdits /\ edits' = edits + 1

-------------------------------------------------------------------------------
(* The middleware. *)

Free == [at |-> "idle"]

\* Mutated form of Usable: an entry is used for as long as it is there.
Usable_NoExpiry(u) == cache[u] # NoEntry

\* RevocationCache.Get finds an entry and it has not expired.
Usable(u) == cache[u] # NoEntry /\ cache[u].age <= TTL

\* Mutated form of Request: every hit renews the entry.
Request_Sliding(w, u) ==
    /\ req[w].at = "idle"
    /\ IF Usable(u)
       THEN /\ req' = [req EXCEPT ![w] = [at |-> "done", user |-> u,
                                           val |-> cache[u].revoked]]
            /\ cache' = [cache EXCEPT ![u].age = 0]
       ELSE /\ req' = [req EXCEPT ![w] = [at |-> "query", user |-> u]]
            /\ cache' = [cache EXCEPT ![u] = NoEntry]
    /\ KeepTable
    /\ UNCHANGED <<idp, lapsed, hooks, sync, logins, edits, faults>>

\* checkRevocation: a hit is answered from the cache; on a miss an expired entry
\* is deleted and the table is asked.
Request(w, u) ==
    /\ req[w].at = "idle"
    /\ IF Usable(u)
       THEN /\ req' = [req EXCEPT ![w] = [at |-> "done", user |-> u,
                                           val |-> cache[u].revoked]]
            /\ UNCHANGED cache
       ELSE /\ req' = [req EXCEPT ![w] = [at |-> "query", user |-> u]]
            /\ cache' = [cache EXCEPT ![u] = NoEntry]
    /\ KeepTable
    /\ UNCHANGED <<idp, lapsed, hooks, sync, logins, edits, faults>>

Read(w, val) ==
    req' = [req EXCEPT ![w] = [at |-> "set", user |-> req[w].user, val |-> val,
                                wait |-> 0]]

GetRevoked(w) ==
    /\ req[w].at = "query"
    /\ Read(w, revoked[req[w].user])
    /\ KeepTable
    /\ UNCHANGED <<idp, lapsed, cache, hooks, sync, logins, edits, faults>>

\* Mutated form of GetRevokedFails: no answer, and it goes into the cache.
GetRevokedFails_NoAnswer(w) ==
    /\ req[w].at = "query"
    /\ Fault
    /\ Read(w, NoEntry)
    /\ KeepTable
    /\ UNCHANGED <<idp, lapsed, cache, hooks, sync, logins, edits>>

\* revocationStoreAdapter.GetRevoked turns every error into (false, nil), so
\* the middleware takes a failed query for an answer.
GetRevokedFails(w) ==
    /\ req[w].at = "query"
    /\ Fault
    /\ Read(w, FALSE)
    /\ KeepTable
    /\ UNCHANGED <<idp, lapsed, cache, hooks, sync, logins, edits>>

\* RevocationCache.Set, and the answer.
SetEntry(w) ==
    /\ req[w].at = "set"
    /\ cache' = [cache EXCEPT ![req[w].user] =
                   [revoked |-> req[w].val, age |-> 0]]
    /\ req' = [req EXCEPT ![w] = [at |-> "done", user |-> req[w].user,
                                   val |-> req[w].val]]
    /\ KeepTable
    /\ UNCHANGED <<idp, lapsed, hooks, sync, logins, edits, faults>>

\* The request is over: 403, or the tool has run.
Finish(w) ==
    /\ req[w].at = "done"
    /\ req' = [req EXCEPT ![w] = Free]
    /\ KeepTable
    /\ UNCHANGED <<idp, lapsed, cache, hooks, sync, logins, edits, faults>>

\* The janitor's evictExpired.
EvictExpired ==
    /\ \E u \in User : cache[u] # NoEntry /\ ~Usable(u)
    /\ cache' = [u \in User |-> IF Usable(u) THEN cache[u] ELSE NoEntry]
    /\ KeepTable
    /\ UNCHANGED <<idp, lapsed, req, hooks, sync, logins, edits, faults>>

\* The clock.  A request that has the table's answer reaches cache.Set within
\* MaxQueryTicks.
Tick ==
    /\ \A w \in Worker : req[w].at = "set" => req[w].wait < MaxQueryTicks
    /\ cache' = [u \in User |->
                   IF cache[u] = NoEntry THEN NoEntry
                   ELSE [cache[u] EXCEPT !.age = Cap(@ + 1, TTL + 1)]]
    /\ req' = [w \in Worker |->
                 IF req[w].at = "set" THEN [req[w] EXCEPT !.wait = @ + 1]
                 ELSE req[w]]
    /\ since' = [u \in User |-> [b \in BOOLEAN |->
                   IF revoked[u] = b THEN 0 ELSE Cap(since[u][b] + 1, Horizon)]]
    /\ UNCHANGED <<idp, lapsed, revoked, hooks, sync, logins, edits, faults,
                   announced>>

\* The server process restarts: the cache and everything in hand are gone.
Restart ==
    /\ cache' = [u \in User |-> NoEntry]
    /\ req' = [w \in Worker |-> Free]
    /\ hooks' = {h \in hooks : h.at = "sent"}
    /\ logins' = {}
    /\ KeepTable
    /\ UNCHANGED <<idp, lapsed, sync, edits, faults>>

-------------------------------------------------------------------------------
(* The provider and its webhook. *)

\* Any update of a user's record, a ban, its end or just a sign-in, is sent to
\* the webhook as it stands after the update.
ProviderChange(u, kind) ==
    LET rec == [kind |-> kind, n |-> edits']
    IN /\ idp[u].kind # "deleted"
       /\ Edit
       /\ idp' = [idp EXCEPT ![u] = rec]
       /\ hooks' = hooks \cup {[user |-> u, rec |-> rec, at |-> "sent"]}
       /\ KeepTable
       /\ UNCHANGED <<lapsed, cache, req, sync, logins, faults>>

\* banned_until passes: nothing is updated, so no webhook is sent.
BanLapses(u) ==
    /\ idp[u].kind = "banned" /\ idp[u].n \notin lapsed
    /\ lapsed' = lapsed \cup {idp[u].n}
    /\ KeepTable
    /\ UNCHANGED <<idp, cache, req, hooks, sync, logins, edits, faults>>

LoseHook(h) ==
    /\ h.at = "sent"
    /\ hooks' = hooks \ {h}
    /\ KeepTable
    /\ UNCHANGED <<idp, lapsed, cache, req, sync, logins, edits, faults>>

Written(h) == (hooks \ {h}) \cup {[h EXCEPT !.at = "written"]}

\* handleDelete and handleUpdate: calls may arrive in any order.
HandleHook(h) ==
    /\ h.at = "sent"
    /\ SetRevoked(h.user, ShouldRevoke(h.rec))
    /\ hooks' = Written(h)
    /\ UNCHANGED <<idp, lapsed, cache, req, sync, logins, edits, faults>>

\* A failed write is logged, answered with 200 and never sent again.
HandleHookFails(h) ==
    /\ h.at = "sent"
    /\ Fault
    /\ hooks' = Written(h)
    /\ KeepTable
    /\ UNCHANGED <<idp, lapsed, cache, req, sync, logins, edits>>

\* History: a revocation stands when its webhook call ends, and either no check
\* of that user has read the table but not yet filled the cache, or one has.
Announce(u) ==
    LET racing == \E w \in Worker : req[w].at = "set" /\ req[w].user = u
    IN announced' = IF revoked[u]
                    THEN [announced EXCEPT ![u] = IF racing THEN "racing" ELSE "clean"]
                    ELSE announced

\* Mutated form of Invalidate: the call ends without touching the cache.
Invalidate_Forgotten(h) ==
    /\ h.at = "written"
    /\ hooks' = hooks \ {h}
    /\ Announce(h.user)
    /\ UNCHANGED <<idp, lapsed, revoked, cache, req, sync, logins, edits, faults,
                   since>>

\* The deferred Invalidate, whatever became of the write.
Invalidate(h) ==
    /\ h.at = "written"
    /\ cache' = [cache EXCEPT ![h.user] = NoEntry]
    /\ hooks' = hooks \ {h}
    /\ Announce(h.user)
    /\ UNCHANGED <<idp, lapsed, revoked, req, sync, logins, edits, faults, since>>

-------------------------------------------------------------------------------
(* sync-users: the provider's list, then the table, then one user at a time, *)
(* on what the two snapshots say.                                            *)

NoSync == [at |-> "idle"]

SyncFetch ==
    /\ sync.at = "idle"
    /\ sync' = [at |-> "fetched", list |-> idp]
    /\ KeepTable
    /\ UNCHANGED <<idp, lapsed, cache, req, hooks, logins, edits, faults>>

\* The list is fetched page by page: when another user is deleted meanwhile,
\* the pages shift and u, now on a page already read, is missing.
SyncFetchShifts(u) ==
    /\ sync.at = "idle"
    /\ Edit
    /\ sync' = [at |-> "fetched", list |-> [idp EXCEPT ![u].kind = "deleted"]]
    /\ KeepTable
    /\ UNCHANGED <<idp, lapsed, cache, req, hooks, logins, faults>>

SyncLoad ==
    /\ sync.at = "fetched"
    /\ sync' = [at |-> "loaded", list |-> sync.list, local |-> revoked,
                todo |-> User]
    /\ KeepTable
    /\ UNCHANGED <<idp, lapsed, cache, req, hooks, logins, edits, faults>>

SyncDone(u) ==
    sync' = IF sync.todo = {u} THEN NoSync ELSE [sync EXCEPT !.todo = @ \ {u}]

\* reconcile leaves a user alone whose two snapshots agree; a user missing from
\* the list is revoked in any case.
Differs(u) ==
    sync.list[u].kind = "deleted" \/ ShouldRevoke(sync.list[u]) # sync.local[u]

\* Mutated form of SyncUser: only ever revokes.
SyncUser_NeverReinstates(u) ==
    /\ sync.at = "loaded" /\ u \in sync.todo
    /\ SyncDone(u)
    /\ IF Differs(u) /\ ShouldRevoke(sync.list[u])
       THEN SetRevoked(u, ShouldRevoke(sync.list[u])) ELSE KeepTable
    /\ UNCHANGED <<idp, lapsed, cache, req, hooks, logins, edits, faults>>

SyncUser(u) ==
    /\ sync.at = "loaded" /\ u \in sync.todo
    /\ SyncDone(u)
    /\ IF Differs(u) THEN SetRevoked(u, ShouldRevoke(sync.list[u])) ELSE KeepTable
    /\ UNCHANGED <<idp, lapsed, cache, req, hooks, logins, edits, faults>>

\* One user's write fails: logged, the loop goes on.
SyncUserFails(u) ==
    /\ sync.at = "loaded" /\ u \in sync.todo
    /\ Differs(u) /\ Fault
    /\ SyncDone(u)
    /\ KeepTable
    /\ UNCHANGED <<idp, lapsed, cache, req, hooks, logins, edits>>

\* Fetching either list fails: the run ends, the next one starts over.
SyncAborts ==
    /\ sync.at # "idle"
    /\ Fault
    /\ sync' = NoSync
    /\ KeepTable
    /\ UNCHANGED <<idp, lapsed, cache, req, hooks, logins, edits>>

-------------------------------------------------------------------------------
(* Operators and logins write the table and leave the cache alone. *)

Operate(u, b) ==
    /\ Edit
    /\ SetRevoked(u, b)
    /\ UNCHANGED <<idp, lapsed, cache, req, hooks, sync, logins, faults>>

\* The provider accepts the user ...
LoginAccepted(u) ==
    /\ ~ShouldRevoke(idp[u])
    /\ Edit
    /\ logins' = logins \cup {u}
    /\ KeepTable
    /\ UNCHANGED <<idp, lapsed, cache, req, hooks, sync, faults>>

\* ... and mintTokenTx commits the upsert, which clears revoked_at, or fails.
MintToken(u) ==
    /\ u \in logins
    /\ logins' = logins \ {u}
    /\ SetRevoked(u, FALSE) \/ KeepTable
    /\ UNCHANGED <<idp, lapsed, cache, req, hooks, sync, edits, faults>>

-------------------------------------------------------------------------------
Init ==
    /\ idp = [u \in User |-> [kind |-> "active", n |-> 0]]
    /\ lapsed = {}
    /\ revoked = [u \in User |-> FALSE]
    /\ cache = [u \in User |-> NoEntry]
    /\ req = [w \in Worker |-> Free]
    /\ hooks = {}
    /\ sync = NoSync
    /\ logins = {}
    /\ edits = 0 /\ faults = 0
    /\ since = [u \in User |-> [b \in BOOLEAN |-> IF b THEN Horizon ELSE 0]]
    /\ announced = [u \in User |-> "no"]

Next ==
    \/ \E w \in Worker : \/ \E u \in User : Request(w, u)
                         \/ GetRevoked(w) \/ GetRevokedFails(w)
                         \/ SetEntry(w) \/ Finish(w)
    \/ EvictExpired \/ Tick \/ Restart
    \/ \E u \in User : \/ \E kind \in Kind : ProviderChange(u, kind)
                       \/ BanLapses(u)
                       \/ \E b \in BOOLEAN : Operate(u, b)
                       \/ LoginAccepted(u) \/ MintToken(u)
    \/ \E h \in hooks : \/ LoseHook(h) \/ HandleHook(h) \/ HandleHookFails(h)
                        \/ Invalidate(h)
    \/ SyncFetch \/ SyncLoad \/ SyncAborts
    \/ \E u \in User : SyncFetchShifts(u) \/ SyncUser(u) \/ SyncUserFails(u)

\* Time passes, a started check ends, and the job runs again and again.  A
\* webhook call, a client or an operator need never act.
Fairness ==
    /\ WF_vars(Tick)
    /\ \A w \in Worker : WF_vars(SetEntry(w))
    /\ WF_vars(SyncFetch) /\ WF_vars(SyncLoad)
    /\ \A u \in User : WF_vars(SyncUser(u))

Spec == Init /\ [][Next]_vars

FairSpec == Spec /\ Fairness

-------------------------------------------------------------------------------
(* Properties. *)

\* A check is at one of its steps, ages stay within the horizon they are
\* counted to, and the two snapshots of a sync are whole.
TypeOK ==
    /\ idp \in [User -> Record] /\ lapsed \subseteq 0 .. MaxEdits
    /\ revoked \in [User -> BOOLEAN]
    /\ cache \in [User -> Entry \cup {NoEntry}]
    /\ req \in [Worker -> {Free} \cup [at : {"query"}, user : User]
                  \cup [at : {"set"}, user : User, val : BOOLEAN,
                        wait : 0 .. MaxQueryTicks]
                  \cup [at : {"done"}, user : User, val : BOOLEAN]]
    /\ hooks \subseteq [user : User, rec : Record, at : {"sent", "written"}]
    /\ sync \in {NoSync} \cup [at : {"fetched"}, list : [User -> Record]]
                \cup [at : {"loaded"}, list : [User -> Record],
                      local : [User -> BOOLEAN], todo : SUBSET User]
    /\ logins \subseteq User
    /\ announced \in [User -> {"no", "racing", "clean"}]
    /\ edits \in 0 .. MaxEdits /\ faults \in 0 .. MaxFaults
    /\ since \in [User -> [BOOLEAN -> 0 .. Horizon]]

\* Request w is answered in this step, and the answer is val for user u.
AnsweredNow(w, u, val) ==
    /\ req[w].at # "done" /\ req'[w].at = "done"
    /\ req'[w].user = u /\ req'[w].val = val

\* A 403 is never older than the cache may be: the user was revoked in the
\* table at most revocationTTL (and one fill in flight) before the answer,
\* however fills, invalidations, restarts and failed queries interleave.
RefusalsAreRecent ==
    [][\A w \in Worker, u \in User :
         AnsweredNow(w, u, TRUE) => since[u][TRUE] <= TTL + MaxQueryTicks]_vars

\* docs/auth.md: without the webhook a revocation takes at most the TTL of the
\* cache, since the next query then finds revoked_at.  That holds until a first
\* call fails: a failed query is cached as the answer "not revoked".
AcceptancesAreRecent ==
    [][\A w \in Worker, u \in User :
         faults = 0 /\ AnsweredNow(w, u, FALSE)
            => since[u][FALSE] <= TTL + MaxQueryTicks]_vars

\* docs/auth.md: once the webhook has set revoked_at and invalidated the cache
\* entry, the user's next request is refused.
NextRequestIsRefused ==
    [][\A w \in Worker, u \in User :
         announced[u] # "no" /\ req[w].at = "idle"
            => ~AnsweredNow(w, u, FALSE)]_vars

\* What holds of that: if no check of the user was between its query and
\* cache.Set when the webhook call ended, and no call has failed, no request is
\* let through until the table says otherwise.
RefusedOnceAnnounced ==
    [][\A w \in Worker, u \in User :
         faults = 0 /\ announced[u] = "clean" => ~AnsweredNow(w, u, FALSE)]_vars

\* Once the provider's records stay as they are, the table agrees with them for
\* good, although webhooks are lost, late or out of order, the sync works on
\* stale snapshots, and operators and logins write in between.
TableFollowsProvider ==
    <>[](\A u \in User : revoked[u] = ShouldRevoke(idp[u]))

\* And then no answer from the cache contradicts the table any more.
CacheFollowsTable ==
    <>[](\A u \in User : Usable(u) => cache[u].revoked = revoked[u])

===============================================================================
