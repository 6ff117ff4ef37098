------------------------------ MODULE RateLimiter ------------------------------
(***************************************************************************)
(* The brake on the write tools (internal/ratelimit): a token bucket for   *)
(* each client of the HTTP transport, kept in a map a janitor sweeps, and  *)
(* one bucket for the stdio transport.  A call reserves a token and, if it *)
(* would have to wait for it, cancels the reservation and is refused.  On  *)
(* stdio a mutex covers both steps, on HTTP nothing does.                  *)
(*                                                                         *)
(* Time passes in ticks; a token takes Cost ticks to refill, so a level    *)
(* and a number of ticks are the same unit.  All times are kept relative   *)
(* to now.                                                                 *)
(***************************************************************************)
EXTENDS Integers, FiniteSets

CONSTANTS
    Caller,        \* write calls that may be served at the same time
    Client,        \* keys of the map: the sub of a token or else an address
    Stdio,         \* the bucket of the stdio transport
    Cost,          \* ticks in which one token is refilled
    Burst,         \* tokens of a full bucket
    IdleTicks,     \* idleThreshold
    MaxCallTicks,  \* assumed: ticks from getOrCreate to Reserve, and from there to the return
    MaxDebt        \* bound of the model: ticks a bucket may owe

Full == Burst * Cost

\* idleThreshold is 300 times what a token takes, a bucket holds 10.
ASSUME LimiterBounds ==
    /\ Cost \in Nat \ {0} /\ Burst \in Nat \ {0}
    /\ MaxCallTicks \in Nat /\ MaxDebt \in Nat
    /\ IdleTicks \in Nat /\ IdleTicks >= Full + 3 * MaxCallTicks

ASSUME FinitelyManyCallers == IsFiniteSet(Caller)

ASSUME StdioIsNoClient == Stdio \notin Client

Key == Client \cup {Stdio}

VARIABLES
    bucket,  \* bucket[k]: the rate.Limiter of k and the entry's lastUsed
    call,    \* call[c]: where in Allow the call is, and what it holds
    spent    \* history: see Charge

vars == <<bucket, call, spent>>

Larger(m, n) == IF m > n THEN m ELSE n

Smaller(m, n) == IF m < n THEN m ELSE n

\* level: tokens, in ticks.  ahead: the limiter's lastEvent, any moment before
\* now being -1.  idle: the age of lastUsed.
Bucket == [level : -MaxDebt .. Full, ahead : -1 .. MaxDebt, idle : 0 .. IdleTicks + 1]

\* rate.NewLimiter is full when it is first asked: an entry that is not in the
\* map and one that has just been put there answer alike.
NewBucket == [level |-> Full, ahead |-> -1, idle |-> IdleTicks + 1]

\* age: ticks since getOrCreate or, with a reservation, since Reserve.  wait: the
\* reservation's timeToAct, any moment before now being -1.
NoCall == [at |-> "none"]

Holds(c, k) == call[c].at \in {"reserved", "refused"} /\ call[c].key = k

Uses(c, k) == call[c].at # "none" /\ call[c].key = k

-------------------------------------------------------------------------------
(* rate.Limiter, golang.org/x/time v0.5.0. *)

\* reserveN for one token; the level is already that of now.
Reserved(b) ==
    LET left == b.level - Cost
    IN  [level |-> left, ahead |-> Larger(-left, 0), idle |-> b.idle]

\* CancelAt: what later reservations wait for is not given back, nor is a token
\* whose time has come and gone.
Cancelled(b, wait) ==
    LET back == Cost - (b.ahead - wait)
        prev == wait - Cost
    IN  IF wait < 0 \/ back <= 0
        THEN b
        ELSE [b EXCEPT !.level = Smaller(Full, b.level + back),
                       !.ahead = IF b.ahead = wait /\ prev >= 0 THEN prev ELSE b.ahead]

-------------------------------------------------------------------------------
(* Allow. *)

\* getOrCreate.
Lookup(c, k) ==
    /\ call[c] = NoCall
    /\ bucket' = [bucket EXCEPT ![k].idle = 0]
    /\ call' = [call EXCEPT ![c] = [at |-> "found", key |-> k, age |-> 0]]
    /\ UNCHANGED spent

\* Mutated form of Lock: nothing keeps two calls of Allow apart.
Lock_NoMutex(c) ==
    /\ call[c] = NoCall
    /\ call' = [call EXCEPT ![c] = [at |-> "found", key |-> Stdio, age |-> 0]]
    /\ UNCHANGED <<bucket, spent>>

\* checkRateLimit has neither a sub nor an address: StdioBucket.Allow takes the
\* mutex of the bucket and keeps it to the end.
Lock(c) ==
    /\ call[c] = NoCall
    /\ \A d \in Caller : ~Uses(d, Stdio)
    /\ call' = [call EXCEPT ![c] = [at |-> "found", key |-> Stdio, age |-> 0]]
    /\ UNCHANGED <<bucket, spent>>

\* limiter.Reserve(), one step under the limiter's own lock.  The bound on the
\* debt is the model's.
Reserve(c) ==
    /\ call[c].at = "found"
    /\ LET k == call[c].key
           b == Reserved(bucket[k])
       IN  /\ b.level >= -MaxDebt
           /\ bucket' = [bucket EXCEPT ![k] = b]
           /\ call' = [call EXCEPT ![c] = [at |-> "reserved", key |-> k,
                                           age |-> 0, wait |-> b.ahead]]
    /\ UNCHANGED spent

\* spent[k] is the most by which the writes allowed to k, in ticks, exceed the
\* length of a period that ends now.
Charge(k) == spent' = [spent EXCEPT ![k] = @ + Cost]

\* r.Delay() == 0: no wait, or the wait is over by the time this is asked.
Allow(c) ==
    /\ call[c].at = "reserved" /\ call[c].wait <= 0
    /\ Charge(call[c].key)
    /\ call' = [call EXCEPT ![c] = NoCall]
    /\ UNCHANGED bucket

Refuse(c) ==
    /\ call[c].at = "reserved" /\ call[c].wait > 0
    /\ call' = [call EXCEPT ![c].at = "refused"]
    /\ UNCHANGED <<bucket, spent>>

\* r.Cancel(), and the call returns its refusal.
Cancel(c) ==
    /\ call[c].at = "refused"
    /\ bucket' = [bucket EXCEPT ![call[c].key] = Cancelled(@, call[c].wait)]
    /\ call' = [call EXCEPT ![c] = NoCall]
    /\ UNCHANGED spent

-------------------------------------------------------------------------------
(* The janitor and the clock. *)

\* Mutated form of Stale: any entry that is not in use this very moment.
Stale_AtOnce(b) == b.idle > 0

Stale(b) == b.idle > IdleTicks

\* evictIdle.
EvictIdle ==
    /\ bucket' = [k \in Key |-> IF k \in Client /\ Stale(bucket[k])
                                THEN NewBucket ELSE bucket[k]]
    /\ UNCHANGED <<call, spent>>

\* Mutated form of Refilled: a bucket that is not used fills without end.
Refilled_Unbounded(b) ==
    [level |-> b.level + 1,
     ahead |-> Larger(-1, b.ahead - 1),
     idle |-> Smaller(IdleTicks + 1, b.idle + 1)]

\* A tick refills every bucket: advance of rate.Limiter, done at once instead of
\* when the limiter is next asked.
Refilled(b) ==
    [level |-> Smaller(Full, b.level + 1),
     ahead |-> Larger(-1, b.ahead - 1),
     idle |-> Smaller(IdleTicks + 1, b.idle + 1)]

Older(r) ==
    CASE r.at = "none" -> r
      [] r.at = "found" -> [r EXCEPT !.age = @ + 1]
      [] OTHER -> [r EXCEPT !.age = @ + 1, !.wait = Larger(-1, @ - 1)]

Tick ==
    /\ \A c \in Caller : call[c] # NoCall => call[c].age < MaxCallTicks
    /\ bucket' = [k \in Key |-> Refilled(bucket[k])]
    /\ call' = [c \in Caller |-> Older(call[c])]
    /\ spent' = [k \in Key |-> Larger(0, spent[k] - 1)]

-------------------------------------------------------------------------------

Init ==
    /\ bucket = [k \in Key |-> NewBucket]
    /\ call = [c \in Caller |-> NoCall]
    /\ spent = [k \in Key |-> 0]

Step(c) ==
    \/ \E k \in Client : Lookup(c, k)
    \/ Lock(c)
    \/ Reserve(c)
    \/ Allow(c)
    \/ Refuse(c)
    \/ Cancel(c)

Next == (\E c \in Caller : Step(c)) \/ EvictIdle \/ Tick

Spec == Init /\ [][Next]_vars

-------------------------------------------------------------------------------
(* Properties. *)

Call ==
    {NoCall}
    \cup [at : {"found"}, key : Key, age : 0 .. MaxCallTicks]
    \cup [at : {"reserved", "refused"}, key : Key, age : 0 .. MaxCallTicks,
          wait : -1 .. MaxDebt]

\* The values the variables take.
TypeOK ==
    /\ bucket \in [Key -> Bucket]
    /\ call \in [Caller -> Call]
    /\ spent \in [Key -> Nat]

\* Over no period, however long, does a client or stdio get more writes than a
\* full bucket, what was refilled, and what was refilled while one call was
\* being served: not by reservations in flight together, not by a cancellation
\* that gives back what a later call has used, and not by being evicted.
RateBound ==
    \A k \in Key : spent[k] <= Full + MaxCallTicks

\* A key no call holds a reservation of owes nothing: when a token has been
\* refilled, the next write is allowed.
OwesNothing(k) ==
    (\A c \in Caller : ~Holds(c, k)) => bucket[k].level >= 0

\* So it is on stdio, where the mutex keeps reservations apart.  (On a client's
\* bucket it is not: of two refused calls that overlap, the first to cancel gives
\* nothing back.)
StdioOwesNothing == OwesNothing(Stdio)
================================================================================
