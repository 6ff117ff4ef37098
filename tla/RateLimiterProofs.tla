--------------------------- MODULE RateLimiterProofs ---------------------------
(***************************************************************************)
(* Proofs about RateLimiter, for every number of callers and clients and   *)
(* for every rate, burst and duration LimiterBounds admits.                *)
(***************************************************************************)
EXTENDS RateLimiter, FiniteSetTheorems, TLAPS

\* The two numbers the arithmetic is about: no proof looks into the product.
LEMMA Sizes ==
    /\ Cost \in Nat /\ Cost >= 1
    /\ Full \in Nat /\ Full >= Cost
    /\ MaxCallTicks \in Nat /\ MaxDebt \in Nat
    /\ IdleTicks \in Nat /\ IdleTicks >= Full + 3 * MaxCallTicks
<1>1. /\ Cost \in Nat /\ Cost >= 1 /\ Burst \in Nat /\ Burst >= 1
      /\ MaxCallTicks \in Nat /\ MaxDebt \in Nat
      /\ IdleTicks \in Nat /\ IdleTicks >= Full + 3 * MaxCallTicks
  BY LimiterBounds
<1>2. /\ Burst * Cost \in Nat /\ Burst * Cost >= Cost
  <2>1. PICK n \in Nat : Burst = n + 1
    <3>1. Burst - 1 \in Nat
      BY <1>1
    <3> QED
      BY <1>1, <3>1
  <2>2. (n + 1) * Cost = n * Cost + Cost /\ n * Cost \in Nat
    BY <1>1
  <2> QED
    BY <1>1, <2>1, <2>2
<1> QED
  BY <1>1, <1>2 DEF Full

LEMMA CallFields ==
    ASSUME TypeOK, NEW c \in Caller
    PROVE  /\ call[c].at \in {"none", "found", "reserved", "refused"}
           /\ call[c].at = "none" <=> call[c] = NoCall
           /\ call[c].at # "none" => call[c].key \in Key /\ call[c].age \in 0 .. MaxCallTicks
           /\ call[c].at \in {"reserved", "refused"} => call[c].wait \in -1 .. MaxDebt
<1>1. call[c] \in Call
  BY DEF TypeOK
<1> QED
  BY <1>1 DEF Call, NoCall

LEMMA BucketFields ==
    ASSUME TypeOK, NEW k \in Key
    PROVE  /\ bucket[k] \in Bucket
           /\ bucket[k].level \in -MaxDebt .. Full
           /\ bucket[k].ahead \in -1 .. MaxDebt
           /\ bucket[k].idle \in 0 .. IdleTicks + 1
           /\ spent[k] \in Nat
  BY DEF TypeOK, Bucket

-------------------------------------------------------------------------------
(* Types. *)

LEMMA ReservedFields ==
    ASSUME NEW b \in Bucket
    PROVE  Reserved(b) = [level |-> b.level - Cost,
                          ahead |-> Larger(-(b.level - Cost), 0),
                          idle |-> b.idle]
  BY DEF Reserved

LEMMA ReservedTyped ==
    ASSUME NEW b \in Bucket, Reserved(b).level >= -MaxDebt
    PROVE  Reserved(b) \in Bucket
<1>1. b.level \in -MaxDebt .. Full /\ b.idle \in 0 .. IdleTicks + 1
  BY DEF Bucket
<1>2. b.level - Cost >= -MaxDebt
  BY ReservedFields
<1>3. b.level - Cost \in -MaxDebt .. Full
  BY <1>1, <1>2, Sizes
<1>4. Larger(-(b.level - Cost), 0) \in -1 .. MaxDebt
  BY <1>3, Sizes DEF Larger
<1> QED
  BY <1>1, <1>3, <1>4, ReservedFields DEF Bucket

\* A cancellation that gives something back.
LEMMA CancelledFields ==
    ASSUME NEW b \in Bucket, NEW wait \in -1 .. MaxDebt,
           wait >= 0, Cost - (b.ahead - wait) > 0
    PROVE  Cancelled(b, wait) =
               [level |-> Smaller(Full, b.level + (Cost - (b.ahead - wait))),
                ahead |-> IF b.ahead = wait /\ wait - Cost >= 0
                          THEN wait - Cost ELSE b.ahead,
                idle |-> b.idle]
<1>1. ~(wait < 0 \/ Cost - (b.ahead - wait) <= 0)
  BY Sizes DEF Bucket
<1> QED
  BY <1>1 DEF Cancelled, Bucket

LEMMA CancelledNothing ==
    ASSUME NEW b \in Bucket, NEW wait \in -1 .. MaxDebt,
           ~(wait >= 0 /\ Cost - (b.ahead - wait) > 0)
    PROVE  Cancelled(b, wait) = b
<1>1. wait < 0 \/ Cost - (b.ahead - wait) <= 0
  BY Sizes DEF Bucket
<1> QED
  BY <1>1 DEF Cancelled

LEMMA CancelledTyped ==
    ASSUME NEW b \in Bucket, NEW wait \in -1 .. MaxDebt
    PROVE  Cancelled(b, wait) \in Bucket
<1> DEFINE back == Cost - (b.ahead - wait)
<1>1. CASE wait >= 0 /\ back > 0
  <2>1. /\ b.level \in -MaxDebt .. Full
        /\ b.ahead \in -1 .. MaxDebt
        /\ b.idle \in 0 .. IdleTicks + 1
    BY DEF Bucket
  <2>2. Smaller(Full, b.level + back) \in -MaxDebt .. Full
    BY <1>1, <2>1, Sizes DEF Smaller
  <2>3. (IF b.ahead = wait /\ wait - Cost >= 0 THEN wait - Cost ELSE b.ahead)
           \in -1 .. MaxDebt
    BY <2>1, Sizes
  <2> QED
    BY <1>1, <2>1, <2>2, <2>3, CancelledFields DEF Bucket
<1>2. CASE ~(wait >= 0 /\ back > 0)
  BY <1>2, CancelledNothing
<1> QED
  BY <1>1, <1>2

LEMMA RefilledTyped ==
    ASSUME NEW b \in Bucket
    PROVE  Refilled(b) \in Bucket
  BY Sizes DEF Refilled, Bucket, Smaller, Larger

LEMMA TypeStep == TypeOK /\ [Next]_vars => TypeOK'
<1> SUFFICES ASSUME TypeOK, [Next]_vars
             PROVE  TypeOK'
  OBVIOUS
<1> USE Sizes
<1>1. ASSUME NEW c \in Caller, NEW k \in Client, Lookup(c, k)
      PROVE  TypeOK'
  <2>1. k \in Key
    BY DEF Key
  <2>2. [bucket[k] EXCEPT !.idle = 0] \in Bucket
    BY <2>1, BucketFields DEF Bucket
  <2>3. [at |-> "found", key |-> k, age |-> 0] \in Call
    BY <2>1 DEF Call
  <2> QED
    BY <1>1, <2>1, <2>2, <2>3 DEF Lookup, TypeOK
<1>2. ASSUME NEW c \in Caller, Lock(c)
      PROVE  TypeOK'
  <2>1. [at |-> "found", key |-> Stdio, age |-> 0] \in Call
    BY DEF Call, Key
  <2> QED
    BY <1>2, <2>1 DEF Lock, TypeOK
<1>3. ASSUME NEW c \in Caller, Reserve(c)
      PROVE  TypeOK'
  <2> DEFINE k == call[c].key
             b == Reserved(bucket[k])
  <2>1. k \in Key
    BY <1>3, CallFields DEF Reserve
  <2>2. b.level >= -MaxDebt
    BY <1>3 DEF Reserve
  <2>3. b \in Bucket
    BY <2>1, <2>2, BucketFields, ReservedTyped
  <2>4. [at |-> "reserved", key |-> k, age |-> 0, wait |-> b.ahead] \in Call
    BY <2>1, <2>3 DEF Call, Bucket
  <2>5. bucket' = [bucket EXCEPT ![k] = b]
    BY <1>3 DEF Reserve
  <2>6. call' = [call EXCEPT ![c] = [at |-> "reserved", key |-> k,
                                     age |-> 0, wait |-> b.ahead]]
    BY <1>3 DEF Reserve
  <2>7. spent' = spent
    BY <1>3 DEF Reserve
  <2> HIDE DEF b, k
  <2> QED
    BY <2>1, <2>3, <2>4, <2>5, <2>6, <2>7 DEF TypeOK
<1>4. ASSUME NEW c \in Caller, Allow(c)
      PROVE  TypeOK'
  <2>1. call[c].key \in Key
    BY <1>4, CallFields DEF Allow
  <2>2. NoCall \in Call
    BY DEF Call
  <2> QED
    BY <1>4, <2>1, <2>2 DEF Allow, Charge, TypeOK
<1>5. ASSUME NEW c \in Caller, Refuse(c)
      PROVE  TypeOK'
  <2>1. [call[c] EXCEPT !.at = "refused"] \in Call
    <3>1. call[c] \in Call /\ call[c].at = "reserved"
      BY <1>5 DEF Refuse, TypeOK
    <3> QED
      BY <3>1 DEF Call, NoCall
  <2> QED
    BY <1>5, <2>1 DEF Refuse, TypeOK
<1>6. ASSUME NEW c \in Caller, Cancel(c)
      PROVE  TypeOK'
  <2>1. call[c].key \in Key /\ call[c].wait \in -1 .. MaxDebt
    BY <1>6, CallFields DEF Cancel
  <2>2. Cancelled(bucket[call[c].key], call[c].wait) \in Bucket
    BY <2>1, BucketFields, CancelledTyped
  <2>3. NoCall \in Call
    BY DEF Call
  <2> QED
    BY <1>6, <2>1, <2>2, <2>3 DEF Cancel, TypeOK
<1>7. CASE EvictIdle
  <2>1. NewBucket \in Bucket
    BY DEF NewBucket, Bucket
  <2> QED
    BY <1>7, <2>1 DEF EvictIdle, TypeOK
<1>8. CASE Tick
  <2>1. ASSUME NEW c \in Caller
        PROVE  Older(call[c]) \in Call
    <3>1. call[c] \in Call
      BY DEF TypeOK
    <3>2. call[c] # NoCall => call[c].age < MaxCallTicks
      BY <1>8 DEF Tick
    <3>3. CASE call[c] = NoCall
      BY <3>3 DEF Older, Call, NoCall
    <3>4. CASE call[c] \in [at : {"found"}, key : Key, age : 0 .. MaxCallTicks]
      BY <3>2, <3>4 DEF Older, Call, NoCall
    <3>5. CASE call[c] \in [at : {"reserved", "refused"}, key : Key,
                            age : 0 .. MaxCallTicks, wait : -1 .. MaxDebt]
      <4>1. call[c] # NoCall /\ call[c].age + 1 \in 0 .. MaxCallTicks
        BY <3>2, <3>5 DEF NoCall
      <4>2. Larger(-1, call[c].wait - 1) \in -1 .. MaxDebt
        BY <3>5 DEF Larger
      <4>3. Older(call[c]) = [call[c] EXCEPT !.age = call[c].age + 1,
                                             !.wait = Larger(-1, call[c].wait - 1)]
        BY <3>5 DEF Older
      <4> QED
        BY <3>5, <4>1, <4>2, <4>3 DEF Call
    <3> QED
      BY <3>1, <3>3, <3>4, <3>5 DEF Call
  <2>2. \A k \in Key : Refilled(bucket[k]) \in Bucket
    BY BucketFields, RefilledTyped
  <2>3. \A k \in Key : Larger(0, spent[k] - 1) \in Nat
    BY BucketFields DEF Larger
  <2> QED
    BY <1>8, <2>1, <2>2, <2>3 DEF Tick, TypeOK
<1>9. CASE UNCHANGED vars
  BY <1>9 DEF vars, TypeOK
<1> QED
  BY <1>1, <1>2, <1>3, <1>4, <1>5, <1>6, <1>7, <1>8, <1>9 DEF Next, Step

\* Every state of the rate limiter is well formed.
THEOREM LimiterTyped == Spec => []TypeOK
<1>1. Init => TypeOK
  BY Sizes DEF Init, TypeOK, NewBucket, Bucket, Call
<1> QED
  BY <1>1, TypeStep, PTL DEF Spec

-------------------------------------------------------------------------------
(* The stdio bucket.  One call at a time has it, and what that call owes it *)
(* can give back.                                                           *)

StdioInv ==
    /\ \A c, d \in Caller : Uses(c, Stdio) /\ Uses(d, Stdio) => c = d
    /\ \A c \in Caller : Holds(c, Stdio) =>
          LET b == bucket[Stdio]
              wait == call[c].wait
          IN  /\ b.level >= -Cost
              /\ wait >= 0 => b.ahead = wait /\ b.level + wait >= 0
              /\ wait < 0 => b.level >= 0
    /\ StdioOwesNothing

\* What a reservation and a cancellation do to a bucket one call has to itself.
LEMMA StdioReserved ==
    ASSUME NEW b \in Bucket, b.level >= 0
    PROVE  LET r == Reserved(b)
           IN  r.level >= -Cost /\ r.ahead >= 0 /\ r.level + r.ahead >= 0
  BY Sizes, ReservedFields DEF Larger, Bucket

LEMMA StdioCancelled ==
    ASSUME NEW b \in Bucket, NEW wait \in -1 .. MaxDebt,
           b.level >= -Cost,
           wait >= 0 => b.ahead = wait,
           wait < 0 => b.level >= 0
    PROVE  Cancelled(b, wait).level >= 0
<1>1. b.level \in -MaxDebt .. Full /\ b.ahead \in -1 .. MaxDebt
  BY DEF Bucket
<1>2. CASE wait >= 0
  <2>1. Cost - (b.ahead - wait) = Cost
    BY <1>1, <1>2, Sizes
  <2>2. Cancelled(b, wait).level = Smaller(Full, b.level + Cost)
    BY <1>2, <2>1, Sizes, CancelledFields
  <2> QED
    BY <1>1, <2>2, Sizes DEF Smaller
<1>3. CASE wait < 0
  BY <1>3, CancelledNothing, Sizes
<1> QED
  BY <1>2, <1>3

LEMMA StdioStep == TypeOK /\ StdioInv /\ [Next]_vars => StdioInv'
<1> SUFFICES ASSUME TypeOK, StdioInv, [Next]_vars
             PROVE  StdioInv'
  OBVIOUS
<1> USE Sizes
<1> DEFINE b == bucket[Stdio]
<1>0. /\ Stdio \in Key /\ b \in Bucket
      /\ b.level \in -MaxDebt .. Full /\ b.ahead \in -1 .. MaxDebt
  BY BucketFields DEF Key
<1>1. ASSUME NEW c \in Caller, NEW k \in Client, Lookup(c, k)
      PROVE  StdioInv'
  <2>1. k # Stdio /\ bucket'[Stdio] = b
    BY <1>1, <1>0, StdioIsNoClient DEF Lookup, TypeOK
  <2>2. ~Uses(c, Stdio)' /\ ~Holds(c, Stdio)' /\ ~Holds(c, Stdio)
    BY <1>1, <2>1 DEF Lookup, Uses, Holds, TypeOK, NoCall
  <2>3. \A d \in Caller : d # c => call'[d] = call[d]
    BY <1>1 DEF Lookup, TypeOK
  <2> QED
    BY <2>1, <2>2, <2>3 DEF StdioInv, Uses, Holds, StdioOwesNothing, OwesNothing
<1>2. ASSUME NEW c \in Caller, Lock(c)
      PROVE  StdioInv'
  <2>1. bucket' = bucket /\ \A d \in Caller : ~Uses(d, Stdio)
    BY <1>2 DEF Lock
  <2>2. ~Holds(c, Stdio)' /\ ~Holds(c, Stdio)
    BY <1>2 DEF Lock, Holds, TypeOK, NoCall
  <2>3. \A d \in Caller : d # c => call'[d] = call[d]
    BY <1>2 DEF Lock, TypeOK
  <2> QED
    BY <2>1, <2>2, <2>3 DEF StdioInv, Uses, Holds, StdioOwesNothing, OwesNothing
<1>3. ASSUME NEW c \in Caller, Reserve(c)
      PROVE  StdioInv'
  <2> DEFINE k == call[c].key
  <2>1. \A d \in Caller : d # c => call'[d] = call[d]
    BY <1>3 DEF Reserve, TypeOK
  <2>2. /\ k \in Key
        /\ bucket' = [bucket EXCEPT ![k] = Reserved(bucket[k])]
        /\ call'[c] = [at |-> "reserved", key |-> k, age |-> 0,
                       wait |-> Reserved(bucket[k]).ahead]
        /\ call[c].at = "found"
    BY <1>3, CallFields DEF Reserve, TypeOK
  <2>3. CASE k # Stdio
    <3>1. bucket'[Stdio] = b
      BY <2>2, <2>3, <1>0 DEF TypeOK
    <3>2. ~Uses(c, Stdio)' /\ ~Holds(c, Stdio)' /\ ~Holds(c, Stdio)
      BY <2>2, <2>3 DEF Uses, Holds
    <3> QED
      BY <2>1, <3>1, <3>2 DEF StdioInv, Uses, Holds, StdioOwesNothing, OwesNothing
  <2>4. CASE k = Stdio
    <3>1. Uses(c, Stdio) /\ ~Holds(c, Stdio)
      BY <2>2, <2>4 DEF Uses, Holds
    <3>2. \A d \in Caller : d # c => ~Uses(d, Stdio)
      BY <3>1 DEF StdioInv
    <3>3. b.level >= 0
      BY <3>1, <3>2 DEF StdioInv, StdioOwesNothing, OwesNothing, Uses, Holds
    <3>4. bucket'[Stdio] = Reserved(b) /\ call'[c].wait = Reserved(b).ahead
      BY <2>2, <2>4 DEF TypeOK
    <3>5. /\ Reserved(b).level >= -Cost /\ Reserved(b).ahead >= 0
          /\ Reserved(b).level + Reserved(b).ahead >= 0
      BY <3>3, <1>0, StdioReserved
    <3>6. Reserved(b).ahead \in Int
      BY <1>0, ReservedFields DEF Larger
    <3>7. Holds(c, Stdio)' /\ \A d \in Caller : d # c => ~Uses(d, Stdio)' /\ ~Holds(d, Stdio)'
      BY <2>1, <2>2, <2>4, <3>2 DEF Uses, Holds
    <3> QED
      BY <3>4, <3>5, <3>6, <3>7 DEF StdioInv, StdioOwesNothing, OwesNothing
  <2> QED
    BY <2>3, <2>4
<1>4. ASSUME NEW c \in Caller, Allow(c)
      PROVE  StdioInv'
  <2>1. /\ bucket' = bucket /\ call'[c] = NoCall
        /\ \A d \in Caller : d # c => call'[d] = call[d]
        /\ call[c].at = "reserved" /\ call[c].wait <= 0
        /\ call[c].wait \in -1 .. MaxDebt
    BY <1>4, CallFields DEF Allow, TypeOK
  <2>2. ~Uses(c, Stdio)' /\ ~Holds(c, Stdio)'
    BY <2>1 DEF Uses, Holds, NoCall
  <2>3. Holds(c, Stdio) => b.level >= 0
    BY <2>1, <1>0 DEF StdioInv
  <2> QED
    BY <2>1, <2>2, <2>3 DEF StdioInv, Uses, Holds, StdioOwesNothing, OwesNothing
<1>5. ASSUME NEW c \in Caller, Refuse(c)
      PROVE  StdioInv'
  <2>1. /\ bucket' = bucket
        /\ \A d \in Caller : d # c => call'[d] = call[d]
        /\ call[c].at = "reserved"
        /\ call' = [call EXCEPT ![c] = [call[c] EXCEPT !.at = "refused"]]
        /\ call[c] \in Call
    BY <1>5 DEF Refuse, TypeOK
  <2>2. /\ call'[c].at = "refused" /\ call'[c].key = call[c].key
        /\ call'[c].wait = call[c].wait
    BY <2>1 DEF Call, NoCall, TypeOK
  <2>3. \A d \in Caller : /\ Uses(d, Stdio)' <=> Uses(d, Stdio)
                          /\ Holds(d, Stdio)' <=> Holds(d, Stdio)
                          /\ call'[d].wait = call[d].wait
    BY <2>1, <2>2 DEF Uses, Holds
  <2> QED
    BY <2>1, <2>3 DEF StdioInv, StdioOwesNothing, OwesNothing
<1>6. ASSUME NEW c \in Caller, Cancel(c)
      PROVE  StdioInv'
  <2> DEFINE k == call[c].key
  <2>1. /\ call'[c] = NoCall /\ call[c].at = "refused"
        /\ \A d \in Caller : d # c => call'[d] = call[d]
        /\ k \in Key /\ call[c].wait \in -1 .. MaxDebt
        /\ bucket' = [bucket EXCEPT ![k] = Cancelled(bucket[k], call[c].wait)]
    BY <1>6, CallFields DEF Cancel, TypeOK
  <2>2. ~Uses(c, Stdio)' /\ ~Holds(c, Stdio)'
    BY <2>1 DEF Uses, Holds, NoCall
  <2>3. CASE k # Stdio
    <3>1. bucket'[Stdio] = b /\ ~Holds(c, Stdio)
      BY <2>1, <2>3, <1>0 DEF TypeOK, Holds
    <3> QED
      BY <2>1, <2>2, <3>1 DEF StdioInv, Uses, Holds, StdioOwesNothing, OwesNothing
  <2>4. CASE k = Stdio
    <3>1. Holds(c, Stdio) /\ Uses(c, Stdio)
      BY <2>1, <2>4 DEF Holds, Uses
    <3>2. \A d \in Caller : d # c => ~Uses(d, Stdio)
      BY <3>1 DEF StdioInv
    <3>3. bucket'[Stdio] = Cancelled(b, call[c].wait)
      BY <2>1, <2>4 DEF TypeOK
    <3>4. Cancelled(b, call[c].wait).level >= 0
      BY <2>1, <3>1, <1>0, StdioCancelled DEF StdioInv
    <3>5. \A d \in Caller : ~Uses(d, Stdio)' /\ ~Holds(d, Stdio)'
      BY <2>1, <2>2, <3>2 DEF Uses, Holds
    <3> QED
      BY <3>3, <3>4, <3>5 DEF StdioInv, StdioOwesNothing, OwesNothing
  <2> QED
    BY <2>3, <2>4
<1>7. CASE EvictIdle
  <2>1. bucket'[Stdio] = b /\ call' = call
    BY <1>7, <1>0, StdioIsNoClient DEF EvictIdle
  <2> QED
    BY <2>1 DEF StdioInv, Uses, Holds, StdioOwesNothing, OwesNothing
<1>8. CASE Tick
  <2>1. /\ bucket'[Stdio].level = Smaller(Full, b.level + 1)
        /\ bucket'[Stdio].ahead = Larger(-1, b.ahead - 1)
    BY <1>8, <1>0 DEF Tick, Refilled
  <2>2. ASSUME NEW d \in Caller
        PROVE  /\ Uses(d, Stdio)' <=> Uses(d, Stdio)
               /\ Holds(d, Stdio)' <=> Holds(d, Stdio)
               /\ Holds(d, Stdio) => /\ call[d].wait \in -1 .. MaxDebt
                                     /\ call'[d].wait = Larger(-1, call[d].wait - 1)
    <3>1. call'[d] = Older(call[d]) /\ call[d] \in Call
      BY <1>8 DEF Tick, TypeOK
    <3> QED
      BY <3>1 DEF Older, Call, NoCall, Uses, Holds
  <2>3. ASSUME NEW d \in Caller, Holds(d, Stdio)
        PROVE  /\ bucket'[Stdio].level >= -Cost
               /\ call'[d].wait >= 0 => /\ bucket'[Stdio].ahead = call'[d].wait
                                        /\ bucket'[Stdio].level + call'[d].wait >= 0
               /\ call'[d].wait < 0 => bucket'[Stdio].level >= 0
    <3>1. /\ b.level >= -Cost
          /\ call[d].wait >= 0 => b.ahead = call[d].wait /\ b.level + call[d].wait >= 0
          /\ call[d].wait < 0 => b.level >= 0
      BY <2>3 DEF StdioInv
    <3>2. /\ call[d].wait \in -1 .. MaxDebt
          /\ call'[d].wait = Larger(-1, call[d].wait - 1)
      BY <2>2, <2>3
    <3> QED
      BY <1>0, <2>1, <3>1, <3>2 DEF Larger, Smaller
  <2>4. StdioOwesNothing'
    BY <1>0, <2>1, <2>2 DEF StdioInv, StdioOwesNothing, OwesNothing, Smaller
  <2> QED
    BY <2>2, <2>3, <2>4 DEF StdioInv
<1>9. CASE UNCHANGED vars
  BY <1>9 DEF vars, StdioInv, Uses, Holds, StdioOwesNothing, OwesNothing
<1> QED
  BY <1>1, <1>2, <1>3, <1>4, <1>5, <1>6, <1>7, <1>8, <1>9 DEF Next, Step

\* On stdio refusals cost nothing: as soon as no call holds a reservation the
\* bucket owes nothing, however long a call took and whenever it was cancelled.
THEOREM StdioNeverOwes == Spec => []StdioOwesNothing
<1>1. Init => TypeOK /\ StdioInv
  <2>1. Init => TypeOK
    BY Sizes DEF Init, TypeOK, NewBucket, Bucket, Call
  <2>2. Init => StdioInv
    BY Sizes DEF Init, StdioInv, Uses, Holds, NoCall, NewBucket,
                 StdioOwesNothing, OwesNothing, Key
  <2> QED
    BY <2>1, <2>2
<1>2. StdioInv => StdioOwesNothing
  BY DEF StdioInv
<1> QED
  BY <1>1, <1>2, TypeStep, StdioStep, PTL DEF Spec

-------------------------------------------------------------------------------
(* The rate.  RateBound is not inductive: that a call may still be allowed  *)
(* depends on the reservations that are out.  Young and Due collect those   *)
(* by how long ago they were made and by how soon they may be used, and     *)
(* Levels, Dues and Charged bound what they are worth.                      *)

Weight(S) == Cost * Cardinality(S)

Young(k, a) == {c \in Caller : Holds(c, k) /\ call[c].age <= a}

Due(k, a, j) ==
    {c \in Caller : Holds(c, k) /\ call[c].age <= a /\ call[c].wait <= j}

\* The call has been or will be refused if it is asked now, and its
\* cancellation may still give something back.
Waits(c, k) ==
    /\ Holds(c, k) /\ call[c].wait >= 0
    /\ call[c].at = "refused" \/ call[c].wait > 0

\* Reservations that wait are a token apart, the later the longer, and the
\* bucket is in debt for all of them.  So only the last of them gives back.
Queue(k) ==
    /\ \A c \in Caller : Waits(c, k) =>
          call[c].wait <= bucket[k].ahead /\ bucket[k].level <= -call[c].wait
    /\ \A c, d \in Caller : Waits(c, k) /\ Waits(d, k) /\ c # d =>
          \/ call[c].wait + Cost <= call[d].wait
          \/ call[d].wait + Cost <= call[c].wait
    /\ \A c, d \in Caller : Waits(c, k) /\ Holds(d, k) /\ call[d].age < call[c].age =>
          call[c].wait + Cost <= call[d].wait

Levels(k) ==
    \A a \in 0 .. MaxCallTicks : bucket[k].level + Weight(Young(k, a)) <= Full + a

Dues(k) ==
    \A a \in 0 .. MaxCallTicks, j \in Nat : Weight(Due(k, a, j)) <= Full + a + j

Charged(k) ==
    /\ spent[k] + bucket[k].level + Weight(Young(k, MaxCallTicks)) <= Full + MaxCallTicks
    /\ \A j \in Nat : spent[k] + Weight(Due(k, MaxCallTicks, j)) <= Full + MaxCallTicks + j

\* A client's entry is not evicted under a call, nor before the client could
\* have a full bucket again.
Rested(k) ==
    /\ \A c \in Caller : Uses(c, k) =>
          bucket[k].idle <= (IF call[c].at = "found" THEN 0 ELSE MaxCallTicks) + call[c].age
    /\ spent[k] > 0 => spent[k] + bucket[k].idle <= Full + 3 * MaxCallTicks

KeyInv(k) == Queue(k) /\ Levels(k) /\ Dues(k) /\ Charged(k)

RateInv ==
    /\ \A k \in Key : KeyInv(k)
    /\ \A k \in Client : Rested(k)

LEMMA WeightNat ==
    ASSUME NEW S \in SUBSET Caller
    PROVE  IsFiniteSet(S) /\ Cardinality(S) \in Nat /\ Weight(S) \in Nat
<1>1. IsFiniteSet(S)
  BY FinitelyManyCallers, FS_Subset
<1>2. Cardinality(S) \in Nat
  BY <1>1, FS_CardinalityType
<1> QED
  BY <1>1, <1>2, Sizes DEF Weight

LEMMA WeightEmpty == Weight({}) = 0
  BY Sizes, FS_EmptySet DEF Weight

LEMMA WeightMono ==
    ASSUME NEW T \in SUBSET Caller, NEW S \in SUBSET T
    PROVE  Weight(S) <= Weight(T)
<1>1. Cardinality(S) <= Cardinality(T)
  BY WeightNat, FS_Subset
<1>2. Cardinality(S) \in Nat /\ Cardinality(T) \in Nat
  BY WeightNat
<1>3. PICK n \in Nat : Cardinality(T) = Cardinality(S) + n
  <2>1. Cardinality(T) - Cardinality(S) \in Nat
    BY <1>1, <1>2
  <2> QED
    BY <1>2, <2>1
<1>4. Cost * (Cardinality(S) + n) = Cost * Cardinality(S) + Cost * n
  BY <1>2, Sizes
<1>5. Cost * n \in Nat /\ Cost * Cardinality(S) \in Nat
  BY <1>2, Sizes
<1> QED
  BY <1>3, <1>4, <1>5 DEF Weight

LEMMA WeightAdd ==
    ASSUME NEW S \in SUBSET Caller, NEW c \in Caller, c \notin S
    PROVE  Weight(S \cup {c}) = Weight(S) + Cost
<1>1. Cardinality(S \cup {c}) = Cardinality(S) + 1
  BY WeightNat, FS_AddElement
<1>2. Cardinality(S) \in Nat
  BY WeightNat
<1> QED
  BY <1>1, <1>2, Sizes DEF Weight

LEMMA WeightRemove ==
    ASSUME NEW S \in SUBSET Caller, NEW c \in S
    PROVE  Weight(S \ {c}) = Weight(S) - Cost
<1>1. Cardinality(S \ {c}) = Cardinality(S) - 1
  BY WeightNat, FS_RemoveElement
<1>2. Cardinality(S) \in Nat
  BY WeightNat
<1> QED
  BY <1>1, <1>2, Sizes DEF Weight

\* Nothing changes for a key no call reserves at or cancels at.
LEMMA KeyKept ==
    ASSUME NEW k \in Key, KeyInv(k),
           bucket'[k].level = bucket[k].level, bucket'[k].ahead = bucket[k].ahead,
           spent'[k] = spent[k],
           \A d \in Caller : /\ Holds(d, k)' <=> Holds(d, k)
                             /\ Waits(d, k)' <=> Waits(d, k)
                             /\ Holds(d, k) => /\ call'[d].age = call[d].age
                                               /\ call'[d].wait = call[d].wait
    PROVE  KeyInv(k)'
<1>1. \A a : Young(k, a)' = Young(k, a)
  BY DEF Young
<1>2. \A a, j : Due(k, a, j)' = Due(k, a, j)
  BY DEF Due
<1>3. Queue(k)'
  <2>1. \A d \in Caller : Waits(d, k) => Holds(d, k)
    BY DEF Waits
  <2> QED
    BY <2>1 DEF KeyInv, Queue
<1>4. Levels(k)' /\ Dues(k)' /\ Charged(k)'
  BY <1>1, <1>2 DEF KeyInv, Levels, Dues, Charged
<1> QED
  BY <1>3, <1>4 DEF KeyInv

LEMMA YoungCallers ==
    ASSUME NEW k, NEW a
    PROVE  Young(k, a) \in SUBSET Caller /\ Weight(Young(k, a)) \in Nat
<1>1. Young(k, a) \in SUBSET Caller
  BY DEF Young
<1> QED
  BY <1>1, WeightNat

LEMMA DueCallers ==
    ASSUME NEW k, NEW a, NEW j
    PROVE  /\ Due(k, a, j) \in SUBSET Caller /\ Weight(Due(k, a, j)) \in Nat
           /\ Weight(Due(k, a, j)) <= Weight(Young(k, a))
<1>1. Young(k, a) \in SUBSET Caller /\ Due(k, a, j) \in SUBSET Young(k, a)
  BY DEF Young, Due
<1>2. Due(k, a, j) \in SUBSET Caller
  BY <1>1
<1> QED
  BY <1>1, <1>2, WeightNat, WeightMono

\* What a call that holds a reservation has.
LEMMA HeldFields ==
    ASSUME TypeOK, NEW c \in Caller, NEW k, Holds(c, k)
    PROVE  /\ call[c].age \in 0 .. MaxCallTicks
           /\ call[c].wait \in -1 .. MaxDebt
           /\ call[c].at \in {"reserved", "refused"}
  BY CallFields DEF Holds

LEMMA ReserveKeepsKey ==
    ASSUME TypeOK, NEW c \in Caller, NEW k \in Key, KeyInv(k), Reserve(c), call[c].key = k
    PROVE  KeyInv(k)'
<1> USE Sizes
<1> DEFINE b == bucket[k]
           w == Reserved(b).ahead
<1>1. /\ b \in Bucket /\ b.level \in -MaxDebt .. Full /\ spent[k] \in Nat
  BY BucketFields
<1>2. /\ call'[c] = [at |-> "reserved", key |-> k, age |-> 0, wait |-> w]
      /\ \A d \in Caller : d # c => call'[d] = call[d]
      /\ bucket'[k] = Reserved(b) /\ spent' = spent
      /\ ~Holds(c, k)
  BY DEF Reserve, TypeOK, Holds
<1>3. /\ bucket'[k].level = b.level - Cost /\ bucket'[k].ahead = w
      /\ w \in Nat /\ w >= Cost - b.level
      /\ w > 0 => w = Cost - b.level
  BY <1>1, <1>2, ReservedFields DEF Larger
<1>4. /\ Holds(c, k)' /\ call'[c].age = 0 /\ call'[c].wait = w
      /\ Waits(c, k)' <=> w > 0
      /\ \A d \in Caller : d # c => /\ Holds(d, k)' <=> Holds(d, k)
                                    /\ Waits(d, k)' <=> Waits(d, k)
  BY <1>2, <1>3 DEF Holds, Waits
<1> HIDE DEF w
<1>5. ASSUME NEW a \in 0 .. MaxCallTicks
      PROVE  Weight(Young(k, a)') = Weight(Young(k, a)) + Cost
  <2>1. Young(k, a)' = Young(k, a) \cup {c}
    BY <1>2, <1>4 DEF Young
  <2>2. c \notin Young(k, a)
    BY <1>2 DEF Young
  <2> QED
    BY <2>1, <2>2, YoungCallers, DueCallers, WeightAdd
<1>6. ASSUME NEW a \in 0 .. MaxCallTicks, NEW j \in Nat
      PROVE  \/ Due(k, a, j)' = Due(k, a, j)
             \/ w <= j /\ Weight(Due(k, a, j)') = Weight(Due(k, a, j)) + Cost
  <2>1. Due(k, a, j)' = IF w <= j THEN Due(k, a, j) \cup {c} ELSE Due(k, a, j)
    BY <1>2, <1>4 DEF Due
  <2>2. c \notin Due(k, a, j) /\ Due(k, a, j) \in SUBSET Caller
    BY <1>2 DEF Due
  <2> QED
    BY <2>1, <2>2, WeightAdd
<1>7. Queue(k)'
  <2>1. ASSUME NEW d \in Caller, d # c, Waits(d, k)
        PROVE  /\ call[d].wait \in Nat /\ call'[d] = call[d]
               /\ call[d].wait + Cost <= w
               /\ call[d].wait <= -b.level
    <3>1. call[d].wait \in -1 .. MaxDebt /\ call[d].wait >= 0
      BY <2>1, HeldFields DEF Waits
    <3>2. b.level <= -call[d].wait
      BY <2>1 DEF KeyInv, Queue
    <3> QED
      BY <1>1, <1>2, <1>3, <2>1, <3>1, <3>2
  <2>2. ASSUME NEW d \in Caller, Waits(d, k)'
        PROVE  call'[d].wait <= bucket'[k].ahead /\ bucket'[k].level <= -call'[d].wait
    <3>1. CASE d = c
      BY <1>1, <1>3, <1>4, <2>2, <3>1
    <3>2. CASE d # c
      BY <1>1, <1>3, <1>4, <2>1, <2>2, <3>2
    <3> QED
      BY <3>1, <3>2
  <2>3. ASSUME NEW d \in Caller, NEW e \in Caller, Waits(d, k)', Waits(e, k)', d # e
        PROVE  \/ call'[d].wait + Cost <= call'[e].wait
               \/ call'[e].wait + Cost <= call'[d].wait
    <3>1. CASE d = c
      BY <1>4, <2>1, <2>3, <3>1
    <3>2. CASE e = c
      BY <1>4, <2>1, <2>3, <3>2
    <3>3. CASE d # c /\ e # c
      BY <1>2, <1>4, <2>3, <3>3 DEF KeyInv, Queue
    <3> QED
      BY <3>1, <3>2, <3>3
  <2>4. ASSUME NEW d \in Caller, NEW e \in Caller, Waits(d, k)', Holds(e, k)',
               call'[e].age < call'[d].age
        PROVE  call'[d].wait + Cost <= call'[e].wait
    <3>1. CASE d = c
      <4>1. call'[e].age \in Nat
        BY <1>2, <1>4, <2>4, HeldFields
      <4> QED
        BY <1>4, <2>4, <3>1, <4>1
    <3>2. CASE d # c /\ e = c
      BY <1>4, <2>1, <2>4, <3>2
    <3>3. CASE d # c /\ e # c
      BY <1>2, <1>4, <2>4, <3>3 DEF KeyInv, Queue
    <3> QED
      BY <3>1, <3>2, <3>3
  <2> QED
    BY <2>2, <2>3, <2>4 DEF Queue
<1>8. Levels(k)'
  <2> SUFFICES ASSUME NEW a \in 0 .. MaxCallTicks
               PROVE  bucket'[k].level + Weight(Young(k, a)') <= Full + a
    BY DEF Levels, Weight
  <2> QED
    BY <1>1, <1>3, <1>5, YoungCallers, DueCallers DEF KeyInv, Levels
<1>9. Dues(k)'
  <2> SUFFICES ASSUME NEW a \in 0 .. MaxCallTicks, NEW j \in Nat
               PROVE  Weight(Due(k, a, j)') <= Full + a + j
    BY DEF Dues, Weight
  <2>1. b.level + Weight(Young(k, a)) <= Full + a
    BY DEF KeyInv, Levels
  <2>2. Weight(Due(k, a, j)) <= Full + a + j
    BY DEF KeyInv, Dues
  <2> QED
    BY <1>1, <1>3, <1>6, <2>1, <2>2, YoungCallers, DueCallers
<1>10. Charged(k)'
  <2>1. spent[k] + b.level + Weight(Young(k, MaxCallTicks)) <= Full + MaxCallTicks
    BY DEF KeyInv, Charged
  <2>2. MaxCallTicks \in 0 .. MaxCallTicks
    OBVIOUS
  <2>3. spent[k] + bucket'[k].level + Weight(Young(k, MaxCallTicks)')
          <= Full + MaxCallTicks
    BY <1>1, <1>3, <1>5, <2>1, <2>2, YoungCallers, DueCallers
  <2>4. ASSUME NEW j \in Nat
        PROVE  spent[k] + Weight(Due(k, MaxCallTicks, j)') <= Full + MaxCallTicks + j
    <3>1. spent[k] + Weight(Due(k, MaxCallTicks, j)) <= Full + MaxCallTicks + j
      BY DEF KeyInv, Charged
    <3> QED
      BY <1>1, <1>3, <1>6, <2>1, <2>2, <3>1, YoungCallers, DueCallers
  <2> QED
    BY <1>2, <2>3, <2>4 DEF Charged, Weight
<1> QED
  BY <1>7, <1>8, <1>9, <1>10 DEF KeyInv

\* A call that gives up its reservation leaves the others as they are.
LEMMA CallLeaves ==
    ASSUME NEW c \in Caller, NEW k \in Key, call'[c] = NoCall,
           \A d \in Caller : d # c => call'[d] = call[d]
    PROVE  /\ \A a : Young(k, a)' = Young(k, a) \ {c}
           /\ \A a, j : Due(k, a, j)' = Due(k, a, j) \ {c}
           /\ \A d \in Caller : /\ Holds(d, k)' <=> d # c /\ Holds(d, k)
                                /\ Waits(d, k)' <=> d # c /\ Waits(d, k)
<1>1. ~Holds(c, k)' /\ ~Waits(c, k)'
  BY DEF Holds, Waits, NoCall
<1>2. \A d \in Caller : d # c => /\ Holds(d, k)' <=> Holds(d, k)
                                 /\ Waits(d, k)' <=> Waits(d, k)
  BY DEF Holds, Waits
<1>3. \A a : Young(k, a)' = Young(k, a) \ {c}
  BY <1>1, <1>2 DEF Young
<1>4. \A a, j : Due(k, a, j)' = Due(k, a, j) \ {c}
  BY <1>1, <1>2 DEF Due
<1> QED
  BY <1>1, <1>2, <1>3, <1>4

LEMMA WeightWithout ==
    ASSUME NEW S \in SUBSET Caller, NEW c
    PROVE  /\ Weight(S) \in Nat /\ Weight(S \ {c}) \in Nat
           /\ Weight(S \ {c}) <= Weight(S)
           /\ c \in S => Weight(S \ {c}) = Weight(S) - Cost
<1>1. S \ {c} \in SUBSET S /\ S \ {c} \in SUBSET Caller
  OBVIOUS
<1> QED
  BY <1>1, WeightNat, WeightMono, WeightRemove

LEMMA AllowKeepsKey ==
    ASSUME TypeOK, NEW c \in Caller, NEW k \in Key, KeyInv(k), Allow(c), call[c].key = k
    PROVE  KeyInv(k)'
<1> USE Sizes
<1>1. /\ bucket[k].level \in -MaxDebt .. Full /\ spent[k] \in Nat
  BY BucketFields
<1>2. /\ call'[c] = NoCall /\ \A d \in Caller : d # c => call'[d] = call[d]
      /\ bucket' = bucket /\ spent'[k] = spent[k] + Cost
      /\ Holds(c, k) /\ call[c].wait <= 0
  BY DEF Allow, Charge, TypeOK, Holds
<1>3. call[c].age \in 0 .. MaxCallTicks /\ call[c].wait \in -1 .. MaxDebt
  BY <1>2, HeldFields
<1>4. /\ \A a : Young(k, a)' = Young(k, a) \ {c}
      /\ \A a, j : Due(k, a, j)' = Due(k, a, j) \ {c}
      /\ \A d \in Caller : /\ Holds(d, k)' <=> d # c /\ Holds(d, k)
                           /\ Waits(d, k)' <=> d # c /\ Waits(d, k)
  BY <1>2, CallLeaves
<1>5. Queue(k)'
  BY <1>2, <1>4 DEF KeyInv, Queue
<1>6. Levels(k)'
  <2> SUFFICES ASSUME NEW a \in 0 .. MaxCallTicks
               PROVE  bucket'[k].level + Weight(Young(k, a)') <= Full + a
    BY DEF Levels, Weight
  <2>1. Weight(Young(k, a)') <= Weight(Young(k, a)) /\ Weight(Young(k, a)') \in Nat
    BY <1>4, YoungCallers, WeightWithout
  <2>2. bucket[k].level + Weight(Young(k, a)) <= Full + a
    BY DEF KeyInv, Levels
  <2> QED
    BY <1>1, <1>2, <2>1, <2>2, YoungCallers
<1>7. Dues(k)'
  <2> SUFFICES ASSUME NEW a \in 0 .. MaxCallTicks, NEW j \in Nat
               PROVE  Weight(Due(k, a, j)') <= Full + a + j
    BY DEF Dues, Weight
  <2>1. Weight(Due(k, a, j)') <= Weight(Due(k, a, j)) /\ Weight(Due(k, a, j)') \in Nat
    BY <1>4, DueCallers, WeightWithout
  <2>2. Weight(Due(k, a, j)) <= Full + a + j
    BY DEF KeyInv, Dues
  <2> QED
    BY <2>1, <2>2, DueCallers
<1>8. Charged(k)'
  <2>1. Weight(Young(k, MaxCallTicks)') = Weight(Young(k, MaxCallTicks)) - Cost
    <3>1. c \in Young(k, MaxCallTicks)
      BY <1>2, <1>3 DEF Young
    <3> QED
      BY <1>4, <3>1, YoungCallers, WeightWithout
  <2>2. ASSUME NEW j \in Nat
        PROVE  spent'[k] + Weight(Due(k, MaxCallTicks, j)') <= Full + MaxCallTicks + j
    <3>1. c \in Due(k, MaxCallTicks, j)
      BY <1>2, <1>3 DEF Due
    <3>2. Weight(Due(k, MaxCallTicks, j)') = Weight(Due(k, MaxCallTicks, j)) - Cost
      BY <1>4, <3>1, DueCallers, WeightWithout
    <3>3. spent[k] + Weight(Due(k, MaxCallTicks, j)) <= Full + MaxCallTicks + j
      BY DEF KeyInv, Charged
    <3> QED
      BY <1>1, <1>2, <3>2, <3>3, DueCallers
  <2>3. spent[k] + bucket[k].level + Weight(Young(k, MaxCallTicks)) <= Full + MaxCallTicks
    BY DEF KeyInv, Charged
  <2>4. spent'[k] + bucket'[k].level + Weight(Young(k, MaxCallTicks)')
          <= Full + MaxCallTicks
    BY <1>1, <1>2, <2>1, <2>3, YoungCallers
  <2> QED
    BY <2>2, <2>4 DEF Charged, Weight
<1> QED
  BY <1>5, <1>6, <1>7, <1>8 DEF KeyInv

\* Only the last reservation that waits gives back, and then it gives back all.
LEMMA GivesBack ==
    ASSUME TypeOK, NEW c \in Caller, NEW k \in Key, KeyInv(k), Cancel(c), call[c].key = k,
           bucket'[k] # bucket[k]
    PROVE  LET b == bucket[k]
               wait == call[c].wait
               back == Cost - (b.ahead - wait)
           IN  /\ Waits(c, k) /\ wait <= b.ahead /\ back > 0 /\ back <= Cost
               /\ bucket'[k].level = Smaller(Full, b.level + back)
               /\ bucket'[k].ahead = IF b.ahead = wait /\ wait - Cost >= 0
                                     THEN wait - Cost ELSE b.ahead
               /\ \A d \in Caller : d # c /\ Waits(d, k) =>
                     call[d].wait + Cost <= wait
<1> USE Sizes
<1> DEFINE b == bucket[k]
           wait == call[c].wait
           back == Cost - (b.ahead - wait)
<1>1. b \in Bucket /\ b.ahead \in -1 .. MaxDebt
  BY BucketFields
<1>2. call[c].at = "refused" /\ Holds(c, k) /\ wait \in -1 .. MaxDebt
  BY CallFields DEF Cancel, Holds
<1>3. bucket'[k] = Cancelled(b, wait)
  BY DEF Cancel, TypeOK
<1>4. wait >= 0 /\ back > 0
  BY <1>1, <1>2, <1>3, CancelledNothing
<1>5. Waits(c, k) /\ wait <= b.ahead
  BY <1>2, <1>4 DEF Waits, KeyInv, Queue
<1>6. ASSUME NEW d \in Caller, d # c, Waits(d, k)
      PROVE  call[d].wait + Cost <= wait
  <2>1. call[d].wait <= b.ahead /\ call[d].wait \in -1 .. MaxDebt
    BY <1>6, HeldFields DEF Waits, KeyInv, Queue
  <2>2. \/ wait + Cost <= call[d].wait
        \/ call[d].wait + Cost <= wait
    BY <1>5, <1>6 DEF KeyInv, Queue
  <2> QED
    BY <1>1, <1>2, <1>4, <2>1, <2>2
<1>7. Cancelled(b, wait).level = Smaller(Full, b.level + back)
  BY <1>1, <1>2, <1>4, CancelledFields
<1>8. Cancelled(b, wait).ahead = IF b.ahead = wait /\ wait - Cost >= 0
                                 THEN wait - Cost ELSE b.ahead
  BY <1>1, <1>2, <1>4, CancelledFields
<1> QED
  BY <1>1, <1>2, <1>3, <1>4, <1>5, <1>6, <1>7, <1>8

LEMMA CancelKeepsKey ==
    ASSUME TypeOK, NEW c \in Caller, NEW k \in Key, KeyInv(k), Cancel(c), call[c].key = k
    PROVE  KeyInv(k)'
<1> USE Sizes
<1> DEFINE b == bucket[k]
           wait == call[c].wait
<1>1. /\ b \in Bucket /\ b.level \in -MaxDebt .. Full /\ b.ahead \in -1 .. MaxDebt
      /\ spent[k] \in Nat
  BY BucketFields
<1>2. /\ call'[c] = NoCall /\ \A d \in Caller : d # c => call'[d] = call[d]
      /\ spent' = spent /\ Holds(c, k) /\ call[c].at = "refused"
      /\ wait \in -1 .. MaxDebt /\ call[c].age \in 0 .. MaxCallTicks
  BY CallFields DEF Cancel, TypeOK, Holds
<1>3. /\ \A a : Young(k, a)' = Young(k, a) \ {c}
      /\ \A a, j : Due(k, a, j)' = Due(k, a, j) \ {c}
      /\ \A d \in Caller : /\ Holds(d, k)' <=> d # c /\ Holds(d, k)
                           /\ Waits(d, k)' <=> d # c /\ Waits(d, k)
  BY <1>2, CallLeaves
<1>4. Dues(k)'
  <2> SUFFICES ASSUME NEW a \in 0 .. MaxCallTicks, NEW j \in Nat
               PROVE  Weight(Due(k, a, j)') <= Full + a + j
    BY DEF Dues, Weight
  <2>1. Weight(Due(k, a, j)') <= Weight(Due(k, a, j)) /\ Weight(Due(k, a, j)') \in Nat
    BY <1>3, DueCallers, WeightWithout
  <2>2. Weight(Due(k, a, j)) <= Full + a + j
    BY DEF KeyInv, Dues
  <2> QED
    BY <2>1, <2>2, DueCallers
<1>5. \A j \in Nat : spent'[k] + Weight(Due(k, MaxCallTicks, j)') <= Full + MaxCallTicks + j
  <2> SUFFICES ASSUME NEW j \in Nat
               PROVE  spent[k] + Weight(Due(k, MaxCallTicks, j)') <= Full + MaxCallTicks + j
    BY <1>2
  <2>1. /\ Weight(Due(k, MaxCallTicks, j)') <= Weight(Due(k, MaxCallTicks, j))
        /\ Weight(Due(k, MaxCallTicks, j)') \in Nat
    BY <1>3, DueCallers, WeightWithout
  <2>2. spent[k] + Weight(Due(k, MaxCallTicks, j)) <= Full + MaxCallTicks + j
    BY DEF KeyInv, Charged
  <2> QED
    BY <1>1, <2>1, <2>2, DueCallers
<1>6. CASE bucket'[k] = b
  <2>1. Queue(k)'
    BY <1>2, <1>3, <1>6 DEF KeyInv, Queue
  <2>2. \A a : /\ Weight(Young(k, a)') <= Weight(Young(k, a))
               /\ Weight(Young(k, a)') \in Nat
    BY <1>3, YoungCallers, WeightWithout
  <2>3. Levels(k)'
    <3> SUFFICES ASSUME NEW a \in 0 .. MaxCallTicks
                 PROVE  bucket'[k].level + Weight(Young(k, a)') <= Full + a
      BY DEF Levels, Weight
    <3>1. b.level + Weight(Young(k, a)) <= Full + a
      BY DEF KeyInv, Levels
    <3> QED
      BY <1>1, <1>6, <2>2, <3>1, YoungCallers
  <2>4. Charged(k)'
    <3>1. spent[k] + b.level + Weight(Young(k, MaxCallTicks)) <= Full + MaxCallTicks
      BY DEF KeyInv, Charged
    <3>2. spent'[k] + bucket'[k].level + Weight(Young(k, MaxCallTicks)')
            <= Full + MaxCallTicks
      BY <1>1, <1>2, <1>6, <2>2, <3>1, YoungCallers
    <3> QED
      BY <1>5, <3>2 DEF Charged, Weight
  <2> QED
    BY <1>4, <2>1, <2>3, <2>4 DEF KeyInv
<1>7. CASE bucket'[k] # b
  <2> DEFINE back == Cost - (b.ahead - wait)
  <2>1. /\ Waits(c, k) /\ wait <= b.ahead /\ back > 0 /\ back <= Cost
        /\ bucket'[k].level = Smaller(Full, b.level + back)
        /\ bucket'[k].ahead = IF b.ahead = wait /\ wait - Cost >= 0
                              THEN wait - Cost ELSE b.ahead
        /\ \A d \in Caller : d # c /\ Waits(d, k) => call[d].wait + Cost <= wait
    BY <1>7, GivesBack
  <2>2. b.level <= -wait /\ wait >= 0
    BY <2>1 DEF KeyInv, Queue, Waits
  <2>3. /\ bucket'[k].level \in Int /\ bucket'[k].level <= Full
        /\ bucket'[k].level <= b.level + Cost
    BY <1>1, <1>2, <2>1 DEF Smaller
  <2>4. Queue(k)'
    <3>1. ASSUME NEW d \in Caller, Waits(d, k)'
          PROVE  call'[d].wait <= bucket'[k].ahead /\ bucket'[k].level <= -call'[d].wait
      <4>1. d # c /\ Waits(d, k) /\ call'[d] = call[d] /\ call[d].wait \in -1 .. MaxDebt
        BY <1>2, <1>3, <3>1, HeldFields DEF Waits
      <4>2. call[d].wait + Cost <= wait
        BY <2>1, <4>1
      <4> QED
        BY <1>1, <1>2, <2>1, <2>2, <2>3, <4>1, <4>2
    <3> QED
      BY <1>2, <1>3, <3>1 DEF KeyInv, Queue
  <2>5. Levels(k)'
    <3> SUFFICES ASSUME NEW a \in 0 .. MaxCallTicks
                 PROVE  bucket'[k].level + Weight(Young(k, a)') <= Full + a
      BY DEF Levels, Weight
    <3>1. CASE call[c].age <= a
      <4>1. c \in Young(k, a)
        BY <1>2, <3>1 DEF Young
      <4>2. Weight(Young(k, a)') = Weight(Young(k, a)) - Cost
        BY <1>3, <4>1, YoungCallers, WeightWithout
      <4>3. b.level + Weight(Young(k, a)) <= Full + a
        BY DEF KeyInv, Levels
      <4> QED
        BY <1>1, <2>3, <4>2, <4>3, YoungCallers
    <3>2. CASE ~(call[c].age <= a)
      <4>1. ASSUME NEW d \in Caller, Holds(d, k), call[d].age <= a
            PROVE  FALSE
        <5>1. call[d].age < call[c].age /\ d # c
          BY <1>2, <3>2, <4>1, HeldFields
        <5>2. wait + Cost <= call[d].wait
          BY <2>1, <4>1, <5>1 DEF KeyInv, Queue
        <5>3. call[d].wait \in -1 .. MaxDebt
          BY <4>1, HeldFields
        <5>4. Waits(d, k)
          BY <1>2, <2>2, <4>1, <5>2, <5>3 DEF Waits
        <5> QED
          BY <1>2, <2>1, <5>1, <5>2, <5>3, <5>4
      <4>2. Young(k, a)' = {}
        BY <1>3, <4>1 DEF Young
      <4> QED
        BY <2>3, <4>2, WeightEmpty
    <3> QED
      BY <3>1, <3>2
  <2>6. Charged(k)'
    <3>1. c \in Young(k, MaxCallTicks)
      BY <1>2 DEF Young
    <3>2. Weight(Young(k, MaxCallTicks)') = Weight(Young(k, MaxCallTicks)) - Cost
      BY <1>3, <3>1, YoungCallers, WeightWithout
    <3>3. spent[k] + b.level + Weight(Young(k, MaxCallTicks)) <= Full + MaxCallTicks
      BY DEF KeyInv, Charged
    <3>4. spent'[k] + bucket'[k].level + Weight(Young(k, MaxCallTicks)')
            <= Full + MaxCallTicks
      BY <1>1, <1>2, <2>3, <3>2, <3>3, YoungCallers
    <3> QED
      BY <1>5, <3>4 DEF Charged, Weight
  <2> QED
    BY <1>4, <2>4, <2>5, <2>6 DEF KeyInv
<1> QED
  BY <1>6, <1>7

\* A tick ages every reservation and brings it nearer.
LEMMA TickedCalls ==
    ASSUME TypeOK, Tick, NEW k \in Key, NEW d \in Caller
    PROVE  /\ Uses(d, k)' <=> Uses(d, k)
           /\ call'[d].at = call[d].at
           /\ Holds(d, k)' <=> Holds(d, k)
           /\ Uses(d, k) => /\ call[d].age \in Nat /\ call[d].age < MaxCallTicks
                            /\ call'[d].age = call[d].age + 1
           /\ Holds(d, k) => /\ call[d].wait \in -1 .. MaxDebt
                             /\ call'[d].wait = Larger(-1, call[d].wait - 1)
<1>1. call'[d] = Older(call[d]) /\ call[d] \in Call
  BY DEF Tick, TypeOK
<1>2. call[d] # NoCall => call[d].age < MaxCallTicks
  BY DEF Tick
<1>3. CASE call[d] = NoCall
  BY <1>1, <1>3 DEF Older, NoCall, Uses, Holds
<1>4. CASE call[d] \in [at : {"found"}, key : Key, age : 0 .. MaxCallTicks]
  BY <1>1, <1>2, <1>4 DEF Older, NoCall, Uses, Holds
<1>5. CASE call[d] \in [at : {"reserved", "refused"}, key : Key,
                        age : 0 .. MaxCallTicks, wait : -1 .. MaxDebt]
  <2>1. call'[d] = [call[d] EXCEPT !.age = call[d].age + 1,
                                   !.wait = Larger(-1, call[d].wait - 1)]
    BY <1>1, <1>5 DEF Older
  <2>2. /\ call'[d].age = call[d].age + 1 /\ call'[d].wait = Larger(-1, call[d].wait - 1)
        /\ call'[d].at = call[d].at /\ call'[d].key = call[d].key
    BY <1>5, <2>1
  <2>3. call[d] # NoCall
    BY <1>5 DEF NoCall
  <2> QED
    BY <1>2, <1>5, <2>2, <2>3 DEF Uses, Holds
<1> QED
  BY <1>1, <1>3, <1>4, <1>5 DEF Call

LEMMA TickedSets ==
    ASSUME TypeOK, Tick, NEW k \in Key
    PROVE  /\ Young(k, 0)' = {}
           /\ \A a \in 0 .. MaxCallTicks : a > 0 => Young(k, a)' = Young(k, a - 1)
           /\ \A j : Due(k, 0, j)' = {}
           /\ \A a \in 0 .. MaxCallTicks, j \in Nat : a > 0 =>
                 Due(k, a, j)' = Due(k, a - 1, j + 1)
           /\ Young(k, MaxCallTicks)' = Young(k, MaxCallTicks)
           /\ \A j \in Nat : Due(k, MaxCallTicks, j)' = Due(k, MaxCallTicks, j + 1)
<1> USE Sizes
<1>1. \A d \in Caller :
          /\ Holds(d, k)' <=> Holds(d, k)
          /\ Holds(d, k) => /\ call[d].age \in Nat /\ call[d].age < MaxCallTicks
                            /\ call'[d].age = call[d].age + 1
                            /\ \A j \in Nat : call'[d].wait <= j <=> call[d].wait <= j + 1
  <2> SUFFICES ASSUME NEW d \in Caller, Holds(d, k)
               PROVE  /\ call[d].age \in Nat /\ call[d].age < MaxCallTicks
                      /\ call'[d].age = call[d].age + 1
                      /\ \A j \in Nat : call'[d].wait <= j <=> call[d].wait <= j + 1
    BY TickedCalls
  <2>1. Uses(d, k)
    BY DEF Holds, Uses
  <2> QED
    BY <2>1, TickedCalls DEF Larger
<1>2. Young(k, 0)' = {} /\ \A j : Due(k, 0, j)' = {}
  BY <1>1 DEF Young, Due
<1>3. \A a \in 0 .. MaxCallTicks : a > 0 => Young(k, a)' = Young(k, a - 1)
  BY <1>1 DEF Young
<1>4. \A a \in 0 .. MaxCallTicks, j \in Nat : a > 0 =>
          Due(k, a, j)' = Due(k, a - 1, j + 1)
  BY <1>1 DEF Due
<1>5. Young(k, MaxCallTicks)' = Young(k, MaxCallTicks)
  BY <1>1 DEF Young
<1>6. \A j \in Nat : Due(k, MaxCallTicks, j)' = Due(k, MaxCallTicks, j + 1)
  BY <1>1 DEF Due
<1> QED
  BY <1>2, <1>3, <1>4, <1>5, <1>6

LEMMA TickKeepsQueue ==
    ASSUME TypeOK, Tick, NEW k \in Key, KeyInv(k)
    PROVE  Queue(k)'
<1> USE Sizes
<1>1. /\ bucket[k].level \in -MaxDebt .. Full /\ bucket[k].ahead \in -1 .. MaxDebt
      /\ bucket'[k].level = Smaller(Full, bucket[k].level + 1)
      /\ bucket'[k].ahead = Larger(-1, bucket[k].ahead - 1)
  BY BucketFields DEF Tick, Refilled
<1>2. ASSUME NEW d \in Caller, Waits(d, k)'
      PROVE  /\ Waits(d, k) /\ Holds(d, k) /\ call[d].wait \in 1 .. MaxDebt
             /\ call'[d].wait = call[d].wait - 1
  <2>1. Holds(d, k)' /\ call'[d].wait >= 0 /\ (call'[d].at = "refused" \/ call'[d].wait > 0)
    BY <1>2 DEF Waits
  <2>2. Holds(d, k) /\ call[d].wait \in -1 .. MaxDebt
        /\ call'[d].wait = Larger(-1, call[d].wait - 1) /\ call'[d].at = call[d].at
    BY <2>1, TickedCalls
  <2> QED
    BY <2>1, <2>2 DEF Waits, Larger
<1>3. ASSUME NEW d \in Caller, Waits(d, k)'
      PROVE  call'[d].wait <= bucket'[k].ahead /\ bucket'[k].level <= -call'[d].wait
  <2>1. call[d].wait <= bucket[k].ahead /\ bucket[k].level <= -call[d].wait
    BY <1>2, <1>3 DEF KeyInv, Queue
  <2>2. call[d].wait \in 1 .. MaxDebt /\ call'[d].wait = call[d].wait - 1
    BY <1>2, <1>3
  <2> QED
    BY <1>1, <2>1, <2>2 DEF Larger, Smaller
<1>4. ASSUME NEW d \in Caller, NEW e \in Caller, Waits(d, k)', Waits(e, k)', d # e
      PROVE  \/ call'[d].wait + Cost <= call'[e].wait
             \/ call'[e].wait + Cost <= call'[d].wait
  <2>1. \/ call[d].wait + Cost <= call[e].wait
        \/ call[e].wait + Cost <= call[d].wait
    BY <1>2, <1>4 DEF KeyInv, Queue
  <2> QED
    BY <1>2, <1>4, <2>1
<1>5. ASSUME NEW d \in Caller, NEW e \in Caller, Waits(d, k)', Holds(e, k)',
             call'[e].age < call'[d].age
      PROVE  call'[d].wait + Cost <= call'[e].wait
  <2>1. Holds(d, k) /\ Holds(e, k) /\ Uses(d, k) /\ Uses(e, k)
    BY <1>2, <1>5, TickedCalls DEF Holds, Uses
  <2>2. call[e].age < call[d].age
    BY <1>5, <2>1, TickedCalls
  <2>3. call[d].wait + Cost <= call[e].wait
    BY <1>2, <1>5, <2>1, <2>2 DEF KeyInv, Queue
  <2>4. /\ call[e].wait \in -1 .. MaxDebt
        /\ call'[e].wait = Larger(-1, call[e].wait - 1)
    BY <2>1, TickedCalls
  <2> QED
    BY <1>2, <1>5, <2>3, <2>4 DEF Larger
<1> QED
  BY <1>3, <1>4, <1>5 DEF Queue

LEMMA TickKeepsKey ==
    ASSUME TypeOK, Tick, NEW k \in Key, KeyInv(k)
    PROVE  KeyInv(k)'
<1> USE Sizes
<1> DEFINE M == MaxCallTicks
<1>1. /\ bucket[k].level \in -MaxDebt .. Full /\ spent[k] \in Nat
      /\ bucket'[k].level = Smaller(Full, bucket[k].level + 1)
      /\ spent'[k] = Larger(0, spent[k] - 1)
  BY BucketFields DEF Tick, Refilled
<1>2. /\ bucket'[k].level \in Int /\ bucket'[k].level <= Full
      /\ bucket'[k].level <= bucket[k].level + 1
  BY <1>1 DEF Smaller
<1>3. \A a \in 0 .. M : bucket'[k].level + Weight(Young(k, a)') <= Full + a
  <2> SUFFICES ASSUME NEW a \in 0 .. M
               PROVE  bucket'[k].level + Weight(Young(k, a)') <= Full + a
    OBVIOUS
  <2>1. CASE a = 0
    <3>1. Young(k, a)' = {}
      BY <2>1, TickedSets
    <3>2. Weight(Young(k, a)') = 0
      BY <3>1, WeightEmpty
    <3> QED
      BY <1>2, <2>1, <3>2
  <2>2. CASE a > 0
    <3>1. Young(k, a)' = Young(k, a - 1) /\ a - 1 \in 0 .. M
      BY <2>2, TickedSets
    <3>2. bucket[k].level + Weight(Young(k, a - 1)) <= Full + (a - 1)
      BY <3>1 DEF KeyInv, Levels
    <3> QED
      BY <1>1, <1>2, <3>1, <3>2, YoungCallers
  <2> QED
    BY <2>1, <2>2
<1>4. \A a \in 0 .. M, j \in Nat : Weight(Due(k, a, j)') <= Full + a + j
  <2> SUFFICES ASSUME NEW a \in 0 .. M, NEW j \in Nat
               PROVE  Weight(Due(k, a, j)') <= Full + a + j
    OBVIOUS
  <2>1. CASE a = 0
    BY <2>1, TickedSets, WeightEmpty
  <2>2. CASE a > 0
    <3>1. Due(k, a, j)' = Due(k, a - 1, j + 1) /\ a - 1 \in 0 .. M /\ j + 1 \in Nat
      BY <2>2, TickedSets
    <3>2. Weight(Due(k, a - 1, j + 1)) <= Full + (a - 1) + (j + 1)
      BY <3>1 DEF KeyInv, Dues
    <3> QED
      BY <3>1, <3>2, DueCallers
  <2> QED
    BY <2>1, <2>2
<1>5. M \in 0 .. M
  OBVIOUS
<1>6. spent'[k] + bucket'[k].level + Weight(Young(k, M)') <= Full + M
  <2>1. CASE spent[k] = 0
    <3>1. spent'[k] = 0
      BY <1>1, <2>1 DEF Larger
    <3>2. bucket'[k].level + Weight(Young(k, M)') <= Full + M
      BY <1>3, <1>5
    <3>3. Young(k, M)' = Young(k, M)
      BY TickedSets
    <3> QED
      BY <1>2, <3>1, <3>2, <3>3, YoungCallers
  <2>2. CASE spent[k] > 0
    <3>1. spent'[k] = spent[k] - 1
      BY <1>1, <2>2 DEF Larger
    <3>2. Young(k, M)' = Young(k, M)
      BY TickedSets
    <3>3. spent[k] + bucket[k].level + Weight(Young(k, M)) <= Full + M
      BY DEF KeyInv, Charged
    <3> QED
      BY <1>1, <1>2, <3>1, <3>2, <3>3, YoungCallers
  <2> QED
    BY <1>1, <2>1, <2>2
<1>7. \A j \in Nat : spent'[k] + Weight(Due(k, M, j)') <= Full + M + j
  <2> SUFFICES ASSUME NEW j \in Nat
               PROVE  spent'[k] + Weight(Due(k, M, j)') <= Full + M + j
    OBVIOUS
  <2>1. Due(k, M, j)' = Due(k, M, j + 1)
    BY TickedSets
  <2>2. CASE spent[k] = 0
    <3>1. spent'[k] = 0
      BY <1>1, <2>2 DEF Larger
    <3>2. Weight(Due(k, M, j)') <= Full + M + j
      BY <1>4, <1>5
    <3> QED
      BY <2>1, <3>1, <3>2, DueCallers
  <2>3. CASE spent[k] > 0
    <3>1. spent'[k] = spent[k] - 1
      BY <1>1, <2>3 DEF Larger
    <3>2. spent[k] + Weight(Due(k, M, j + 1)) <= Full + M + (j + 1)
      BY DEF KeyInv, Charged
    <3> QED
      BY <1>1, <2>1, <3>1, <3>2, DueCallers
  <2> QED
    BY <1>1, <2>2, <2>3
<1>8. Levels(k)' /\ Dues(k)' /\ Charged(k)'
  BY <1>3, <1>4, <1>6, <1>7 DEF Levels, Dues, Charged, Weight
<1> QED
  BY <1>8, TickKeepsQueue DEF KeyInv

LEMMA EvictedKey ==
    ASSUME TypeOK, EvictIdle, NEW k \in Client, KeyInv(k), Rested(k), Stale(bucket[k])
    PROVE  KeyInv(k)'
<1> USE Sizes
<1>1. k \in Key
  BY DEF Key
<1>2. bucket'[k] = NewBucket /\ call' = call /\ spent' = spent
  BY <1>1 DEF EvictIdle
<1>3. /\ bucket[k].idle \in Nat /\ bucket[k].idle > Full + 3 * MaxCallTicks
      /\ spent[k] \in Nat
  BY <1>1, BucketFields DEF Stale
<1>4. spent[k] = 0
  BY <1>3 DEF Rested
<1>5. ASSUME NEW c \in Caller
      PROVE  ~Uses(c, k)
  <2>1. Uses(c, k) => call[c].age \in 0 .. MaxCallTicks
    BY CallFields DEF Uses
  <2> QED
    BY <1>3, <2>1 DEF Rested
<1>6. \A c \in Caller : ~Holds(c, k)' /\ ~Waits(c, k)'
  BY <1>2, <1>5 DEF Holds, Waits, Uses
<1>7. \A a, j : Young(k, a)' = {} /\ Due(k, a, j)' = {}
  BY <1>6 DEF Young, Due
<1>8. \A a, j : Weight(Young(k, a)') = 0 /\ Weight(Due(k, a, j)') = 0
  BY <1>7, WeightEmpty
<1>9. Queue(k)'
  BY <1>6 DEF Queue
<1>10. Levels(k)' /\ Dues(k)' /\ Charged(k)'
  BY <1>2, <1>4, <1>8 DEF Levels, Dues, Charged, NewBucket, Weight
<1> QED
  BY <1>9, <1>10 DEF KeyInv

LEMMA KeyStep ==
    ASSUME TypeOK, RateInv, [Next]_vars, NEW k \in Key
    PROVE  KeyInv(k)'
<1>0. KeyInv(k)
  BY DEF RateInv
<1>1. ASSUME NEW c \in Caller, NEW q \in Client, Lookup(c, q)
      PROVE  KeyInv(k)'
  <2>1. /\ bucket'[k].level = bucket[k].level /\ bucket'[k].ahead = bucket[k].ahead
        /\ spent' = spent
    BY <1>1, BucketFields DEF Lookup, TypeOK, Bucket
  <2>2. /\ ~Holds(c, k) /\ ~Holds(c, k)' /\ ~Waits(c, k) /\ ~Waits(c, k)'
        /\ \A d \in Caller : d # c => call'[d] = call[d]
    BY <1>1 DEF Lookup, TypeOK, Holds, Waits, NoCall
  <2>3. \A d \in Caller : d # c => /\ Holds(d, k)' <=> Holds(d, k)
                                   /\ Waits(d, k)' <=> Waits(d, k)
    BY <2>2 DEF Holds, Waits
  <2> QED
    BY <1>0, <2>1, <2>2, <2>3, KeyKept
<1>2. ASSUME NEW c \in Caller, Lock(c)
      PROVE  KeyInv(k)'
  <2>1. /\ ~Holds(c, k) /\ ~Holds(c, k)' /\ ~Waits(c, k) /\ ~Waits(c, k)'
        /\ \A d \in Caller : d # c => call'[d] = call[d]
        /\ bucket' = bucket /\ spent' = spent
    BY <1>2 DEF Lock, TypeOK, Holds, Waits, NoCall
  <2>2. \A d \in Caller : d # c => /\ Holds(d, k)' <=> Holds(d, k)
                                   /\ Waits(d, k)' <=> Waits(d, k)
    BY <2>1 DEF Holds, Waits
  <2> QED
    BY <1>0, <2>1, <2>2, KeyKept
<1>3. ASSUME NEW c \in Caller, Reserve(c) \/ Allow(c) \/ Cancel(c)
      PROVE  KeyInv(k)'
  <2>1. CASE call[c].key = k
    BY <1>0, <1>3, <2>1, ReserveKeepsKey, AllowKeepsKey, CancelKeepsKey
  <2>2. CASE call[c].key # k
    <3>1. /\ bucket'[k] = bucket[k] /\ spent'[k] = spent[k]
          /\ \A d \in Caller : d # c => call'[d] = call[d]
      BY <1>3, <2>2 DEF Reserve, Allow, Charge, Cancel, TypeOK
    <3>2. call'[c] = NoCall \/ call'[c].key = call[c].key
      BY <1>3 DEF Reserve, Allow, Cancel, TypeOK
    <3>3. ~Holds(c, k) /\ ~Holds(c, k)' /\ ~Waits(c, k) /\ ~Waits(c, k)'
      BY <2>2, <3>2 DEF Holds, Waits, NoCall
    <3>4. \A d \in Caller : d # c => /\ Holds(d, k)' <=> Holds(d, k)
                                     /\ Waits(d, k)' <=> Waits(d, k)
      BY <3>1 DEF Holds, Waits
    <3> QED
      BY <1>0, <3>1, <3>3, <3>4, KeyKept
  <2> QED
    BY <2>1, <2>2
<1>4. ASSUME NEW c \in Caller, Refuse(c)
      PROVE  KeyInv(k)'
  <2>1. /\ bucket' = bucket /\ spent' = spent
        /\ \A d \in Caller : d # c => call'[d] = call[d]
        /\ call[c].at = "reserved" /\ call[c].wait > 0
        /\ call'[c] = [call[c] EXCEPT !.at = "refused"]
        /\ call[c] \in Call
    BY <1>4 DEF Refuse, TypeOK
  <2>2. /\ call'[c].at = "refused" /\ call'[c].key = call[c].key
        /\ call'[c].age = call[c].age /\ call'[c].wait = call[c].wait
        /\ call[c].wait \in -1 .. MaxDebt
    BY <2>1 DEF Call, NoCall
  <2>3. /\ Holds(c, k)' <=> Holds(c, k)
        /\ Waits(c, k)' <=> Waits(c, k)
    BY <2>1, <2>2, Sizes DEF Holds, Waits
  <2>4. \A d \in Caller : d # c => /\ Holds(d, k)' <=> Holds(d, k)
                                   /\ Waits(d, k)' <=> Waits(d, k)
    BY <2>1 DEF Holds, Waits
  <2> QED
    BY <1>0, <2>1, <2>2, <2>3, <2>4, KeyKept
<1>5. CASE EvictIdle
  <2>1. CASE k \in Client /\ Stale(bucket[k])
    BY <1>0, <1>5, <2>1, EvictedKey DEF RateInv
  <2>2. CASE ~(k \in Client /\ Stale(bucket[k]))
    <3>1. bucket'[k] = bucket[k] /\ call' = call /\ spent' = spent
      BY <1>5, <2>2 DEF EvictIdle
    <3>2. \A d \in Caller : /\ Holds(d, k)' <=> Holds(d, k)
                            /\ Waits(d, k)' <=> Waits(d, k)
      BY <3>1 DEF Holds, Waits
    <3> QED
      BY <1>0, <3>1, <3>2, KeyKept
  <2> QED
    BY <2>1, <2>2
<1>6. CASE Tick
  BY <1>0, <1>6, TickKeepsKey
<1>7. CASE UNCHANGED vars
  <2>1. bucket' = bucket /\ call' = call /\ spent' = spent
    BY <1>7 DEF vars
  <2>2. \A d \in Caller : /\ Holds(d, k)' <=> Holds(d, k)
                          /\ Waits(d, k)' <=> Waits(d, k)
    BY <2>1 DEF Holds, Waits
  <2> QED
    BY <1>0, <2>1, <2>2, KeyKept
<1> QED
  BY <1>1, <1>2, <1>3, <1>4, <1>5, <1>6, <1>7 DEF Next, Step

LEMMA RestedStep ==
    ASSUME TypeOK, RateInv, [Next]_vars, NEW k \in Client
    PROVE  Rested(k)'
<1> USE Sizes
<1> DEFINE Allowance(c) ==
             (IF call[c].at = "found" THEN 0 ELSE MaxCallTicks) + call[c].age
<1>0. /\ k \in Key /\ Rested(k)
      /\ bucket[k] \in Bucket /\ bucket[k].idle \in 0 .. IdleTicks + 1
      /\ spent[k] \in Nat
  BY BucketFields DEF RateInv, Key
<1>1. spent[k] <= Full + MaxCallTicks
  <2>1. spent[k] + Weight(Due(k, MaxCallTicks, 0)) <= Full + MaxCallTicks + 0
    BY <1>0 DEF RateInv, KeyInv, Charged
  <2> QED
    BY <1>0, <2>1, DueCallers
<1>2. ASSUME NEW c \in Caller, NEW q \in Client, Lookup(c, q)
      PROVE  Rested(k)'
  <2>1. /\ call'[c] = [at |-> "found", key |-> q, age |-> 0]
        /\ \A d \in Caller : d # c => call'[d] = call[d]
        /\ spent' = spent /\ q \in Key
    BY <1>2 DEF Lookup, TypeOK, Key
  <2>2. CASE k = q
    <3>1. bucket'[k].idle = 0
      BY <1>0, <1>2, <2>2 DEF Lookup, TypeOK, Bucket
    <3>2. ASSUME NEW d \in Caller, Uses(d, k)'
          PROVE  Allowance(d)' \in Nat
      <4>1. CASE d = c
        BY <2>1, <4>1
      <4>2. CASE d # c
        BY <2>1, <3>2, <4>2, CallFields DEF Uses
      <4> QED
        BY <4>1, <4>2
    <3> QED
      BY <1>0, <1>1, <2>1, <3>1, <3>2 DEF Rested
  <2>3. CASE k # q
    <3>1. bucket'[k] = bucket[k]
      BY <1>0, <1>2, <2>3 DEF Lookup, TypeOK
    <3> QED
      BY <1>0, <2>1, <2>3, <3>1 DEF Rested, Uses
  <2> QED
    BY <2>2, <2>3
<1>3. ASSUME NEW c \in Caller, Lock(c)
      PROVE  Rested(k)'
  <2>1. /\ call'[c] = [at |-> "found", key |-> Stdio, age |-> 0]
        /\ \A d \in Caller : d # c => call'[d] = call[d]
        /\ bucket' = bucket /\ spent' = spent /\ k # Stdio
    BY <1>3, StdioIsNoClient DEF Lock, TypeOK
  <2> QED
    BY <1>0, <2>1 DEF Rested, Uses
<1>4. ASSUME NEW c \in Caller, Reserve(c)
      PROVE  Rested(k)'
  <2> DEFINE q == call[c].key
  <2>1. /\ call[c].at = "found" /\ q \in Key /\ call[c].age \in 0 .. MaxCallTicks
        /\ call'[c] = [at |-> "reserved", key |-> q, age |-> 0,
                       wait |-> Reserved(bucket[q]).ahead]
        /\ \A d \in Caller : d # c => call'[d] = call[d]
        /\ bucket' = [bucket EXCEPT ![q] = Reserved(bucket[q])]
        /\ spent' = spent
    BY <1>4, CallFields DEF Reserve, TypeOK
  <2>2. bucket'[k].idle = bucket[k].idle
    BY <1>0, <2>1, ReservedFields DEF TypeOK
  <2>3. Uses(c, k)' => bucket'[k].idle <= Allowance(c)'
    BY <1>0, <2>1, <2>2 DEF Rested, Uses
  <2> QED
    BY <1>0, <2>1, <2>2, <2>3 DEF Rested, Uses
<1>5. ASSUME NEW c \in Caller, Allow(c)
      PROVE  Rested(k)'
  <2>1. /\ call'[c] = NoCall /\ call[c].at = "reserved"
        /\ \A d \in Caller : d # c => call'[d] = call[d]
        /\ bucket' = bucket /\ spent' = [spent EXCEPT ![call[c].key] = @ + Cost]
        /\ call[c].age \in 0 .. MaxCallTicks
    BY <1>5, CallFields DEF Allow, Charge, TypeOK
  <2>2. CASE call[c].key # k
    BY <1>0, <2>1, <2>2 DEF Rested, Uses, NoCall, TypeOK
  <2>3. CASE call[c].key = k
    <3>1. spent'[k] <= Full + MaxCallTicks /\ spent'[k] \in Nat
      <4>1. KeyInv(k)' /\ TypeOK'
        BY <1>0, KeyStep, TypeStep
      <4>2. spent'[k] + Weight(Due(k, MaxCallTicks, 0))' <= Full + MaxCallTicks + 0
        BY <4>1 DEF KeyInv, Charged
      <4>3. Weight(Due(k, MaxCallTicks, 0))' \in Nat
        <5>1. Due(k, MaxCallTicks, 0)' \in SUBSET Caller
          BY DEF Due
        <5>2. Weight(Due(k, MaxCallTicks, 0)') \in Nat
          BY <5>1, WeightNat
        <5> QED
          BY <5>2 DEF Weight
      <4>4. spent'[k] \in Nat
        BY <1>0, <4>1 DEF TypeOK
      <4> QED
        BY <4>2, <4>3, <4>4
    <3>2. bucket[k].idle <= MaxCallTicks + call[c].age
      BY <1>0, <2>1, <2>3 DEF Rested, Uses
    <3>3. spent'[k] + bucket'[k].idle <= Full + 3 * MaxCallTicks
      BY <1>0, <2>1, <3>1, <3>2
    <3>4. \A d \in Caller : Uses(d, k)' => d # c /\ Uses(d, k)
      BY <2>1 DEF Uses, NoCall
    <3> QED
      BY <1>0, <2>1, <3>3, <3>4 DEF Rested
  <2> QED
    BY <2>2, <2>3
<1>6. ASSUME NEW c \in Caller, Refuse(c)
      PROVE  Rested(k)'
  <2>1. /\ bucket' = bucket /\ spent' = spent
        /\ \A d \in Caller : d # c => call'[d] = call[d]
        /\ call[c].at = "reserved"
        /\ call'[c] = [call[c] EXCEPT !.at = "refused"]
        /\ call[c] \in Call
    BY <1>6 DEF Refuse, TypeOK
  <2>2. /\ call'[c].at = "refused" /\ call'[c].key = call[c].key
        /\ call'[c].age = call[c].age
    BY <2>1 DEF Call, NoCall
  <2> QED
    BY <1>0, <2>1, <2>2 DEF Rested, Uses
<1>7. ASSUME NEW c \in Caller, Cancel(c)
      PROVE  Rested(k)'
  <2>1. /\ call'[c] = NoCall
        /\ \A d \in Caller : d # c => call'[d] = call[d]
        /\ bucket' = [bucket EXCEPT ![call[c].key] = Cancelled(@, call[c].wait)]
        /\ spent' = spent /\ call[c].wait \in -1 .. MaxDebt
    BY <1>7, CallFields DEF Cancel, TypeOK
  <2>2. bucket'[k].idle = bucket[k].idle
    <3>1. Cancelled(bucket[k], call[c].wait).idle = bucket[k].idle
      BY <1>0, <2>1, CancelledFields, CancelledNothing
    <3> QED
      BY <1>0, <2>1, <3>1 DEF TypeOK
  <2> QED
    BY <1>0, <2>1, <2>2 DEF Rested, Uses, NoCall
<1>8. CASE EvictIdle
  <2>1. call' = call /\ spent' = spent
    BY <1>8 DEF EvictIdle
  <2>2. CASE Stale(bucket[k])
    <3>1. bucket'[k] = NewBucket
      BY <1>0, <1>8, <2>2 DEF EvictIdle
    <3>2. bucket'[k].idle = bucket[k].idle
      BY <1>0, <2>2, <3>1 DEF NewBucket, Stale
    <3> QED
      BY <1>0, <2>1, <3>2 DEF Rested, Uses
  <2>3. CASE ~Stale(bucket[k])
    <3>1. bucket'[k] = bucket[k]
      BY <1>0, <1>8, <2>3 DEF EvictIdle
    <3> QED
      BY <1>0, <2>1, <3>1 DEF Rested, Uses
  <2> QED
    BY <2>2, <2>3
<1>9. CASE Tick
  <2>1. /\ bucket'[k].idle = Smaller(IdleTicks + 1, bucket[k].idle + 1)
        /\ spent'[k] = Larger(0, spent[k] - 1)
    BY <1>0, <1>9 DEF Tick, Refilled
  <2>2. bucket'[k].idle \in Nat /\ bucket'[k].idle <= bucket[k].idle + 1
    BY <1>0, <2>1 DEF Smaller
  <2>3. ASSUME NEW d \in Caller, Uses(d, k)'
        PROVE  bucket'[k].idle <= Allowance(d)'
    <3>1. /\ Uses(d, k) /\ call'[d].at = call[d].at
          /\ call[d].age \in Nat /\ call'[d].age = call[d].age + 1
      BY <1>0, <1>9, <2>3, TickedCalls
    <3>2. bucket[k].idle <= Allowance(d)
      BY <1>0, <3>1 DEF Rested
    <3> QED
      BY <1>0, <2>2, <3>1, <3>2
  <2>4. spent'[k] > 0 => spent'[k] + bucket'[k].idle <= Full + 3 * MaxCallTicks
    BY <1>0, <2>1, <2>2 DEF Rested, Larger
  <2> QED
    BY <2>3, <2>4 DEF Rested
<1>10. CASE UNCHANGED vars
  BY <1>0, <1>10 DEF vars, Rested, Uses
<1> QED
  BY <1>2, <1>3, <1>4, <1>5, <1>6, <1>7, <1>8, <1>9, <1>10 DEF Next, Step

\* However many calls a client makes at once, whichever of them are refused and
\* cancelled and whenever its entry is evicted, no period gives it more writes
\* than a full bucket, the refill, and the refill of one call's duration.
THEOREM RateIsBounded == Spec => []RateBound
<1> USE Sizes
<1>1. Init => TypeOK /\ RateInv
  <2>1. Init => TypeOK
    BY DEF Init, TypeOK, NewBucket, Bucket, Call
  <2>2. ASSUME Init, NEW k \in Key
        PROVE  KeyInv(k) /\ Rested(k)
    <3>1. \A c \in Caller : ~Uses(c, k) /\ ~Holds(c, k) /\ ~Waits(c, k)
      BY <2>2 DEF Init, Uses, Holds, Waits, NoCall
    <3>2. \A a, j : Young(k, a) = {} /\ Due(k, a, j) = {}
      BY <3>1 DEF Young, Due
    <3>3. \A a, j : Weight(Young(k, a)) = 0 /\ Weight(Due(k, a, j)) = 0
      BY <3>2, WeightEmpty
    <3>4. spent[k] = 0 /\ bucket[k].level = Full
      BY <2>2 DEF Init, NewBucket
    <3>5. Queue(k) /\ Rested(k)
      BY <3>1, <3>4 DEF Queue, Rested
    <3>6. Levels(k) /\ Dues(k) /\ Charged(k)
      BY <3>3, <3>4 DEF Levels, Dues, Charged
    <3> QED
      BY <3>5, <3>6 DEF KeyInv
  <2> QED
    BY <2>1, <2>2 DEF RateInv, Key
<1>2. TypeOK /\ RateInv /\ [Next]_vars => RateInv'
  <2> SUFFICES ASSUME TypeOK, RateInv, [Next]_vars
               PROVE  RateInv'
    OBVIOUS
  <2>1. \A k \in Key : KeyInv(k)'
    BY KeyStep
  <2>2. \A k \in Client : Rested(k)'
    BY RestedStep
  <2> QED
    BY <2>1, <2>2 DEF RateInv
<1>3. TypeOK /\ RateInv => RateBound
  <2> SUFFICES ASSUME TypeOK, RateInv, NEW k \in Key
               PROVE  spent[k] <= Full + MaxCallTicks
    BY DEF RateBound
  <2>1. spent[k] + Weight(Due(k, MaxCallTicks, 0)) <= Full + MaxCallTicks + 0
    BY DEF RateInv, KeyInv, Charged
  <2> QED
    BY <2>1, BucketFields, DueCallers
<1> QED
  BY <1>1, <1>2, <1>3, TypeStep, PTL DEF Spec
================================================================================
