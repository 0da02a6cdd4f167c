----------------------------- MODULE RateLimiter -----------------------------
(***************************************************************************)
(* The per-source rate limiter (internal/common/ratelimiter.go): a map     *)
(* from each source to its token bucket, a rate.Limiter of                 *)
(* golang.org/x/time/rate, and the requests that wait on it.  A request    *)
(* keeps the bucket it reserved from; when the map drops that bucket the   *)
(* reservation is detached, and giving it back has no effect on the map.   *)
(* One unit of time is the time to refill one token; getLimiter's maxDelay *)
(* is between half a unit and a few of them, whatever the configured rate. *)
(***************************************************************************)
EXTENDS GoMaps, FiniteSets

CONSTANTS
    Sources,    \* IP addresses
    Requests,   \* goroutines that call Wait
    burst, maxDelay, softLimit, hardLimit,
    MaxTime,    \* bound of the model on the clock
    MaxDebt     \* bound of the model on the tokens a bucket may owe: refusals
                \* in another order than the reservations never give all back

\* RateLimiterConfig.validate
ASSUME RateLimiterAssumption ==
    /\ IsFiniteSet(Sources)
    /\ burst \in Nat \ {0}
    /\ maxDelay \in Nat
    /\ softLimit \in Nat \ {0}
    /\ hardLimit \in Nat /\ hardLimit > softLimit
    /\ MaxTime \in Nat /\ MaxDebt \in Nat

VARIABLES
    buckets,    \* source -> its bucket
    calls,      \* request -> its progress in Wait
    now

vars == <<buckets, calls, now>>

Idle == [pc |-> "idle"]

Init ==
    /\ buckets = EmptyMap
    /\ calls = [r \in Requests |-> Idle]
    /\ now = 0

-------------------------------------------------------------------------------
newLimiterOverfull == [tokens |-> burst + 1, lastEvent |-> now, lastActivity |-> now]
newLimiter == [tokens |-> burst, lastEvent |-> now, lastActivity |-> now]

\* rate.Limiter.Reserve takes a token, possibly one of the future: lastEvent
\* is then the time from which the request may go.
Reserve(bucket) ==
    LET left == bucket.tokens - 1
    IN [tokens |-> left,
        lastEvent |-> IF left < 0 THEN now - left ELSE now,
        lastActivity |-> now]

\* rate.Reservation.Cancel gives the token back if no later one was taken.
Cancel(bucket, time) ==
    IF bucket.lastEvent = time
    THEN [bucket EXCEPT !.tokens = @ + 1,
                        !.lastEvent = IF time - 1 >= now THEN time - 1 ELSE time]
    ELSE bucket

reservation(source, bucket) ==
    [pc |-> "reserved", source |-> source, time |-> bucket.lastEvent, attached |-> TRUE]

\* Wait with the read lock: sourceBuckets.reserve
reserve(r, source) ==
    /\ calls[r] = Idle
    /\ source \in DOMAIN buckets
    /\ buckets[source].tokens > - MaxDebt
    /\ LET bucket == Reserve(buckets[source])
       IN /\ buckets' = MapPut(buckets, source, bucket)
          /\ calls' = [calls EXCEPT ![r] = reservation(source, bucket)]
    /\ UNCHANGED now

noBucket(r, source) ==
    /\ calls[r] = Idle
    /\ source \notin DOMAIN buckets
    /\ calls' = [calls EXCEPT ![r] = [pc |-> "noBucket", source |-> source]]
    /\ UNCHANGED <<buckets, now>>

\* sourceBuckets.cleanup: the sources that remain, the least recently active
\* ones being removed; equal times sort in any order.
mostRecent(n) ==
    {K \in SUBSET DOMAIN buckets :
       /\ Cardinality(K) = n
       /\ \A k \in K, x \in DOMAIN buckets \ K :
            buckets[x].lastActivity <= buckets[k].lastActivity}

cleanupLate ==
    IF Cardinality(DOMAIN buckets) > hardLimit THEN mostRecent(softLimit) ELSE {DOMAIN buckets}
cleanup ==
    IF Cardinality(DOMAIN buckets) >= hardLimit THEN mostRecent(softLimit) ELSE {DOMAIN buckets}

\* Wait with the write lock: sourceBuckets.addAndReserve, which stores the new
\* bucket whether or not another request has stored one in the meantime.
addAndReserve(r) ==
    /\ calls[r].pc = "noBucket"
    /\ \E kept \in cleanup :
         LET source == calls[r].source
             bucket == Reserve(newLimiter)
             dropped(q) == /\ calls[q].pc = "reserved"
                           /\ calls[q].source = source \/ calls[q].source \notin kept
         IN /\ buckets' = MapPut([s \in kept |-> buckets[s]], source, bucket)
            /\ calls' = [q \in Requests |->
                 IF q = r THEN reservation(source, bucket)
                 ELSE IF dropped(q) THEN [calls[q] EXCEPT !.attached = FALSE]
                 ELSE calls[q]]
    /\ UNCHANGED now

-------------------------------------------------------------------------------
tooLong(time) == time - now > maxDelay

\* The rest of Wait: the request is refused, and its token given back, when it
\* would have to sleep for too long.
refused(r) ==
    /\ calls[r].pc = "reserved"
    /\ tooLong(calls[r].time)
    /\ LET source == calls[r].source
       IN buckets' = IF calls[r].attached
                     THEN MapPut(buckets, source, Cancel(buckets[source], calls[r].time))
                     ELSE buckets
    /\ calls' = [calls EXCEPT ![r] = Idle]
    /\ UNCHANGED now

grantedCancelling(r) ==
    /\ calls[r].pc = "reserved"
    /\ ~ tooLong(calls[r].time)
    /\ LET source == calls[r].source
       IN buckets' = IF calls[r].attached
                     THEN MapPut(buckets, source, Cancel(buckets[source], calls[r].time))
                     ELSE buckets
    /\ calls' = [calls EXCEPT ![r] = Idle]
    /\ UNCHANGED now
granted(r) ==
    /\ calls[r].pc = "reserved"
    /\ ~ tooLong(calls[r].time)
    /\ calls' = [calls EXCEPT ![r] = Idle]
    /\ UNCHANGED <<buckets, now>>

\* Every bucket gains a token.
refill(bucket) == [bucket EXCEPT !.tokens = IF @ < burst THEN @ + 1 ELSE @]

tick ==
    /\ now < MaxTime
    /\ now' = now + 1
    /\ buckets' = [s \in DOMAIN buckets |-> refill(buckets[s])]
    /\ UNCHANGED calls

Next ==
    \/ \E r \in Requests, source \in Sources : reserve(r, source) \/ noBucket(r, source)
    \/ \E r \in Requests : addAndReserve(r) \/ refused(r) \/ granted(r)
    \/ tick

Spec == Init /\ [][Next]_vars

-------------------------------------------------------------------------------
Bucket == [tokens : {n \in Int : n <= burst}, lastEvent : Nat, lastActivity : 0 .. MaxTime]

Call ==
    {Idle} \cup [pc : {"noBucket"}, source : Sources]
           \cup [pc : {"reserved"}, source : Sources, time : Nat, attached : BOOLEAN]

\* The map and the requests have their types, an attached reservation has its
\* bucket in the map, and no bucket is fuller than the burst it was made for.
TypeOK ==
    /\ DOMAIN buckets \subseteq Sources
    /\ \A s \in DOMAIN buckets : buckets[s] \in Bucket
    /\ calls \in [Requests -> Call]
    /\ \A r \in Requests :
         calls[r].pc = "reserved" /\ calls[r].attached => calls[r].source \in DOMAIN buckets
    /\ now \in 0 .. MaxTime

\* cleanup keeps the buckets within entries_hard_limit, also while requests that
\* saw their source missing are still to add it.
BucketsWithinHardLimit == Cardinality(DOMAIN buckets) <= hardLimit
===============================================================================
