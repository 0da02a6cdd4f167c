-------------------------- MODULE RateLimiter_proofs --------------------------
(***************************************************************************)
(* The number of buckets the rate limiter keeps, for every configuration,  *)
(* every number of sources and every number of concurrent requests.  The   *)
(* bound alone is not inductive: giving a token back writes to the bucket  *)
(* of the source, so the proof needs that an attached reservation has its  *)
(* bucket in the map.                                                      *)
(***************************************************************************)
EXTENDS RateLimiter, FiniteSetTheorems, TLAPS

Waiting ==
    \A r \in Requests :
      /\ calls[r].pc = "noBucket" => calls[r].source \in Sources
      /\ calls[r].pc = "reserved" /\ calls[r].attached => calls[r].source \in DOMAIN buckets

IInv ==
    /\ DOMAIN buckets \subseteq Sources
    /\ calls = [r \in Requests |-> calls[r]]
    /\ Waiting
    /\ BucketsWithinHardLimit

\* The limits RateLimiterConfig.validate accepts are naturals, soft below hard.
LEMMA Limits ==
    /\ softLimit \in Nat /\ hardLimit \in Nat /\ softLimit + 1 <= hardLimit
    /\ 1 <= hardLimit
  BY RateLimiterAssumption

\* After cleanup there is room for one more bucket.
LEMMA RoomAfterCleanup ==
    ASSUME DOMAIN buckets \subseteq Sources, NEW kept \in cleanup
    PROVE  /\ kept \subseteq DOMAIN buckets
           /\ IsFiniteSet(kept)
           /\ Cardinality(kept) \in Nat
           /\ Cardinality(kept) + 1 <= hardLimit
  <1>1. IsFiniteSet(DOMAIN buckets)
    BY FS_Subset, RateLimiterAssumption
  <1>2. Cardinality(DOMAIN buckets) \in Nat
    BY <1>1, FS_CardinalityType
  <1>3. kept \subseteq DOMAIN buckets
    BY DEF cleanup, mostRecent
  <1>4. IsFiniteSet(kept) /\ Cardinality(kept) \in Nat
    BY <1>1, <1>3, FS_Subset, FS_CardinalityType
  <1>5. CASE Cardinality(DOMAIN buckets) >= hardLimit
    <2>1. Cardinality(kept) = softLimit
      BY <1>5 DEF cleanup, mostRecent
    <2>. QED  BY <1>3, <1>4, <2>1, Limits
  <1>6. CASE ~ (Cardinality(DOMAIN buckets) >= hardLimit)
    <2>1. kept = DOMAIN buckets
      BY <1>6 DEF cleanup
    <2>. QED  BY <1>2, <1>3, <1>4, <1>6, <2>1, Limits
  <1>. QED  BY <1>5, <1>6

\* Initially no source has a bucket and no request is under way.
LEMMA InitIInv == Init => IInv
  <1>. SUFFICES ASSUME Init PROVE IInv
    OBVIOUS
  <1>1. DOMAIN buckets = {}
    BY DEF Init, EmptyMap
  <1>2. Cardinality(DOMAIN buckets) = 0
    BY <1>1, FS_EmptySet
  <1>. QED  BY <1>1, <1>2, Limits DEF Init, IInv, Waiting, Idle, BucketsWithinHardLimit

\* Wait on a source whose bucket is there adds no bucket.
LEMMA ReserveInv ==
    ASSUME IInv, NEW r \in Requests, NEW source \in Sources, reserve(r, source)
    PROVE  IInv'
  <1>1. DOMAIN buckets' = DOMAIN buckets
    BY DEF reserve, MapPut
  <1>2. BucketsWithinHardLimit'
    BY <1>1 DEF IInv, BucketsWithinHardLimit
  <1>3. Waiting'
    BY <1>1 DEF IInv, Waiting, reserve, reservation
  <1>. QED  BY <1>1, <1>2, <1>3 DEF IInv, reserve

\* Adding the bucket of a source first makes room for it.
LEMMA AddInv ==
    ASSUME IInv, NEW r \in Requests, addAndReserve(r)
    PROVE  IInv'
  <1>. DEFINE source == calls[r].source
  <1>1. PICK kept \in cleanup :
          /\ DOMAIN buckets' = kept \cup {source}
          /\ calls' = [q \in Requests |->
                IF q = r THEN reservation(source, Reserve(newLimiter))
                ELSE IF /\ calls[q].pc = "reserved"
                        /\ calls[q].source = source \/ calls[q].source \notin kept
                THEN [calls[q] EXCEPT !.attached = FALSE]
                ELSE calls[q]]
    BY DEF addAndReserve, MapPut
  <1>2. /\ kept \subseteq DOMAIN buckets
        /\ IsFiniteSet(kept)
        /\ Cardinality(kept) \in Nat
        /\ Cardinality(kept) + 1 <= hardLimit
    BY RoomAfterCleanup DEF IInv
  <1>3. source \in Sources
    BY DEF IInv, Waiting, addAndReserve
  <1>4. DOMAIN buckets' \subseteq Sources
    BY <1>1, <1>2, <1>3 DEF IInv
  <1>5. Cardinality(DOMAIN buckets') <= hardLimit
    <2>1. \/ Cardinality(kept \cup {source}) = Cardinality(kept)
          \/ Cardinality(kept \cup {source}) = Cardinality(kept) + 1
      <3>. HIDE DEF source
      <3>. QED  BY <1>2, FS_AddElement
    <2>. QED  BY <1>1, <1>2, <2>1, Limits
  <1>6. Waiting'
    <2>. SUFFICES ASSUME NEW q \in Requests
         PROVE /\ calls'[q].pc = "noBucket" => calls'[q].source \in Sources
               /\ calls'[q].pc = "reserved" /\ calls'[q].attached
                    => calls'[q].source \in DOMAIN buckets'
      BY DEF Waiting
    <2>1. CASE q = r
      BY <1>1, <2>1 DEF reservation
    <2>2. CASE q # r /\ calls'[q] = calls[q]
      BY <1>1, <2>2 DEF IInv, Waiting
    <2>3. CASE /\ q # r
               /\ calls[q].pc = "reserved"
               /\ calls[q].source = source \/ calls[q].source \notin kept
      <3>1. calls'[q] = [calls[q] EXCEPT !.attached = FALSE]
        BY <1>1, <2>3
      <3>. QED  BY <3>1, <2>3 
    <2>. QED  BY <1>1, <2>1, <2>2, <2>3
  <1>. QED  BY <1>1, <1>4, <1>5, <1>6 DEF IInv, BucketsWithinHardLimit

\* A refusal gives its token back to a bucket that is in the map, or to none.
LEMMA RefusedInv ==
    ASSUME IInv, NEW r \in Requests, refused(r)
    PROVE  IInv'
  <1>1. DOMAIN buckets' = DOMAIN buckets
    BY DEF IInv, Waiting, refused, MapPut
  <1>2. BucketsWithinHardLimit'
    BY <1>1 DEF IInv, BucketsWithinHardLimit
  <1>3. Waiting'
    BY <1>1 DEF IInv, Waiting, refused, Idle
  <1>. QED  BY <1>1, <1>2, <1>3 DEF IInv, refused

\* Every step of a request and of the clock keeps the bound.
LEMMA NextIInv == IInv /\ [Next]_vars => IInv'
  <1>. SUFFICES ASSUME IInv, [Next]_vars PROVE IInv'
    OBVIOUS
  <1>1. CASE UNCHANGED vars
    BY <1>1 DEF IInv, Waiting, BucketsWithinHardLimit, vars
  <1>2. ASSUME NEW r \in Requests, NEW source \in Sources, reserve(r, source) PROVE IInv'
    BY <1>2, ReserveInv
  <1>3. ASSUME NEW r \in Requests, NEW source \in Sources, noBucket(r, source) PROVE IInv'
    BY <1>3 DEF IInv, Waiting, BucketsWithinHardLimit, noBucket
  <1>4. ASSUME NEW r \in Requests, addAndReserve(r) PROVE IInv'
    BY <1>4, AddInv
  <1>5. ASSUME NEW r \in Requests, refused(r) PROVE IInv'
    BY <1>5, RefusedInv
  <1>6. ASSUME NEW r \in Requests, granted(r) PROVE IInv'
    BY <1>6 DEF IInv, Waiting, BucketsWithinHardLimit, granted, Idle
  <1>7. CASE tick
    BY <1>7 DEF IInv, Waiting, BucketsWithinHardLimit, tick
  <1>. QED  BY <1>1, <1>2, <1>3, <1>4, <1>5, <1>6, <1>7 DEF Next

\* The rate limiter never keeps more buckets than entries_hard_limit: cleanup
\* runs under the same lock as the insertion that follows it.
THEOREM BucketsBounded == Spec => []BucketsWithinHardLimit
  <1>1. IInv => BucketsWithinHardLimit
    BY DEF IInv
  <1>. QED  BY InitIInv, NextIInv, <1>1, PTL DEF Spec
===============================================================================
