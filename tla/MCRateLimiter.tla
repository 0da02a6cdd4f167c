---------------------------- MODULE MCRateLimiter ----------------------------
(***************************************************************************)
(* The rate limiter with a history variable: through counts, for the       *)
(* present bucket of each source and each instant, the requests whose      *)
(* sleep ends at that instant.                                             *)
(***************************************************************************)
EXTENDS RateLimiter, TLC

CONSTANTS s1, s2, s3, r1, r2

VARIABLE through

MC_Sources == {s1, s2, s3}
MC_Requests == {r1, r2}
Symmetry == Permutations(MC_Sources) \cup Permutations(MC_Requests)

Instants == 0 .. (MaxTime + maxDelay)
noneYet == [t \in Instants |-> 0]

HInit == Init /\ through = [s \in Sources |-> noneYet]

\* The buckets a step replaces or drops take their counts with them.
forget(kept) == [s \in Sources |-> IF s \in kept THEN through[s] ELSE noneYet]

HNext ==
    \/ /\ \/ \E r \in Requests, source \in Sources : reserve(r, source) \/ noBucket(r, source)
          \/ \E r \in Requests : refused(r)
          \/ tick
       /\ UNCHANGED through
    \/ \E r \in Requests :
         /\ addAndReserve(r)
         /\ through' = forget(DOMAIN buckets' \ {calls[r].source})
    \/ \E r \in Requests :
         /\ granted(r)
         /\ through' = IF calls[r].attached
                       THEN [through EXCEPT ![calls[r].source][calls[r].time] = @ + 1]
                       ELSE through

HSpec == HInit /\ [][HNext]_<<vars, through>>

\* One bucket lets at most burst requests through in an instant, in whatever
\* order the concurrent calls of Wait reserve, cancel and sleep.
BucketBurst == \A s \in Sources, t \in Instants : through[s][t] <= burst
===============================================================================
