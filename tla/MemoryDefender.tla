---------------------------- MODULE MemoryDefender ----------------------------
(***************************************************************************)
(* The in-memory defender (internal/common/defendermem.go): it keeps a     *)
(* score for the hosts that misbehave and bans a host whose score reaches  *)
(* the threshold.  All the operations hold the lock of the defender for    *)
(* their whole effect except IsBanned, which gives up the read lock before *)
(* it takes the write lock.  A host in the allow list of the defender has  *)
(* no events and one in its block list is refused without touching the     *)
(* state, so the lists do not appear here.                                 *)
(***************************************************************************)
EXTENDS GoMaps, FiniteSets, FiniteSetsExt

CONSTANTS
    IPs,
    Callers,            \* goroutines that call IsBanned for a new client
    Scores,             \* the configured scores of the events
    Threshold, ObservationTime, BanTime, BanTimeIncrement,
    EntriesSoftLimit, EntriesHardLimit,
    MaxTime             \* bound of the model on the clock and on ban times

\* DefenderConfig.validate, and that goroutines and addresses are finitely many
ASSUME DefenderAssumption ==
    /\ IsFiniteSet(IPs) /\ IsFiniteSet(Callers)
    /\ Threshold \in Nat /\ Scores \subseteq 0 .. (Threshold - 1)
    /\ ObservationTime \in Nat \ {0} /\ BanTime \in Nat \ {0}
    /\ BanTimeIncrement \in Nat \ {0}
    /\ EntriesSoftLimit \in Nat \ {0}
    /\ EntriesHardLimit \in Nat /\ EntriesHardLimit > EntriesSoftLimit
    /\ MaxTime \in Nat

VARIABLES
    hosts,      \* IP -> its events, oldest first
    banned,     \* IP -> the end of its ban
    pending,    \* caller -> the ban IsBanned has read and is going to extend
    now

vars == <<hosts, banned, pending, now>>

NoBan == <<>>
hostEvent == [time : Nat, score : Scores]

Init ==
    /\ hosts = EmptyMap
    /\ banned = EmptyMap
    /\ pending = [c \in Callers |-> NoBan]
    /\ now = 0

\* time.Time.After
isActive(banTime) == banTime > now

observedInverted(events) == SelectSeq(events, LAMBDA e : e.time + ObservationTime < now)
observed(events) == SelectSeq(events, LAMBDA e : e.time + ObservationTime > now)
TotalScore(events) == MapThenSumSet(LAMBDA i : events[i].score, DOMAIN events)
GetScore(ip) == IF ip \in DOMAIN hosts THEN TotalScore(observed(hosts[ip])) ELSE 0

-------------------------------------------------------------------------------
\* The first n keys of a map when they are sorted by the value f gives them;
\* equal values come in any order.  None for n <= 0.
firstKeys(f, n) ==
    {R \in SUBSET DOMAIN f :
        /\ Cardinality(R) = IF n > 0 THEN n ELSE 0
        /\ \A r \in R, k \in DOMAIN f \ R : f[r] <= f[k]}

lastEvent(m) ==
    [k \in DOMAIN m |-> IF m[k] = <<>> THEN 0 ELSE m[k][Len(m[k])].time]

\* cleanupHosts, for the hosts m that AddEvent has just added to
cleanupHostsLate(m) ==
    IF Cardinality(DOMAIN m) <= EntriesHardLimit + 1 THEN hosts' = m
    ELSE \E R \in firstKeys(lastEvent(m), Cardinality(DOMAIN m) - EntriesSoftLimit) :
           hosts' = [k \in DOMAIN m \ R |-> m[k]]
cleanupHosts(m) ==
    IF Cardinality(DOMAIN m) <= EntriesHardLimit THEN hosts' = m
    ELSE \E R \in firstKeys(lastEvent(m), Cardinality(DOMAIN m) - EntriesSoftLimit) :
           hosts' = [k \in DOMAIN m \ R |-> m[k]]

\* cleanupBanned: the expired bans go first, and are still in the list from
\* which the ones to remove are then taken.
cleanupBannedExpired(m) ==
    banned' = [k \in {x \in DOMAIN m : ~ (m[x] < now)} |-> m[k]]
cleanupBanned(m) ==
    IF Cardinality(DOMAIN m) <= EntriesHardLimit THEN banned' = m
    ELSE LET unexpired == {k \in DOMAIN m : ~ (m[k] < now)}
         IN \E R \in firstKeys(m, Cardinality(unexpired) - EntriesSoftLimit) :
              banned' = [k \in unexpired \ R |-> m[k]]

-------------------------------------------------------------------------------
overThreshold(score) == score > Threshold
reachesThreshold(score) == score >= Threshold

\* AddEvent: events of a banned host are ignored, an expired ban is forgotten.
AddEvent(ip, score) ==
    /\ ~ (ip \in DOMAIN banned /\ isActive(banned[ip]))
    /\ LET event == [time |-> now, score |-> score]
           events == observed(Append(hosts[ip], event))
           unbanned == MapDelete(banned, ip)
       IN \/ /\ ip \in DOMAIN hosts
             /\ reachesThreshold(TotalScore(events))
             /\ cleanupBanned(MapPut(unbanned, ip, now + BanTime))
             /\ hosts' = MapDelete(hosts, ip)
          \/ /\ ip \in DOMAIN hosts
             /\ ~ reachesThreshold(TotalScore(events))
             /\ hosts' = MapPut(hosts, ip, events)
             /\ banned' = unbanned
          \/ /\ ip \notin DOMAIN hosts
             /\ cleanupHosts(MapPut(hosts, ip, <<event>>))
             /\ banned' = unbanned
    /\ UNCHANGED <<pending, now>>

\* DeleteHost, an administrator's request
DeleteHost(ip) ==
    /\ \/ /\ ip \in DOMAIN banned
          /\ banned' = MapDelete(banned, ip)
          /\ hosts' = hosts
       \/ /\ ip \in DOMAIN hosts \ DOMAIN banned
          /\ hosts' = MapDelete(hosts, ip)
          /\ banned' = banned
    /\ UNCHANGED <<pending, now>>

\* IsBanned, with the read lock...
IsBanned(c, ip) ==
    /\ pending[c] = NoBan
    /\ ip \in DOMAIN banned
    /\ isActive(banned[ip])
    /\ banned[ip] < MaxTime
    /\ pending' = [pending EXCEPT ![c] = <<ip, banned[ip]>>]
    /\ UNCHANGED <<hosts, banned, now>>

increment ==
    LET percent == (BanTime * BanTimeIncrement) \div 100
    IN IF percent = 0 THEN 1 ELSE percent

\* ... and with the write lock: the ban time read before is what is extended.
extendBan(c) ==
    /\ pending[c] # NoBan
    /\ banned' = MapPut(banned, pending[c][1], pending[c][2] + increment)
    /\ pending' = [pending EXCEPT ![c] = NoBan]
    /\ UNCHANGED <<hosts, now>>

tick ==
    /\ now < MaxTime
    /\ now' = now + 1
    /\ UNCHANGED <<hosts, banned, pending>>

Next ==
    \/ \E ip \in IPs, score \in Scores : AddEvent(ip, score)
    \/ \E ip \in IPs : DeleteHost(ip)
    \/ \E c \in Callers, ip \in IPs : IsBanned(c, ip)
    \/ \E c \in Callers : extendBan(c)
    \/ tick

Spec == Init /\ [][Next]_vars

-------------------------------------------------------------------------------
\* The lists have their types, and a host is listed only with an event that is
\* still in the observation time of its last one.
TypeOK ==
    /\ DOMAIN hosts \subseteq IPs
    /\ \A ip \in DOMAIN hosts : hosts[ip] \in Seq(hostEvent) \ {<<>>}
    /\ DOMAIN banned \subseteq IPs
    /\ \A ip \in DOMAIN banned : banned[ip] \in Nat
    /\ \A c \in Callers : pending[c] = NoBan \/ pending[c] \in IPs \X Nat
    /\ now \in 0 .. MaxTime

\* cleanupHosts keeps the hosts with a score within entries_hard_limit.
HostsWithinHardLimit == Cardinality(DOMAIN hosts) <= EntriesHardLimit

maxBans ==
    LET n == Cardinality(Callers)
    IN IF EntriesSoftLimit + n > EntriesHardLimit THEN EntriesSoftLimit + 2 * n
                                                  ELSE EntriesHardLimit + n

\* IsBanned may write back bans that were removed while it held no lock, and
\* cleanupBanned spares a ban for each expired one, so the bans may exceed
\* entries_hard_limit; but, whatever happens in between, no further than the
\* number of clients that are connecting allows.
BannedNearHardLimit == Cardinality(DOMAIN banned) <= maxBans

\* A host that is tracked and not banned has a score under the threshold in the
\* observation time: whatever events expired, were pruned or were evicted,
\* AddEvent bans with the event that brings the score there.
TrackedBelowThreshold == \A ip \in IPs : GetScore(ip) < Threshold
===============================================================================
