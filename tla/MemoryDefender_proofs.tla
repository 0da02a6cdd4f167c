------------------------- MODULE MemoryDefender_proofs -------------------------
(***************************************************************************)
(* The memory bounds of the in-memory defender, for any number of hosts    *)
(* and of connecting clients and for any valid configuration.  The bans    *)
(* alone are not bounded inductively, because IsBanned may write back a    *)
(* ban that was removed: what never exceeds the bound is the set of the    *)
(* bans together with the ones IsBanned is about to write.                 *)
(***************************************************************************)
EXTENDS MemoryDefender, FiniteSetTheorems, TLAPS

Extending == {c \in Callers : pending[c] # NoBan}
ToWrite == {pending[c][1] : c \in Extending}

IInv ==
    /\ DOMAIN hosts \subseteq IPs
    /\ Cardinality(DOMAIN hosts) <= EntriesHardLimit
    /\ DOMAIN banned \subseteq IPs
    /\ pending \in [Callers -> {NoBan} \cup (IPs \X Int)]
    /\ \A ip \in DOMAIN banned : banned[ip] \in Int
    /\ now \in Int
    /\ Cardinality(DOMAIN banned \cup ToWrite) <= maxBans

\* There are no more bans to write than callers.
LEMMA ToWriteBound ==
    ASSUME pending \in [Callers -> {NoBan} \cup (IPs \X Int)]
    PROVE  /\ ToWrite \subseteq IPs
           /\ IsFiniteSet(ToWrite)
           /\ Cardinality(ToWrite) <= Cardinality(Callers)
<1>1. \A c \in Extending : pending[c] \in IPs \X Int
  BY DEF Extending
<1>2. ToWrite \subseteq IPs
  BY <1>1 DEF ToWrite
<1>3. IsFiniteSet(Extending) /\ Cardinality(Extending) <= Cardinality(Callers)
  BY DefenderAssumption, FS_Subset DEF Extending
<1>5. IsFiniteSet(ToWrite) /\ Cardinality(ToWrite) <= Cardinality(Extending)
  <2> DEFINE f == [c \in Extending |-> pending[c][1]]
  <2>1. f \in Surjection(Extending, ToWrite)
    BY DEF Surjection, ToWrite
  <2> HIDE DEF f
  <2> QED
    BY <1>3, <2>1, FS_Surjection
<1>6. /\ Cardinality(ToWrite) \in Nat
      /\ Cardinality(Extending) \in Nat
      /\ Cardinality(Callers) \in Nat
  BY <1>3, <1>5, DefenderAssumption, FS_CardinalityType
<1> QED
  BY <1>2, <1>3, <1>5, <1>6

\* Removing the first keys of a map that is over the hard limit leaves at most
\* as many as the soft limit.
LEMMA FirstKeysRemoved ==
    ASSUME NEW D, IsFiniteSet(D), Cardinality(D) > EntriesHardLimit,
           NEW R \in SUBSET D, Cardinality(R) = Cardinality(D) - EntriesSoftLimit
    PROVE  Cardinality(D \ R) <= EntriesHardLimit
<1>1. D \cap R = R
  OBVIOUS
<1>2. Cardinality(D) \in Nat /\ Cardinality(R) \in Int
  BY FS_CardinalityType, DefenderAssumption
<1>3. Cardinality(D \ R) = Cardinality(D) - Cardinality(R)
  BY <1>1, FS_Difference
<1> QED
  BY <1>2, <1>3, DefenderAssumption

\* cleanupHosts leaves hosts within the hard limit, among those it was given.
LEMMA HostsCleaned ==
    ASSUME NEW m, DOMAIN m \subseteq IPs, cleanupHosts(m)
    PROVE  /\ DOMAIN hosts' \subseteq IPs
           /\ Cardinality(DOMAIN hosts') <= EntriesHardLimit
<1>1. CASE Cardinality(DOMAIN m) <= EntriesHardLimit
  BY <1>1 DEF cleanupHosts
<1>2. CASE ~ (Cardinality(DOMAIN m) <= EntriesHardLimit)
  <2>1. IsFiniteSet(DOMAIN m) /\ Cardinality(DOMAIN m) \in Nat
    BY DefenderAssumption, FS_Subset, FS_CardinalityType
  <2>2. PICK R \in firstKeys(lastEvent(m), Cardinality(DOMAIN m) - EntriesSoftLimit) :
               hosts' = [k \in DOMAIN m \ R |-> m[k]]
    BY <1>2 DEF cleanupHosts
  <2>3. DOMAIN lastEvent(m) = DOMAIN m
    BY DEF lastEvent
  <2>4. Cardinality(DOMAIN m) > EntriesHardLimit /\ Cardinality(DOMAIN m) - EntriesSoftLimit > 0
    BY <1>2, <2>1, DefenderAssumption
  <2>5. R \in SUBSET DOMAIN m /\ Cardinality(R) = Cardinality(DOMAIN m) - EntriesSoftLimit
    BY <2>2, <2>3, <2>4 DEF firstKeys
  <2>6. DOMAIN hosts' = DOMAIN m \ R
    BY <2>2
  <2> QED
    BY <2>1, <2>4, <2>5, <2>6, FirstKeysRemoved
<1> QED
  BY <1>1, <1>2

\* cleanupBanned removes the expired bans and, of all the bans it was given, as
\* many as there are unexpired ones over the soft limit; so at least half of
\* what is over the soft limit goes.
LEMMA BannedCleaned ==
    ASSUME NEW m, DOMAIN m \subseteq IPs, cleanupBanned(m)
    PROVE  /\ DOMAIN banned' \subseteq DOMAIN m
           /\ \A k \in DOMAIN banned' : banned'[k] = m[k]
           /\ Cardinality(DOMAIN m) > EntriesHardLimit
                => 2 * Cardinality(DOMAIN m \ DOMAIN banned')
                     >= Cardinality(DOMAIN m) - EntriesSoftLimit
<1> DEFINE D == DOMAIN m
           unexpired == {k \in D : ~ (m[k] < now)}
           n == Cardinality(unexpired) - EntriesSoftLimit
<1>1. CASE Cardinality(D) <= EntriesHardLimit
  <2>1. banned' = m
    BY <1>1 DEF cleanupBanned
  <2>2. Cardinality(D) \in Nat
    BY DefenderAssumption, FS_Subset, FS_CardinalityType
  <2> QED
    BY <1>1, <2>1, <2>2, DefenderAssumption
<1>2. CASE ~ (Cardinality(D) <= EntriesHardLimit)
  <2>1. PICK R \in firstKeys(m, n) : banned' = [k \in unexpired \ R |-> m[k]]
    BY <1>2 DEF cleanupBanned
  <2>2. R \subseteq D /\ Cardinality(R) = IF n > 0 THEN n ELSE 0
    BY <2>1 DEF firstKeys
  <2>3. DOMAIN banned' = unexpired \ R
    BY <2>1
  <2> DEFINE X == D \ DOMAIN banned'
  <2>4. IsFiniteSet(D) /\ IsFiniteSet(X) /\ IsFiniteSet(unexpired) /\ IsFiniteSet(D \ unexpired)
    BY DefenderAssumption, FS_Subset
  <2>5. R \subseteq X /\ D \ unexpired \subseteq X /\ D \cap unexpired = unexpired
    BY <2>2, <2>3
  <2> HIDE DEF D, unexpired, X, n
  <2>6. Cardinality(R) <= Cardinality(X) /\ Cardinality(D \ unexpired) <= Cardinality(X)
    BY <2>4, <2>5, FS_Subset
  <2>7. Cardinality(D \ unexpired) = Cardinality(D) - Cardinality(unexpired)
    BY <2>4, <2>5, FS_Difference
  <2>8. /\ Cardinality(D) \in Nat
        /\ Cardinality(X) \in Nat
        /\ Cardinality(unexpired) \in Nat
    BY <2>4, FS_CardinalityType
  <2>9. 2 * Cardinality(X) >= Cardinality(D) - EntriesSoftLimit
    BY <2>2, <2>6, <2>7, <2>8, DefenderAssumption DEF n
  <2> QED
    BY <2>1, <2>3, <2>9 DEF D, unexpired, X
<1> QED
  BY <1>1, <1>2

\* AddEvent that bans a host keeps the bans, with the ones to be written back,
\* within the bound: when they reach it, one that nobody writes back is removed.
LEMMA BanWithinBound ==
    ASSUME NEW D \in SUBSET IPs, NEW D2 \in SUBSET IPs, NEW ip \in IPs,
           NEW P \in SUBSET IPs, Cardinality(P) <= Cardinality(Callers),
           Cardinality(D \cup P) <= maxBans,
           D2 \subseteq D \cup {ip},
           Cardinality(D \cup {ip}) > EntriesHardLimit
             => 2 * Cardinality((D \cup {ip}) \ D2) >= Cardinality(D \cup {ip}) - EntriesSoftLimit
    PROVE  Cardinality(D2 \cup P) <= maxBans
<1> DEFINE M == D \cup {ip}
           X == M \ D2
<1>1. /\ IsFiniteSet(D \cup P) /\ IsFiniteSet(M) /\ IsFiniteSet(P) /\ IsFiniteSet(X)
      /\ IsFiniteSet(M \cup P) /\ IsFiniteSet(M \cap P) /\ IsFiniteSet(X \ P)
      /\ IsFiniteSet(X \cap P) /\ IsFiniteSet(D2 \cup P)
  BY DefenderAssumption, FS_Subset
<1>2. /\ Cardinality(D \cup P) \in Nat /\ Cardinality(M) \in Nat /\ Cardinality(P) \in Nat
      /\ Cardinality(X) \in Nat /\ Cardinality(M \cup P) \in Nat
      /\ Cardinality(M \cap P) \in Nat /\ Cardinality(X \ P) \in Nat
      /\ Cardinality(X \cap P) \in Nat /\ Cardinality(D2 \cup P) \in Nat
      /\ Cardinality(Callers) \in Nat
  BY <1>1, DefenderAssumption, FS_CardinalityType
<1>3. Cardinality(M \cup P) <= Cardinality(D \cup P) + 1
  <2> DEFINE U == D \cup P
  <2>1. M \cup P = U \cup {ip} /\ IsFiniteSet(U) /\ Cardinality(U) \in Nat
    BY <1>1, <1>2
  <2> HIDE DEF U
  <2>2. Cardinality(U \cup {ip}) <= Cardinality(U) + 1
    BY <2>1, FS_AddElement
  <2> QED
    BY <2>1, <2>2 DEF U
<1>4. Cardinality(M \cup P) = Cardinality(M) + Cardinality(P) - Cardinality(M \cap P)
  BY <1>1, FS_Union
<1>5. Cardinality(X \ P) = Cardinality(X) - Cardinality(X \cap P)
  BY <1>1, FS_Difference
<1>6. Cardinality(X \cap P) <= Cardinality(M \cap P) /\ Cardinality(M \cap P) <= Cardinality(P)
  BY <1>1, FS_Subset
<1>7. Cardinality(D2 \cup P) = Cardinality(M \cup P) - Cardinality(X \ P)
  <2> DEFINE W == M \cup P
             Y == X \ P
  <2>1. D2 \cup P = W \ Y /\ W \cap Y = Y /\ IsFiniteSet(W)
    BY <1>1
  <2> HIDE DEF W, Y
  <2>2. Cardinality(W \ Y) = Cardinality(W) - Cardinality(Y)
    BY <2>1, FS_Difference
  <2> QED
    BY <2>1, <2>2 DEF W, Y
<1> HIDE DEF M, X
<1>8. CASE Cardinality(M \cup P) <= maxBans
  BY <1>2, <1>7, <1>8, DefenderAssumption DEF maxBans
<1>9. CASE Cardinality(M \cup P) = maxBans + 1
  <2>1. Cardinality(M) > EntriesHardLimit
    BY <1>2, <1>4, <1>6, <1>9, DefenderAssumption DEF maxBans
  <2>2. 2 * Cardinality(X) >= Cardinality(M) - EntriesSoftLimit
    BY <2>1 DEF M, X
  <2>3. Cardinality(X) > Cardinality(M \cap P)
    BY <1>2, <1>4, <1>6, <1>9, <2>2, DefenderAssumption DEF maxBans
  <2> QED
    BY <1>2, <1>5, <1>6, <1>7, <1>9, <2>3, DefenderAssumption DEF maxBans
<1>10. maxBans \in Nat
  BY <1>2, DefenderAssumption DEF maxBans
<1> QED
  BY <1>2, <1>3, <1>8, <1>9, <1>10

-------------------------------------------------------------------------------
\* Initially both lists are empty.
LEMMA InitIInv == Init => IInv
<1> SUFFICES ASSUME Init PROVE IInv
  OBVIOUS
<1>1. DOMAIN hosts = {} /\ DOMAIN banned = {} /\ ToWrite = {}
  BY DEF Init, EmptyMap, ToWrite, Extending
<1>2. Cardinality({}) = 0 /\ Cardinality(Callers) \in Nat
  BY FS_EmptySet, FS_CardinalityType, DefenderAssumption
<1>3. Cardinality(DOMAIN banned \cup ToWrite) <= maxBans
  BY <1>1, <1>2, DefenderAssumption DEF maxBans
<1>4. pending \in [Callers -> {NoBan} \cup (IPs \X Int)]
  BY DEF Init
<1> QED
  BY <1>1, <1>2, <1>3, <1>4, DefenderAssumption DEF Init, IInv

\* AddEvent cleans up what it makes too large.
LEMMA AddEventInv ==
    ASSUME IInv, NEW ip \in IPs, NEW score \in Scores, AddEvent(ip, score)
    PROVE  IInv'
<1> USE DEF IInv
<1> DEFINE unbanned == MapDelete(banned, ip)
           m == MapPut(unbanned, ip, now + BanTime)
<1>1. pending' = pending /\ now' = now /\ ToWrite' = ToWrite
  BY DEF AddEvent, ToWrite, Extending
<1>2. /\ DOMAIN unbanned = DOMAIN banned \ {ip}
      /\ \A k \in DOMAIN unbanned : unbanned[k] = banned[k]
  BY DEF MapDelete
<1>3. /\ DOMAIN m = DOMAIN banned \cup {ip}
      /\ DOMAIN m \subseteq IPs
      /\ \A k \in DOMAIN m : m[k] \in Int
  BY <1>2, DefenderAssumption DEF MapPut
<1>4. /\ ToWrite \subseteq IPs
      /\ Cardinality(ToWrite) <= Cardinality(Callers)
  BY ToWriteBound
<1>5. CASE banned' = unbanned
  <2>1. DOMAIN banned' \cup ToWrite \subseteq DOMAIN banned \cup ToWrite
    BY <1>2, <1>5
  <2>2. IsFiniteSet(DOMAIN banned \cup ToWrite)
    BY <1>4, DefenderAssumption, FS_Subset
  <2>3. Cardinality(DOMAIN banned' \cup ToWrite) <= Cardinality(DOMAIN banned \cup ToWrite)
    BY <2>1, <2>2, FS_Subset
  <2>4. /\ Cardinality(DOMAIN banned' \cup ToWrite) \in Nat
        /\ Cardinality(DOMAIN banned \cup ToWrite) \in Nat
        /\ Cardinality(Callers) \in Nat
    BY <2>1, <2>2, FS_Subset, FS_CardinalityType, DefenderAssumption
  <2>5. Cardinality(DOMAIN banned' \cup ToWrite) <= maxBans
    BY <2>3, <2>4, DefenderAssumption DEF maxBans
  <2>6. /\ DOMAIN hosts' \subseteq IPs
        /\ Cardinality(DOMAIN hosts') <= EntriesHardLimit
    <3>1. CASE ip \in DOMAIN hosts
      <4>1. CASE hosts' = MapDelete(hosts, ip)
        <5>1. DOMAIN hosts' \subseteq DOMAIN hosts /\ IsFiniteSet(DOMAIN hosts)
          BY <4>1, DefenderAssumption, FS_Subset DEF MapDelete
        <5>2. /\ Cardinality(DOMAIN hosts') <= Cardinality(DOMAIN hosts)
              /\ Cardinality(DOMAIN hosts') \in Nat /\ Cardinality(DOMAIN hosts) \in Nat
          BY <5>1, FS_Subset, FS_CardinalityType
        <5> QED
          BY <5>1, <5>2, DefenderAssumption
      <4>2. CASE hosts' # MapDelete(hosts, ip)
        <5>1. DOMAIN hosts' = DOMAIN hosts
          BY <3>1, <4>2 DEF AddEvent, MapPut
        <5> QED
          BY <5>1
      <4> QED
        BY <4>1, <4>2
    <3>2. CASE ip \notin DOMAIN hosts
      <4> DEFINE added == MapPut(hosts, ip, <<[time |-> now, score |-> score]>>)
      <4>1. cleanupHosts(added)
        BY <3>2 DEF AddEvent
      <4>2. DOMAIN added \subseteq IPs
        BY DEF MapPut
      <4> HIDE DEF added
      <4> QED
        BY <4>1, <4>2, HostsCleaned
    <3> QED
      BY <3>1, <3>2
  <2>7. \A k \in DOMAIN banned' : banned'[k] \in Int
    BY <1>2, <1>5
  <2> QED
    BY <1>1, <1>2, <1>5, <2>5, <2>6, <2>7
<1>6. CASE banned' # unbanned
  <2>1. cleanupBanned(m) /\ hosts' = MapDelete(hosts, ip)
    BY <1>6 DEF AddEvent
  <2>2. /\ DOMAIN hosts' \subseteq IPs
        /\ Cardinality(DOMAIN hosts') <= EntriesHardLimit
    <3>1. DOMAIN hosts' \subseteq DOMAIN hosts /\ IsFiniteSet(DOMAIN hosts)
      BY <2>1, DefenderAssumption, FS_Subset DEF MapDelete
    <3>2. /\ Cardinality(DOMAIN hosts') <= Cardinality(DOMAIN hosts)
          /\ Cardinality(DOMAIN hosts') \in Nat /\ Cardinality(DOMAIN hosts) \in Nat
      BY <3>1, FS_Subset, FS_CardinalityType
    <3> QED
      BY <3>1, <3>2, DefenderAssumption
  <2> HIDE DEF m
  <2>3. /\ DOMAIN banned' \subseteq DOMAIN m
        /\ \A k \in DOMAIN banned' : banned'[k] = m[k]
        /\ Cardinality(DOMAIN m) > EntriesHardLimit
             => 2 * Cardinality(DOMAIN m \ DOMAIN banned')
                  >= Cardinality(DOMAIN m) - EntriesSoftLimit
    BY <1>3, <2>1, BannedCleaned
  <2>4. Cardinality(DOMAIN banned' \cup ToWrite) <= maxBans
    BY <1>3, <1>4, <2>3, BanWithinBound
  <2> QED
    BY <1>1, <1>3, <2>2, <2>3, <2>4
<1> QED
  BY <1>5, <1>6

\* Fewer bans and fewer hosts keep the invariant.
LEMMA ShrinkInv ==
    ASSUME IInv, pending' = pending, now' \in Int,
           DOMAIN hosts' \subseteq DOMAIN hosts,
           DOMAIN banned' \subseteq DOMAIN banned,
           \A k \in DOMAIN banned' : banned'[k] = banned[k]
    PROVE  IInv'
<1> USE DEF IInv
<1>1. ToWrite' = ToWrite
  BY DEF ToWrite, Extending
<1>2. IsFiniteSet(DOMAIN hosts) /\ IsFiniteSet(DOMAIN banned \cup ToWrite)
  BY ToWriteBound, DefenderAssumption, FS_Subset
<1>3. /\ Cardinality(DOMAIN hosts') <= Cardinality(DOMAIN hosts)
      /\ Cardinality(DOMAIN hosts') \in Nat /\ Cardinality(DOMAIN hosts) \in Nat
  BY <1>2, FS_Subset, FS_CardinalityType
<1>4. DOMAIN banned' \cup ToWrite \subseteq DOMAIN banned \cup ToWrite
  OBVIOUS
<1>5. /\ Cardinality(DOMAIN banned' \cup ToWrite) <= Cardinality(DOMAIN banned \cup ToWrite)
      /\ Cardinality(DOMAIN banned' \cup ToWrite) \in Nat
      /\ Cardinality(DOMAIN banned \cup ToWrite) \in Nat
      /\ Cardinality(Callers) \in Nat
  BY <1>2, <1>4, FS_Subset, FS_CardinalityType, DefenderAssumption
<1>6. Cardinality(DOMAIN hosts') <= EntriesHardLimit
  BY <1>3, DefenderAssumption
<1>7. Cardinality(DOMAIN banned' \cup ToWrite) <= maxBans
  BY <1>5, DefenderAssumption DEF maxBans
<1> QED
  BY <1>1, <1>6, <1>7

\* The bans and those to be written are the same set before and after each half
\* of IsBanned.
LEMMA IsBannedInv ==
    ASSUME IInv, NEW c \in Callers, NEW ip \in IPs, IsBanned(c, ip)
    PROVE  IInv'
<1> USE DEF IInv
<1>1. /\ pending' = [pending EXCEPT ![c] = <<ip, banned[ip]>>]
      /\ pending[c] = NoBan /\ ip \in DOMAIN banned
      /\ banned' = banned /\ hosts' = hosts /\ now' = now
  BY DEF IsBanned
<1>2. <<ip, banned[ip]>> \in IPs \X Int /\ <<ip, banned[ip]>> # NoBan
  BY <1>1 DEF NoBan
<1>3. Extending' = Extending \cup {c}
  BY <1>1, <1>2 DEF Extending
<1>4. ToWrite' = ToWrite \cup {ip}
  BY <1>1, <1>3 DEF ToWrite, Extending
<1>5. DOMAIN banned' \cup ToWrite' = DOMAIN banned \cup ToWrite
  BY <1>1, <1>4
<1>6. pending' \in [Callers -> {NoBan} \cup (IPs \X Int)]
  BY <1>1, <1>2
<1> QED
  BY <1>1, <1>5, <1>6

\* Writing a ban back moves it from those to be written to the bans.
LEMMA ExtendInv ==
    ASSUME IInv, NEW c \in Callers, extendBan(c)
    PROVE  IInv'
<1> USE DEF IInv
<1> DEFINE ip == pending[c][1]
           time == pending[c][2] + increment
<1>1. /\ pending[c] # NoBan /\ pending[c] \in IPs \X Int
      /\ pending' = [pending EXCEPT ![c] = NoBan]
      /\ banned' = MapPut(banned, ip, time)
      /\ hosts' = hosts /\ now' = now
  BY DEF extendBan
<1>2. ip \in IPs /\ ip \in ToWrite /\ time \in Int
  <2>1. increment \in Int
    BY DefenderAssumption DEF increment
  <2> QED
    BY <1>1, <2>1 DEF ToWrite, Extending
<1>3. ToWrite' \subseteq ToWrite
  BY <1>1 DEF ToWrite, Extending
<1>4. /\ DOMAIN banned' = DOMAIN banned \cup {ip}
      /\ \A k \in DOMAIN banned' : banned'[k] \in Int
  BY <1>1, <1>2 DEF MapPut
<1> HIDE DEF ip, time
<1>5. DOMAIN banned' \cup ToWrite' \subseteq DOMAIN banned \cup ToWrite
  BY <1>2, <1>3, <1>4
<1>6. IsFiniteSet(DOMAIN banned \cup ToWrite)
  BY ToWriteBound, DefenderAssumption, FS_Subset
<1>7. /\ Cardinality(DOMAIN banned' \cup ToWrite') <= Cardinality(DOMAIN banned \cup ToWrite)
      /\ Cardinality(DOMAIN banned' \cup ToWrite') \in Nat
      /\ Cardinality(DOMAIN banned \cup ToWrite) \in Nat
      /\ Cardinality(Callers) \in Nat
  BY <1>5, <1>6, FS_Subset, FS_CardinalityType, DefenderAssumption
<1>8. Cardinality(DOMAIN banned' \cup ToWrite') <= maxBans
  BY <1>7, DefenderAssumption DEF maxBans
<1>9. pending' \in [Callers -> {NoBan} \cup (IPs \X Int)]
  BY <1>1
<1> QED
  BY <1>1, <1>2, <1>4, <1>8, <1>9

\* Every operation of the defender keeps the invariant.
LEMMA NextIInv == IInv /\ [Next]_vars => IInv'
<1> SUFFICES ASSUME IInv, [Next]_vars
             PROVE  IInv'
  OBVIOUS
<1>1. ASSUME NEW ip \in IPs, DeleteHost(ip)
      PROVE  IInv'
  <2>1. now' \in Int /\ pending' = pending
    BY <1>1 DEF DeleteHost, IInv
  <2> QED
    BY <1>1, <2>1, ShrinkInv DEF DeleteHost, MapDelete
<1>2. CASE tick \/ UNCHANGED vars
  <2>1. now' \in Int /\ pending' = pending /\ hosts' = hosts /\ banned' = banned
    BY <1>2 DEF tick, vars, IInv
  <2> QED
    BY <2>1, ShrinkInv
<1> QED
  BY <1>1, <1>2, AddEventInv, IsBannedInv, ExtendInv DEF Next

\* The invariant holds of every reachable state.
LEMMA SpecIInv == Spec => []IInv
BY InitIInv, NextIInv, PTL DEF Spec

\* cleanupHosts keeps the number of hosts with a score within
\* entries_hard_limit in every reachable state.
THEOREM HostsBounded == Spec => []HostsWithinHardLimit
<1>1. IInv => HostsWithinHardLimit
  BY DEF IInv, HostsWithinHardLimit
<1> QED
  BY <1>1, SpecIInv, PTL

\* The bans that IsBanned writes back after they were removed do not
\* accumulate: however many events, deletions and connections there are, the
\* number of bans stays within a bound given by the limits of the
\* configuration and by the number of clients that connect at the same time.
THEOREM BansBounded == Spec => []BannedNearHardLimit
<1>1. IInv => BannedNearHardLimit
  <2> SUFFICES ASSUME IInv PROVE BannedNearHardLimit
    OBVIOUS
  <2>1. IsFiniteSet(DOMAIN banned \cup ToWrite)
    BY ToWriteBound, DefenderAssumption, FS_Subset DEF IInv
  <2>2. /\ Cardinality(DOMAIN banned) <= Cardinality(DOMAIN banned \cup ToWrite)
        /\ Cardinality(DOMAIN banned) \in Nat
        /\ Cardinality(DOMAIN banned \cup ToWrite) \in Nat
        /\ Cardinality(Callers) \in Nat
    BY <2>1, FS_Subset, FS_CardinalityType, DefenderAssumption
  <2> QED
    BY <2>2, DefenderAssumption DEF IInv, BannedNearHardLimit, maxBans
<1> QED
  BY <1>1, SpecIInv, PTL
===============================================================================
