------------------------ MODULE ClientAdmission_proofs ------------------------
(***************************************************************************)
(* The limits on the number of clients hold for any number of handlers and *)
(* hosts and for any values of the two limits.  The argument: the counters *)
(* equal the number of handlers that are between their two halves of add   *)
(* and of remove, and a handler looks at a counter that includes itself    *)
(* and everyone who passed before.                                         *)
(***************************************************************************)
EXTENDS ClientAdmission, FiniteSetTheorems, TLAPS

one(P) == IF P THEN 1 ELSE 0

\* How adding or removing one member changes the size of a finite set.
LEMMA CardinalityMove ==
    ASSUME NEW A, IsFiniteSet(A), NEW x, NEW in \in BOOLEAN,
           NEW B, B = IF in THEN A \cup {x} ELSE A \ {x}
    PROVE  /\ Cardinality(A) \in Nat
           /\ Cardinality(B) = Cardinality(A) + one(in) - one(x \in A)
<1>1. Cardinality(A) \in Nat
  BY FS_CardinalityType
<1>2. CASE in
  BY <1>1, <1>2, FS_AddElement DEF one
<1>3. CASE ~ in
  BY <1>1, <1>3, FS_RemoveElement DEF one
<1> QED
  BY <1>1, <1>2, <1>3

\* A handler that moves from one place to another, possibly with the address of
\* a new client, is the only one that enters or leaves a group of handlers.
LEMMA Move ==
    ASSUME TypeOK, NEW h \in Handlers, NEW p \in Places, goto(h, p), NEW S
    PROVE  /\ Cardinality(At(S)) \in Nat
           /\ Cardinality(At(S)') = Cardinality(At(S)) + one(p \in S) - one(pc[h] \in S)
<1>1. IsFiniteSet(At(S))
  BY AdmissionAssumption, FS_Subset DEF At
<1>2. At(S)' = IF p \in S THEN At(S) \cup {h} ELSE At(S) \ {h}
  BY DEF At, goto, TypeOK
<1>3. h \in At(S) <=> pc[h] \in S
  BY DEF At
<1>4. (p \in S) \in BOOLEAN
  OBVIOUS
<1>5. /\ Cardinality(At(S)) \in Nat
      /\ Cardinality(At(S)') = Cardinality(At(S)) + one(p \in S) - one(h \in At(S))
  BY <1>1, <1>2, <1>4, CardinalityMove
<1> QED
  BY <1>3, <1>5 DEF one

\* The same for the handlers of the clients of one host.
LEMMA MoveFrom ==
    ASSUME TypeOK, NEW h \in Handlers, NEW p \in Places, goto(h, p), NEW S,
           host' \in [Handlers -> Hosts],
           \A g \in Handlers \ {h} : host'[g] = host[g],
           NEW ip \in Hosts
    PROVE  /\ Cardinality(AtFrom(S, ip)) \in Nat
           /\ Cardinality(AtFrom(S, ip)') = Cardinality(AtFrom(S, ip))
                 + one(p \in S /\ host'[h] = ip) - one(pc[h] \in S /\ host[h] = ip)
<1> DEFINE in == p \in S /\ host'[h] = ip
<1>1. IsFiniteSet(AtFrom(S, ip))
  BY AdmissionAssumption, FS_Subset DEF AtFrom, At
<1>2. AtFrom(S, ip)' = IF in THEN AtFrom(S, ip) \cup {h} ELSE AtFrom(S, ip) \ {h}
  BY DEF AtFrom, At, goto, TypeOK
<1>3. h \in AtFrom(S, ip) <=> pc[h] \in S /\ host[h] = ip
  BY DEF AtFrom, At
<1>4. in \in BOOLEAN
  OBVIOUS
<1>5. /\ Cardinality(AtFrom(S, ip)) \in Nat
      /\ Cardinality(AtFrom(S, ip)')
           = Cardinality(AtFrom(S, ip)) + one(in) - one(h \in AtFrom(S, ip))
  <2> HIDE DEF in
  <2> QED
    BY <1>1, <1>2, <1>4, CardinalityMove
<1> QED
  BY <1>3, <1>5 DEF one

-------------------------------------------------------------------------------
IInv ==
    /\ TypeOK
    /\ ClientsAccounted
    /\ AdmittedWithinTotal
    /\ AdmittedWithinHost

\* Initially no handler has a client.
LEMMA InitIInv == Init => IInv
<1> SUFFICES ASSUME Init PROVE IInv
  OBVIOUS
<1>1. TypeOK
  BY DEF Init, TypeOK, EmptyMap, Places
<1>2. /\ At(InTotal) = {} /\ At(PastTotal) = {}
      /\ \A ip \in Hosts : AtFrom(InClients, ip) = {} /\ AtFrom(PastHost, ip) = {}
  BY DEF Init, At, AtFrom, InTotal, InClients, PastTotal, PastHost
<1>3. Cardinality({}) = 0
  BY FS_EmptySet
<1>4. ClientsAccounted
  BY <1>2, <1>3 DEF Init, ClientsAccounted, InTotal, InClients, MapCount, EmptyMap
<1>5. AdmittedWithinTotal /\ AdmittedWithinHost
  BY <1>2, <1>3, AdmissionAssumption
  DEF AdmittedWithinTotal, AdmittedWithinHost, PastTotal, PastHost
<1> QED
  BY <1>1, <1>4, <1>5 DEF IInv

\* The clients in the total include those that are past its check, and those
\* in the map of the hosts include those past the check of their host.
PastCounted ==
    /\ Cardinality(At(PastTotal)) <= totalConnections
    /\ \A ip \in Hosts : Cardinality(AtFrom(PastHost, ip)) <= MapCount(clients, ip)

\* The clients that passed a check are among those its counter counts.
LEMMA PastWithinCounters == TypeOK /\ ClientsAccounted => PastCounted
<1> SUFFICES ASSUME TypeOK, ClientsAccounted PROVE PastCounted
  OBVIOUS
<1>1. IsFiniteSet(At(InTotal)) /\ At(PastTotal) \subseteq At(InTotal)
  BY AdmissionAssumption, FS_Subset DEF At, PastTotal, InTotal, Places
<1>2. ASSUME NEW ip \in Hosts
      PROVE  /\ IsFiniteSet(AtFrom(InClients, ip))
             /\ AtFrom(PastHost, ip) \subseteq AtFrom(InClients, ip)
  BY AdmissionAssumption, FS_Subset DEF At, AtFrom, PastHost, InClients, Places
<1>3. Cardinality(At(PastTotal)) <= totalConnections
  BY <1>1, FS_Subset DEF ClientsAccounted
<1>4. ASSUME NEW ip \in Hosts
      PROVE  Cardinality(AtFrom(PastHost, ip)) <= MapCount(clients, ip)
  BY <1>2, FS_Subset DEF ClientsAccounted
<1> QED
  BY <1>3, <1>4 DEF PastCounted

\* A step of one handler keeps the invariant when the counters change by what
\* the handler does, and when a handler that passes a check found the counter
\* within the limit.
LEMMA StepIInv ==
    ASSUME IInv, TypeOK', NEW h \in Handlers, NEW p \in Places, goto(h, p),
           \A g \in Handlers \ {h} : host'[g] = host[g],
           totalConnections' = totalConnections + one(p \in InTotal) - one(pc[h] \in InTotal),
           \A ip \in Hosts :
             MapCount(clients', ip) = MapCount(clients, ip)
                 + one(p \in InClients /\ host'[h] = ip)
                 - one(pc[h] \in InClients /\ host[h] = ip),
           p \in PastTotal => pc[h] \in PastTotal \/ ~ tooManyClients',
           p \in PastHost => /\ host'[h] = host[h]
                             /\ pc[h] \in PastHost \/ ~ tooManyFrom(host[h])'
    PROVE  IInv'
<1> USE DEF IInv
<1>0. host \in [Handlers -> Hosts] /\ host' \in [Handlers -> Hosts]
  BY DEF TypeOK
<1>1. ClientsAccounted'
  <2>1. totalConnections' = Cardinality(At(InTotal)')
    BY Move DEF ClientsAccounted
  <2>2. ASSUME NEW ip \in Hosts
        PROVE  MapCount(clients', ip) = Cardinality(AtFrom(InClients, ip)')
    BY <1>0, MoveFrom DEF ClientsAccounted
  <2> QED
    BY <2>1, <2>2 DEF ClientsAccounted
<1>p. PastCounted'
  BY <1>1, PastWithinCounters, PTL
<1>2. AdmittedWithinTotal'
  <2> SUFFICES ASSUME MaxTotalConnections > 0
               PROVE  Cardinality(At(PastTotal)') <= MaxTotalConnections
    BY DEF AdmittedWithinTotal
  <2>1. CASE p \in PastTotal /\ pc[h] \notin PastTotal
    <3>1. totalConnections' <= MaxTotalConnections
      BY <2>1, AdmissionAssumption DEF tooManyClients, TypeOK
    <3>2. Cardinality(At(PastTotal)') <= totalConnections'
      BY <1>p DEF PastCounted
    <3>3. Cardinality(At(PastTotal)') \in Int
      BY Move DEF one
    <3> QED
      BY <3>1, <3>2, <3>3, AdmissionAssumption DEF TypeOK
  <2>2. CASE p \notin PastTotal \/ pc[h] \in PastTotal
    <3>1. Cardinality(At(PastTotal)) <= MaxTotalConnections
      BY DEF AdmittedWithinTotal
    <3> QED
      BY <2>2, <3>1, Move, AdmissionAssumption DEF one
  <2> QED
    BY <2>1, <2>2
<1>3. AdmittedWithinHost'
  <2> SUFFICES ASSUME MaxPerHostConnections > 0, NEW ip \in Hosts
               PROVE  Cardinality(AtFrom(PastHost, ip)') <= MaxPerHostConnections
    BY DEF AdmittedWithinHost
  <2>1. /\ Cardinality(AtFrom(PastHost, ip)) \in Nat
        /\ Cardinality(AtFrom(PastHost, ip)') = Cardinality(AtFrom(PastHost, ip))
              + one(p \in PastHost /\ host'[h] = ip)
              - one(pc[h] \in PastHost /\ host[h] = ip)
    BY <1>0, MoveFrom
  <2>2. Cardinality(AtFrom(PastHost, ip)) <= MaxPerHostConnections
    BY DEF AdmittedWithinHost
  <2>3. CASE p \in PastHost /\ host'[h] = ip /\ ~ (pc[h] \in PastHost /\ host[h] = ip)
    <3>1. MapCount(clients', ip) <= MaxPerHostConnections
      <4>1. MapCount(clients', ip) \in Nat
        BY DEF TypeOK, MapCount
      <4> QED
        BY <2>3, <4>1, AdmissionAssumption DEF tooManyFrom
    <3>2. Cardinality(AtFrom(PastHost, ip)') <= MapCount(clients', ip)
      BY <1>p DEF PastCounted
    <3>3. Cardinality(AtFrom(PastHost, ip)') \in Int /\ MapCount(clients', ip) \in Nat
      BY <2>1 DEF one, TypeOK, MapCount
    <3> QED
      BY <3>1, <3>2, <3>3, AdmissionAssumption
  <2>4. CASE ~ (p \in PastHost /\ host'[h] = ip) \/ (pc[h] \in PastHost /\ host[h] = ip)
    BY <2>1, <2>2, <2>4, AdmissionAssumption DEF one
  <2> QED
    BY <2>3, <2>4
<1> QED
  BY <1>1, <1>2, <1>3

\* What m[k]++ and m[k]-- do to the counts of a map.
LEMMA IncrementCount ==
    ASSUME NEW m, m \in [DOMAIN m -> Nat \ {0}], NEW k
    PROVE  /\ MapIncrement(m, k) \in [DOMAIN m \cup {k} -> Nat \ {0}]
           /\ \A x : MapCount(MapIncrement(m, k), x) = MapCount(m, x) + one(x = k)
BY DEF MapIncrement, MapPut, MapCount, one

\* The same for m[k]--, which drops the key at zero.
LEMMA DecrementCount ==
    ASSUME NEW m, m \in [DOMAIN m -> Nat \ {0}], NEW k \in DOMAIN m
    PROVE  /\ DOMAIN MapDecrement(m, k) \subseteq DOMAIN m
           /\ MapDecrement(m, k) \in [DOMAIN MapDecrement(m, k) -> Nat \ {0}]
           /\ \A x : MapCount(MapDecrement(m, k), x) = MapCount(m, x) - one(x = k)
<1>1. CASE m[k] > 1
  BY <1>1 DEF MapDecrement, MapPut, MapCount, one
<1>2. CASE ~ (m[k] > 1)
  <2>1. m[k] = 1
    BY <1>2
  <2> QED
    BY <1>2, <2>1 DEF MapDecrement, MapDelete, MapCount, one
<1> QED
  BY <1>1, <1>2

\* Every step of every handler keeps the invariant.
LEMMA NextIInv == IInv /\ [Next]_vars => IInv'
<1> SUFFICES ASSUME IInv, [Next]_vars
             PROVE  IInv'
  OBVIOUS
<1> USE DEF Places, InTotal, InClients, PastTotal, PastHost, one
<1>t. TypeOK /\ (\A ip \in Hosts : MapCount(clients, ip) \in Nat)
  BY DEF IInv, TypeOK, MapCount
<1>1. ASSUME NEW h \in Handlers, NEW ip \in Hosts, addTotal(h, ip)
      PROVE  IInv'
  <2>1. TypeOK' /\ \A g \in Handlers \ {h} : host'[g] = host[g]
    BY <1>1, <1>t DEF addTotal, goto, TypeOK
  <2> QED
    BY <1>1, <1>t, <2>1, StepIInv DEF addTotal, TypeOK
<1>2. ASSUME NEW h \in Handlers, addHost(h)
      PROVE  IInv'
  <2>i. clients' = MapIncrement(clients, host[h]) /\ clients \in [DOMAIN clients -> Nat \ {0}]
    BY <1>2, <1>t DEF addHost, TypeOK
  <2>0. clients' \in [DOMAIN clients \cup {host[h]} -> Nat \ {0}]
    BY <2>i, IncrementCount
  <2>1. TypeOK'
    BY <1>2, <1>t, <2>0 DEF addHost, goto, TypeOK
  <2>2. \A x \in Hosts : MapCount(clients', x) = MapCount(clients, x) + one(x = host[h])
    <3>1. \A x : MapCount(MapIncrement(clients, host[h]), x) = MapCount(clients, x) + one(x = host[h])
      BY <2>i, IncrementCount
    <3> QED
      BY <2>i, <3>1, Zenon
  <2> QED
    BY <1>2, <1>t, <2>1, <2>2, StepIInv DEF addHost, TypeOK
<1>3. ASSUME NEW h \in Handlers, refuse(h) \/ disconnect(h)
      PROVE  IInv'
  <2>1. TypeOK'
    BY <1>3, <1>t DEF refuse, disconnect, goto, TypeOK
  <2> QED
    BY <1>3, <1>t, <2>1, StepIInv DEF refuse, disconnect, TypeOK
<1>4. ASSUME NEW h \in Handlers, checkHost(h)
      PROVE  IInv'
  <2>1. TypeOK'
    BY <1>4, <1>t DEF checkHost, goto, TypeOK
  <2>2. tooManyFrom(host[h])' <=> tooManyFrom(host[h])
    BY <1>4 DEF checkHost, tooManyFrom
  <2> QED
    BY <1>4, <1>t, <2>1, <2>2, StepIInv DEF checkHost, TypeOK
<1>5. ASSUME NEW h \in Handlers, checkTotal(h)
      PROVE  IInv'
  <2>1. TypeOK'
    BY <1>5, <1>t DEF checkTotal, goto, TypeOK
  <2>2. tooManyClients' <=> tooManyClients
    BY <1>5 DEF checkTotal, tooManyClients
  <2> QED
    BY <1>5, <1>t, <2>1, <2>2, StepIInv DEF checkTotal, TypeOK
<1>6. ASSUME NEW h \in Handlers, checkSessions(h)
      PROVE  IInv'
  <2>1. TypeOK'
    BY <1>6, <1>t DEF checkSessions, goto, TypeOK
  <2> QED
    BY <1>6, <1>t, <2>1, StepIInv DEF checkSessions, TypeOK
<1>7. ASSUME NEW h \in Handlers, removeTotal(h)
      PROVE  IInv'
  \* The host of a client that leaves is always mapped.
  <2>1. host[h] \in DOMAIN clients
    <3>1. h \in AtFrom(InClients, host[h]) /\ IsFiniteSet(AtFrom(InClients, host[h]))
      BY <1>7, AdmissionAssumption, FS_Subset DEF removeTotal, AtFrom, At
    <3>2. Cardinality(AtFrom(InClients, host[h])) # 0
      BY <3>1, FS_EmptySet
    <3> QED
      BY <1>t, <3>2 DEF IInv, ClientsAccounted, MapCount, TypeOK
  <2>2. h \in At(InTotal) /\ IsFiniteSet(At(InTotal))
    BY <1>7, AdmissionAssumption, FS_Subset DEF removeTotal, At
  <2>3. totalConnections # 0
    BY <2>2, FS_EmptySet DEF IInv, ClientsAccounted
  <2>4. TypeOK'
    BY <1>7, <1>t, <2>1, <2>3 DEF removeTotal, goto, TypeOK
  <2> QED
    BY <1>7, <1>t, <2>1, <2>4, StepIInv DEF removeTotal, TypeOK
<1>8. ASSUME NEW h \in Handlers, removeHost(h)
      PROVE  IInv'
  <2>1. host[h] \in DOMAIN clients
    <3>1. h \in AtFrom(InClients, host[h]) /\ IsFiniteSet(AtFrom(InClients, host[h]))
      BY <1>8, AdmissionAssumption, FS_Subset DEF removeHost, AtFrom, At
    <3>2. Cardinality(AtFrom(InClients, host[h])) # 0
      BY <3>1, FS_EmptySet
    <3> QED
      BY <1>t, <3>2 DEF IInv, ClientsAccounted, MapCount, TypeOK
  <2>2. /\ TypeOK'
        /\ \A x \in Hosts : MapCount(clients', x) = MapCount(clients, x) - one(x = host[h])
    BY <1>8, <1>t, <2>1, DecrementCount DEF removeHost, goto, TypeOK
  <2> QED
    BY <1>8, <1>t, <2>2, StepIInv DEF removeHost, TypeOK
<1>9. ASSUME UNCHANGED <<totalConnections, clients, pc, host>>, sessions' \in Nat
      PROVE  IInv'
  BY <1>9 DEF IInv, TypeOK, ClientsAccounted, AdmittedWithinTotal, AdmittedWithinHost, At, AtFrom,
             MapCount
<1>10. ASSUME NEW h \in Handlers, openSession(h)
       PROVE  IInv'
  BY <1>9, <1>10, <1>t DEF openSession, TypeOK
<1>11. CASE closeSession
  BY <1>9, <1>11, <1>t DEF closeSession, TypeOK
<1>12. CASE UNCHANGED vars
  BY <1>9, <1>12, <1>t DEF vars, TypeOK
<1> QED
  BY <1>1, <1>2, <1>3, <1>4, <1>5, <1>6, <1>7, <1>8, <1>10, <1>11, <1>12 DEF Next, handlerStep

\* The invariant holds of every reachable state.
LEMMA SpecIInv == Spec => []IInv
BY InitIInv, NextIInv, PTL DEF Spec

\* clientsMap loses no client and counts none twice, however the halves of add
\* and remove of any number of clients interleave.
THEOREM AccountingCorrect == Spec => []ClientsAccounted
<1>1. IInv => ClientsAccounted
  BY DEF IInv
<1> QED
  BY <1>1, SpecIInv, PTL

\* MaxTotalConnections bounds the admitted clients, for any number of handlers
\* racing through IsNewConnectionAllowed.
THEOREM TotalLimitCorrect == Spec => []AdmittedWithinTotal
<1>1. IInv => AdmittedWithinTotal
  BY DEF IInv
<1> QED
  BY <1>1, SpecIInv, PTL

\* MaxPerHostConnections bounds the admitted clients of each host.
THEOREM HostLimitCorrect == Spec => []AdmittedWithinHost
<1>1. IInv => AdmittedWithinHost
  BY DEF IInv
<1> QED
  BY <1>1, SpecIInv, PTL
===============================================================================
