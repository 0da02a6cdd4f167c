------------------------ MODULE ActiveConnections_proofs ------------------------
(***************************************************************************)
(* For any number of connections, users and limits: the indexes are the    *)
(* inverses of the slices, the counters count, and MaxSessions holds.      *)
(***************************************************************************)
EXTENDS ActiveConnections, FiniteSetTheorems, SequenceTheorems, TLAPS

-------------------------------------------------------------------------------
(* Slices and their indexes.                                               *)

\* What append does to the slice, to its elements and to its index.
LEMMA AppendIndexed ==
    ASSUME NEW S, NEW s \in Seq(S), NEW c \in S, NEW m,
           IsInverse(s, m), c.id \notin DOMAIN m
    PROVE  /\ Append(s, c) \in Seq(S)
           /\ IsInverse(Append(s, c), MapPut(m, c.id, Len(s) + 1))
           /\ Elements(Append(s, c)) = Elements(s) \cup {c}
<1> DEFINE t == Append(s, c)
           n == MapPut(m, c.id, Len(s) + 1)
<1>1. /\ t \in Seq(S)
      /\ Len(t) = Len(s) + 1
      /\ \A i \in 1 .. Len(s) : t[i] = s[i]
      /\ t[Len(s) + 1] = c
      /\ Len(s) \in Nat
  OBVIOUS
<1>2. 1 .. Len(t) = (1 .. Len(s)) \cup {Len(s) + 1}
  BY <1>1
<1> HIDE DEF t
<1>3. Elements(t) = Elements(s) \cup {c}
  BY <1>1, <1>2 DEF Elements
<1>4. {t[i].id : i \in 1 .. Len(t)} = {s[i].id : i \in 1 .. Len(s)} \cup {c.id}
  BY <1>1, <1>2
<1>5. DOMAIN n = {t[i].id : i \in 1 .. Len(t)}
  BY <1>4 DEF MapPut, IsInverse
<1>6. \A i \in 1 .. Len(t) : n[t[i].id] = i
  <2> SUFFICES ASSUME NEW i \in 1 .. Len(t)
               PROVE  n[t[i].id] = i
    OBVIOUS
  <2>1. CASE i = Len(s) + 1
    BY <2>1, <1>1 DEF MapPut
  <2>2. CASE i \in 1 .. Len(s)
    <3>1. t[i].id \in DOMAIN m /\ m[t[i].id] = i
      BY <2>2, <1>1 DEF IsInverse
    <3> QED
      BY <3>1 DEF MapPut
  <2> QED
    BY <2>1, <2>2, <1>2
<1> QED
  BY <1>1, <1>3, <1>5, <1>6 DEF IsInverse, t

\* The index of an id leads to the entry with that id.
LEMMA EntryOfIndex ==
    ASSUME NEW S, NEW s \in Seq(S), NEW m, NEW id \in DOMAIN m, IsInverse(s, m)
    PROVE  m[id] \in 1 .. Len(s) /\ s[m[id]].id = id /\ s[m[id]] \in S
<1>1. PICK i \in 1 .. Len(s) : s[i].id = id
  BY DEF IsInverse
<1>2. m[id] = i
  BY <1>1 DEF IsInverse
<1> QED
  BY <1>1, <1>2

\* Replacing an entry by one with the same id leaves the index right.
LEMMA ReplaceIndexed ==
    ASSUME NEW S, NEW s \in Seq(S), NEW m, IsInverse(s, m),
           NEW k \in 1 .. Len(s), NEW c \in S, c.id = s[k].id
    PROVE  /\ ReplaceAt(s, k, c) \in Seq(S)
           /\ IsInverse(ReplaceAt(s, k, c), m)
           /\ Elements(ReplaceAt(s, k, c)) = (Elements(s) \ {s[k]}) \cup {c}
<1> DEFINE t == ReplaceAt(s, k, c)
<1>1. /\ t \in Seq(S)
      /\ Len(t) = Len(s)
      /\ \A j \in 1 .. Len(s) : t[j] = IF j = k THEN c ELSE s[j]
  BY ExceptSeq DEF ReplaceAt
<1>2. \A j \in 1 .. Len(s) : t[j].id = s[j].id
  BY <1>1
<1>3. \A j \in 1 .. Len(s) : j # k => s[j] # s[k]
  BY DEF IsInverse
<1> HIDE DEF t
<1>4. IsInverse(t, m)
  <2>1. {t[j].id : j \in 1 .. Len(t)} = {s[j].id : j \in 1 .. Len(s)}
    BY <1>1, <1>2
  <2>2. \A j \in 1 .. Len(t) : m[t[j].id] = j
    BY <1>1, <1>2 DEF IsInverse
  <2> QED
    BY <2>1, <2>2 DEF IsInverse
<1>5. Elements(t) = (Elements(s) \ {s[k]}) \cup {c}
  BY <1>1, <1>3 DEF Elements
<1> QED
  BY <1>1, <1>4, <1>5 DEF t

\* The removal that moves the last entry into the gap and stores its index.
LEMMA RemoveIndexed ==
    ASSUME NEW S, NEW s \in Seq(S), NEW m, NEW id \in DOMAIN m,
           IsInverse(s, m)
    PROVE  LET idx == m[id]
               others == MapDelete(m, id)
           IN /\ idx \in 1 .. Len(s)
              /\ s[idx].id = id
              /\ s[idx] \in S
              /\ SwapRemove(s, idx) \in Seq(S)
              /\ IsInverse(SwapRemove(s, idx),
                           IF idx # Len(s) THEN MapPut(others, s[Len(s)].id, idx)
                                           ELSE others)
              /\ Elements(SwapRemove(s, idx)) = Elements(s) \ {s[idx]}
<1> DEFINE idx == m[id]
           others == MapDelete(m, id)
           t == SwapRemove(s, idx)
           n == IF idx # Len(s) THEN MapPut(others, s[Len(s)].id, idx) ELSE others
<1>1. PICK i \in 1 .. Len(s) : s[i].id = id
  BY DEF IsInverse
<1>2. idx = i
  BY <1>1 DEF IsInverse
<1>3. Len(s) \in Nat \ {0} /\ s[idx] \in S /\ s[Len(s)] \in S
  BY <1>1, <1>2
<1>4. /\ t \in Seq(S)
      /\ Len(t) = Len(s) - 1
      /\ \A j \in 1 .. (Len(s) - 1) : t[j] = IF j = idx THEN s[Len(s)] ELSE s[j]
  <2>1. \A j \in 1 .. (Len(s) - 1) : (IF j = idx THEN s[Len(s)] ELSE s[j]) \in S
    BY <1>3
  <2> QED
    BY <2>1, <1>3 DEF SwapRemove
<1>5. \A j, k \in 1 .. Len(s) : j # k => s[j].id # s[k].id
  BY DEF IsInverse
<1> HIDE DEF t
<1>6. Elements(t) = Elements(s) \ {s[idx]}
  BY <1>1, <1>2, <1>3, <1>4, <1>5 DEF Elements
<1>7. {t[j].id : j \in 1 .. Len(t)} = {s[j].id : j \in 1 .. Len(s)} \ {id}
  BY <1>1, <1>2, <1>3, <1>4, <1>5
<1>8. DOMAIN n = {t[j].id : j \in 1 .. Len(t)}
  <2>1. CASE idx = Len(s)
    BY <2>1, <1>7 DEF MapDelete, IsInverse
  <2>2. CASE idx # Len(s)
    <3>1. s[Len(s)].id \in DOMAIN others
      BY <2>2, <1>1, <1>2, <1>3, <1>5 DEF MapDelete, IsInverse
    <3> QED
      BY <2>2, <3>1, <1>7 DEF MapPut, MapDelete, IsInverse
  <2> QED
    BY <2>1, <2>2
<1>9. \A j \in 1 .. Len(t) : n[t[j].id] = j
  <2> SUFFICES ASSUME NEW j \in 1 .. Len(t)
               PROVE  n[t[j].id] = j
    OBVIOUS
  <2>0. j \in 1 .. Len(s) /\ j # Len(s)
    BY <1>3, <1>4
  <2>1. CASE j = idx
    BY <2>0, <2>1, <1>3, <1>4 DEF MapPut, MapDelete
  <2>2. CASE j # idx
    <3>1. t[j] = s[j] /\ s[j].id # id /\ s[j].id # s[Len(s)].id
      BY <2>0, <2>2, <1>1, <1>2, <1>3, <1>4, <1>5
    <3>2. s[j].id \in DOMAIN others /\ others[s[j].id] = j
      BY <2>0, <3>1 DEF MapDelete, IsInverse
    <3> QED
      BY <3>1, <3>2 DEF MapPut
  <2> QED
    BY <2>1, <2>2
<1> QED
  BY <1>1, <1>2, <1>3, <1>4, <1>6, <1>8, <1>9 DEF IsInverse, t

-------------------------------------------------------------------------------
(* Counters and limits, as facts about a set C of connections.             *)

CountsOK(counts) ==
    /\ DOMAIN counts \subseteq Usernames
    /\ counts \in [DOMAIN counts -> Nat \ {0}]

Counted(C, counts) ==
    \A u \in Usernames : MapCount(counts, u) = Cardinality({c \in C : c.user = u})

Limited(C) ==
    \A u \in Usernames : \A T \in SUBSET {c \in C : c.user = u} :
        T # {} => \E c \in T : c.maxSessions = 0 \/ Cardinality(T) <= c.maxSessions

\* addUserConnection counts a connection that joins C.
LEMMA CountAdd ==
    ASSUME NEW C, IsFiniteSet(C), NEW counts, CountsOK(counts), Counted(C, counts),
           NEW c, c \notin C, c.user \in Usernames \cup {NoUser}
    PROVE  /\ IsFiniteSet(C \cup {c})
           /\ CountsOK(addUserConnection(counts, c.user))
           /\ Counted(C \cup {c}, addUserConnection(counts, c.user))
<1>1. IsFiniteSet(C \cup {c})
  BY FS_AddElement
<1>2. CASE c.user = NoUser
  <2>1. \A u \in Usernames : {d \in C \cup {c} : d.user = u} = {d \in C : d.user = u}
    BY <1>2, ConstantsAssumption
  <2> QED
    BY <1>1, <1>2, <2>1 DEF addUserConnection, Counted
<1>3. CASE c.user \in Usernames
  <2> DEFINE n == MapPut(counts, c.user, MapCount(counts, c.user) + 1)
  <2>1. addUserConnection(counts, c.user) = n
    BY <1>3, ConstantsAssumption DEF addUserConnection, MapIncrement
  <2>2. MapCount(counts, c.user) \in Nat
    BY DEF MapCount, CountsOK
  <2>3. CountsOK(n)
    BY <1>3, <2>2 DEF CountsOK, MapPut
  <2>4. Counted(C \cup {c}, n)
    <3> SUFFICES ASSUME NEW u \in Usernames
                 PROVE  MapCount(n, u) = Cardinality({d \in C \cup {c} : d.user = u})
      BY DEF Counted
    <3>1. CASE u = c.user
      <4>1. {d \in C \cup {c} : d.user = u} = {d \in C : d.user = u} \cup {c}
        BY <3>1
      <4>2. IsFiniteSet({d \in C : d.user = u})
        BY FS_Subset
      <4>3. Cardinality({d \in C : d.user = u} \cup {c})
              = Cardinality({d \in C : d.user = u}) + 1
        BY <4>2, FS_AddElement
      <4>4. MapCount(n, u) = MapCount(counts, u) + 1
        BY <3>1 DEF MapCount, MapPut
      <4> QED
        BY <4>1, <4>3, <4>4 DEF Counted
    <3>2. CASE u # c.user
      <4>1. {d \in C \cup {c} : d.user = u} = {d \in C : d.user = u}
        BY <3>2
      <4>2. MapCount(n, u) = MapCount(counts, u)
        BY <3>2 DEF MapCount, MapPut
      <4> QED
        BY <4>1, <4>2 DEF Counted
    <3> QED
      BY <3>1, <3>2
  <2> QED
    BY <1>1, <2>1, <2>3, <2>4
<1> QED
  BY <1>2, <1>3

\* removeUserConnection discounts a connection that leaves C, and drops the
\* counter of a user with no connection left.
LEMMA CountRemove ==
    ASSUME NEW C, IsFiniteSet(C), NEW counts, CountsOK(counts), Counted(C, counts),
           NEW c \in C, c.user \in Usernames \cup {NoUser}
    PROVE  /\ IsFiniteSet(C \ {c})
           /\ CountsOK(removeUserConnection(counts, c.user))
           /\ Counted(C \ {c}, removeUserConnection(counts, c.user))
<1>1. IsFiniteSet(C \ {c})
  BY FS_RemoveElement
<1>2. CASE c.user = NoUser
  <2>1. \A u \in Usernames : {d \in C \ {c} : d.user = u} = {d \in C : d.user = u}
    BY <1>2, ConstantsAssumption
  <2> QED
    BY <1>1, <1>2, <2>1 DEF removeUserConnection, Counted
<1>3. CASE c.user \in Usernames
  <2> DEFINE n == MapDecrement(counts, c.user)
             mine == {d \in C : d.user = c.user}
  <2>1. removeUserConnection(counts, c.user) = n
    BY <1>3, ConstantsAssumption DEF removeUserConnection
  <2>2. IsFiniteSet(mine) /\ c \in mine
    BY FS_Subset
  <2>3. Cardinality(mine) \in Nat \ {0}
    BY <2>2, FS_EmptySet, FS_CardinalityType
  <2>4. MapCount(counts, c.user) = Cardinality(mine)
    BY <1>3 DEF Counted
  <2>5. c.user \in DOMAIN counts /\ counts[c.user] = Cardinality(mine)
    BY <2>3, <2>4 DEF MapCount
  <2> HIDE DEF mine
  <2>6. n = IF Cardinality(mine) > 1 THEN MapPut(counts, c.user, Cardinality(mine) - 1)
                                     ELSE MapDelete(counts, c.user)
    BY <2>5 DEF MapDecrement
  <2> HIDE DEF n
  <2>7. CountsOK(n)
    BY <1>3, <2>3, <2>6 DEF CountsOK, MapPut, MapDelete
  <2>8. Counted(C \ {c}, n)
    <3> SUFFICES ASSUME NEW u \in Usernames
                 PROVE  MapCount(n, u) = Cardinality({d \in C \ {c} : d.user = u})
      BY DEF Counted
    <3>1. CASE u = c.user
      <4>1. {d \in C \ {c} : d.user = u} = mine \ {c}
        BY <3>1 DEF mine
      <4>2. Cardinality(mine \ {c}) = Cardinality(mine) - 1
        BY <2>2, FS_RemoveElement
      <4>3. MapCount(n, u) = Cardinality(mine) - 1
        BY <3>1, <2>3, <2>6 DEF MapCount, MapPut, MapDelete
      <4> QED
        BY <4>1, <4>2, <4>3
    <3>2. CASE u # c.user
      <4>1. {d \in C \ {c} : d.user = u} = {d \in C : d.user = u}
        BY <3>2
      <4>2. MapCount(n, u) = MapCount(counts, u)
        BY <3>2, <2>6 DEF MapCount, MapPut, MapDelete
      <4> QED
        BY <4>1, <4>2 DEF Counted
    <3> QED
      BY <3>1, <3>2
  <2> QED
    BY <1>1, <2>1, <2>7, <2>8
<1> QED
  BY <1>2, <1>3

\* The limits still hold when connections leave.
LEMMA LimitSubset ==
    ASSUME NEW C, Limited(C), NEW D \in SUBSET C
    PROVE  Limited(D)
  BY DEF Limited

\* The limits still hold when a connection that passed the check joins: it is
\* itself the witness for every group it belongs to.
LEMMA LimitAdd ==
    ASSUME NEW C, IsFiniteSet(C), NEW counts, Counted(C, counts), Limited(C),
           NEW c, c \notin C, c.maxSessions \in Nat, ~ tooManySessions(counts, c)
    PROVE  Limited(C \cup {c})
<1> SUFFICES ASSUME NEW u \in Usernames,
                    NEW T \in SUBSET {d \in C \cup {c} : d.user = u}, T # {}
             PROVE  \E d \in T : d.maxSessions = 0 \/ Cardinality(T) <= d.maxSessions
  BY DEF Limited
<1>1. CASE c \notin T
  <2>1. T \in SUBSET {d \in C : d.user = u}
    BY <1>1
  <2> QED
    BY <2>1 DEF Limited
<1>2. CASE c \in T /\ c.maxSessions = 0
  BY <1>2
<1>3. CASE c \in T /\ c.maxSessions # 0
  <2> DEFINE mine == {d \in C : d.user = u}
  <2>1. c.user = u /\ T \in SUBSET (mine \cup {c})
    BY <1>3
  <2>2. IsFiniteSet(mine) /\ c \notin mine
    BY FS_Subset
  <2>3. Cardinality(mine) = MapCount(counts, u)
    BY DEF Counted
  <2> HIDE DEF mine
  <2>4. /\ IsFiniteSet(mine \cup {c})
        /\ Cardinality(mine \cup {c}) = Cardinality(mine) + 1
        /\ Cardinality(mine) \in Nat
    BY <2>2, FS_AddElement, FS_CardinalityType
  <2>5. Cardinality(T) <= Cardinality(mine) + 1 /\ Cardinality(T) \in Nat
    BY <2>1, <2>4, FS_Subset, FS_CardinalityType
  <2>6. Cardinality(mine) < c.maxSessions
    BY <1>3, <2>1, <2>3, <2>4, ConstantsAssumption DEF tooManySessions
  <2>7. Cardinality(T) <= c.maxSessions
    BY <2>4, <2>5, <2>6
  <2> QED
    BY <1>3, <2>7
<1> QED
  BY <1>1, <1>2, <1>3

-------------------------------------------------------------------------------
(* The inductive invariant.                                                *)

\* What the operations on connections preserve; finiteness of the registry is
\* what makes its cardinalities numbers.
RegistryInv ==
    /\ connections \in Seq(Connection)
    /\ mapping \in [DOMAIN mapping -> Nat \ {0}]
    /\ IsInverse(connections, mapping)
    /\ IsFiniteSet(Conns)
    /\ CountsOK(perUserConns)
    /\ Counted(Conns, perUserConns)
    /\ Limited(Conns)

SSHInv ==
    /\ sshConnections \in Seq(SSHConnection)
    /\ sshMapping \in [DOMAIN sshMapping -> Nat \ {0}]
    /\ IsInverse(sshConnections, sshMapping)

NetInv ==
    /\ closing \subseteq ConnIDs \cup SSHIDs
    /\ overdue \cup closed \subseteq DOMAIN mapping \cup DOMAIN sshMapping

IInv == RegistryInv /\ SSHInv /\ NetInv

\* The initial registry is empty.
LEMMA InitIInv == Init => IInv
<1> SUFFICES ASSUME Init PROVE IInv
  OBVIOUS
<1>1. Conns = {} /\ IsFiniteSet(Conns)
  BY FS_EmptySet DEF Init, Conns, Elements
<1>2. Counted(Conns, perUserConns)
  BY <1>1, FS_EmptySet DEF Init, Counted, MapCount, EmptyMap
<1>3. Limited(Conns)
  BY <1>1 DEF Limited
<1> QED
  BY <1>1, <1>2, <1>3 DEF Init, IInv, RegistryInv, SSHInv, NetInv, IsInverse, EmptyMap, CountsOK

\* The fields of a connection.
LEMMA ConnectionFields ==
    ASSUME NEW c \in Connection
    PROVE  /\ c.id \in ConnIDs
           /\ c.user \in Usernames \cup {NoUser}
           /\ c.maxSessions \in Nat
<1>1. /\ c.id \in ConnIDs
      /\ c.user \in Usernames \cup {NoUser}
      /\ c.maxSessions \in SessionLimits \cup {0}
  BY DEF Connection
<1>2. SessionLimits \subseteq Nat
  BY ConstantsAssumption
<1>3. c.maxSessions \in Nat
  <2>1. CASE c.maxSessions \in SessionLimits
    BY <2>1, <1>2
  <2>2. CASE c.maxSessions = 0
    BY <2>2
  <2> QED
    BY <1>1, <2>1, <2>2
<1> QED
  BY <1>1, <1>3

\* Add keeps the registry consistent.
LEMMA AddInv ==
    ASSUME IInv, NEW c \in Connection, Add(c)
    PROVE  IInv'
<1> USE DEF IInv
<1>1. c.id \notin DOMAIN mapping /\ ~ tooManySessions(perUserConns, c)
  BY DEF Add, Unused
<1>2. /\ connections' \in Seq(Connection)
      /\ IsInverse(connections, mapping)'
      /\ Conns' = Conns \cup {c}
  BY <1>1, AppendIndexed DEF Add, RegistryInv, Conns
<1>3. c \notin Conns
  BY <1>1 DEF RegistryInv, IsInverse, Conns, Elements
<1>4. /\ c.user \in Usernames \cup {NoUser}
      /\ c.maxSessions \in Nat
      /\ c.id \in ConnIDs
  BY ConnectionFields
<1>5. /\ IsFiniteSet(Conns \cup {c})
      /\ CountsOK(perUserConns')
      /\ Counted(Conns \cup {c}, perUserConns')
  BY <1>3, <1>4, CountAdd DEF Add, RegistryInv
<1>6. Limited(Conns \cup {c})
  BY <1>1, <1>3, <1>4, LimitAdd DEF RegistryInv
<1>7. mapping' \in [DOMAIN mapping' -> Nat \ {0}] /\ DOMAIN mapping' = DOMAIN mapping \cup {c.id}
  <2>1. Len(connections) + 1 \in Nat \ {0}
    BY DEF RegistryInv
  <2> QED
    BY <2>1 DEF Add, MapPut, RegistryInv
<1>8. RegistryInv'
  BY <1>2, <1>5, <1>6, <1>7 DEF RegistryInv, CountsOK, Counted, Limited
<1>9. SSHInv'
  BY DEF Add, SSHInv, sshVars, IsInverse
<1>10. NetInv'
  BY <1>7 DEF Add, NetInv, sshVars
<1> QED
  BY <1>8, <1>9, <1>10

\* Swap keeps it consistent on its three paths: the connection is not counted
\* for its old user while the new user's limit is checked.
LEMMA SwapInv ==
    ASSUME IInv, NEW c \in Connection, Swap(c)
    PROVE  IInv'
<1> USE DEF IInv
<1> DEFINE idx == mapping[c.id]
           swapped == ReplaceAt(connections, idx, c)
           old == connections[idx]
           without == removeUserConnection(perUserConns, old.user)
<1>1. c.id \in DOMAIN mapping
  BY DEF Swap
<1>2. /\ idx \in 1 .. Len(connections)
      /\ old.id = c.id
      /\ old \in Connection
      /\ swapped \in Seq(Connection)
      /\ IsInverse(swapped, mapping)
      /\ Elements(swapped) = (Conns \ {old}) \cup {c}
  <2>1. connections \in Seq(Connection) /\ IsInverse(connections, mapping)
    BY DEF RegistryInv
  <2>2. idx \in 1 .. Len(connections) /\ old.id = c.id /\ old \in Connection
    BY <1>1, <2>1, EntryOfIndex
  <2> QED
    BY <2>1, <2>2, ReplaceIndexed DEF Conns
<1> HIDE DEF swapped
<1>3. old \in Conns /\ c \notin Conns \ {old}
  BY <1>2 DEF RegistryInv, IsInverse, Conns, Elements
<1>4. /\ c.user \in Usernames \cup {NoUser}
      /\ old.user \in Usernames \cup {NoUser}
      /\ c.maxSessions \in Nat
  BY <1>2, ConnectionFields
<1>5. /\ IsFiniteSet(Conns \ {old})
      /\ CountsOK(without)
      /\ Counted(Conns \ {old}, without)
  BY <1>3, <1>4, CountRemove DEF RegistryInv
<1>6. Limited(Conns \ {old})
  BY LimitSubset DEF RegistryInv
<1>7. RegistryInv'
  <2>1. CASE tooManySessions(without, c)
    <3>1. perUserConns' = addUserConnection(without, old.user) /\ connections' = connections
      BY <2>1 DEF Swap
    <3>2. (Conns \ {old}) \cup {old} = Conns /\ Conns' = Conns
      BY <1>3, <3>1 DEF Conns
    <3>3. old \notin Conns \ {old}
      OBVIOUS
    <3>4. CountsOK(perUserConns') /\ Counted((Conns \ {old}) \cup {old}, perUserConns')
      BY <1>4, <1>5, <3>1, <3>3, CountAdd
    <3> HIDE DEF idx, old, without
    <3>5. mapping' = mapping
      BY DEF Swap
    <3> QED
      BY <3>1, <3>2, <3>4, <3>5 DEF RegistryInv, CountsOK, Counted, Limited, IsInverse
  <2>2. CASE ~ tooManySessions(without, c)
    <3>1. /\ perUserConns' = addUserConnection(without, c.user)
          /\ connections' = swapped
      BY <2>2 DEF Swap, swapped
    <3>2. Conns' = (Conns \ {old}) \cup {c}
      BY <1>2, <3>1 DEF Conns
    <3> HIDE DEF idx, old, without
    <3>3. /\ IsFiniteSet((Conns \ {old}) \cup {c})
          /\ CountsOK(perUserConns')
          /\ Counted((Conns \ {old}) \cup {c}, perUserConns')
      BY <1>3, <1>4, <1>5, <3>1, CountAdd
    <3>4. Limited((Conns \ {old}) \cup {c})
      BY <1>3, <1>4, <1>5, <1>6, <2>2, LimitAdd
    <3>5. mapping' = mapping
      BY DEF Swap
    <3>6. connections' \in Seq(Connection) /\ IsInverse(connections', mapping')
      BY <1>2, <3>1, <3>5
    <3> QED
      BY <3>2, <3>3, <3>4, <3>5, <3>6 DEF RegistryInv, CountsOK, Counted, Limited, IsInverse
  <2> QED
    BY <2>1, <2>2
<1>8. SSHInv'
  BY DEF Swap, SSHInv, sshVars, IsInverse
<1>9. NetInv'
  BY DEF Swap, NetInv, sshVars
<1> QED
  BY <1>7, <1>8, <1>9

\* Remove keeps it consistent.
LEMMA RemoveInv ==
    ASSUME IInv, NEW id, Remove(id)
    PROVE  IInv'
<1> USE DEF IInv
<1> DEFINE idx == mapping[id]
           old == connections[idx]
<1>1. id \in DOMAIN mapping
  BY DEF Remove
<1>2. /\ idx \in 1 .. Len(connections)
      /\ old.id = id
      /\ old \in Connection
      /\ connections' \in Seq(Connection)
      /\ IsInverse(connections, mapping)'
      /\ Conns' = Conns \ {old}
  BY <1>1, RemoveIndexed DEF Remove, RegistryInv, Conns
<1>3. old \in Conns
  BY <1>2 DEF Conns, Elements
<1>4. old.user \in Usernames \cup {NoUser}
  BY <1>2 DEF Connection
<1>5. perUserConns' = removeUserConnection(perUserConns, old.user)
  BY DEF Remove
<1>6. /\ mapping' \in [DOMAIN mapping' -> Nat \ {0}]
      /\ DOMAIN mapping' = DOMAIN mapping \ {id}
  <2>1. Len(connections) \in Nat /\ idx \in Nat \ {0}
    BY <1>2 DEF RegistryInv
  <2>2. CASE idx = Len(connections)
    BY <2>2 DEF Remove, MapDelete, RegistryInv
  <2>3. CASE idx # Len(connections)
    <3>0. Len(connections) \in 1 .. Len(connections)
      BY <1>2, <2>1
    <3>1. /\ connections[Len(connections)].id \in DOMAIN mapping
          /\ connections[Len(connections)].id # id
      <4>1. /\ connections[Len(connections)].id \in DOMAIN mapping
            /\ mapping[connections[Len(connections)].id] = Len(connections)
        BY <3>0 DEF RegistryInv, IsInverse
      <4> QED
        BY <4>1, <2>3
    <3> QED
      BY <2>1, <2>3, <3>1 DEF Remove, MapPut, MapDelete, RegistryInv
  <2> QED
    BY <2>2, <2>3
<1> HIDE DEF idx, old
<1>7. /\ IsFiniteSet(Conns \ {old})
      /\ CountsOK(perUserConns')
      /\ Counted(Conns \ {old}, perUserConns')
  BY <1>3, <1>4, <1>5, CountRemove DEF RegistryInv
<1>8. Limited(Conns \ {old})
  BY LimitSubset DEF RegistryInv
<1>9. RegistryInv'
  BY <1>2, <1>6, <1>7, <1>8 DEF RegistryInv, CountsOK, Counted, Limited
<1>10. SSHInv'
  BY DEF Remove, SSHInv, sshVars, IsInverse
<1>11. NetInv'
  BY <1>6 DEF Remove, NetInv, sshVars
<1> QED
  BY <1>9, <1>10, <1>11

\* A step that leaves the connections alone leaves RegistryInv alone.
LEMMA RegistryUnchanged ==
    ASSUME RegistryInv, UNCHANGED regVars
    PROVE  RegistryInv'
<1>1. /\ connections' = connections
      /\ mapping' = mapping
      /\ perUserConns' = perUserConns
      /\ Conns' = Conns
  BY DEF regVars, Conns
<1>2. IsInverse(connections, mapping)'
  BY <1>1 DEF RegistryInv, IsInverse
<1>3. CountsOK(perUserConns)' /\ Counted(Conns, perUserConns)' /\ Limited(Conns)'
  BY <1>1 DEF RegistryInv, CountsOK, Counted, Limited
<1> QED
  BY <1>1, <1>2, <1>3 DEF RegistryInv

\* A step that leaves the SSH connections alone leaves SSHInv alone.
LEMMA SSHUnchanged ==
    ASSUME SSHInv, UNCHANGED sshVars
    PROVE  SSHInv'
BY DEF SSHInv, sshVars, IsInverse

\* The SSH connections are indexed the same way.
LEMMA AddSSHInv ==
    ASSUME IInv, NEW s \in SSHIDs, AddSSHConnection(s)
    PROVE  IInv'
<1> USE DEF IInv
<1>1. [id |-> s] \in SSHConnection /\ [id |-> s].id = s
  BY DEF SSHConnection
<1>2. s \notin DOMAIN sshMapping
  BY DEF AddSSHConnection, Unused
<1>3. /\ sshConnections' \in Seq(SSHConnection)
      /\ IsInverse(sshConnections, sshMapping)'
  BY <1>1, <1>2, AppendIndexed DEF AddSSHConnection, SSHInv
<1>4. /\ sshMapping' \in [DOMAIN sshMapping' -> Nat \ {0}]
      /\ DOMAIN sshMapping' = DOMAIN sshMapping \cup {s}
  <2>1. Len(sshConnections) + 1 \in Nat \ {0}
    BY DEF SSHInv
  <2> QED
    BY <2>1 DEF AddSSHConnection, MapPut, SSHInv
<1>5. NetInv'
  BY <1>4 DEF AddSSHConnection, NetInv, regVars, netVars
<1> QED
  BY <1>3, <1>4, <1>5, RegistryUnchanged DEF AddSSHConnection, SSHInv

\* RemoveSSHConnection moves the last SSH connection into the gap.
LEMMA RemoveSSHInv ==
    ASSUME IInv, NEW s \in SSHIDs, RemoveSSHConnection(s)
    PROVE  IInv'
<1> USE DEF IInv
<1> DEFINE idx == sshMapping[s]
           last == Len(sshConnections)
<1>1. s \in DOMAIN sshMapping
  BY DEF RemoveSSHConnection
<1>2. /\ idx \in 1 .. last
      /\ sshConnections' \in Seq(SSHConnection)
      /\ IsInverse(sshConnections, sshMapping)'
  BY <1>1, RemoveIndexed DEF RemoveSSHConnection, SSHInv
<1>3. /\ sshMapping' \in [DOMAIN sshMapping' -> Nat \ {0}]
      /\ DOMAIN sshMapping' = DOMAIN sshMapping \ {s}
  <2>1. last \in Nat /\ idx \in Nat \ {0}
    BY <1>2 DEF SSHInv
  <2>2. CASE idx = last
    BY <2>2 DEF RemoveSSHConnection, MapDelete, SSHInv
  <2>3. CASE idx # last
    <3>1. last \in 1 .. last
      BY <1>2, <2>1
    <3>2. /\ sshConnections[last].id \in DOMAIN sshMapping
          /\ sshMapping[sshConnections[last].id] = last
      BY <3>1 DEF SSHInv, IsInverse
    <3>3. sshConnections[last].id # s
      BY <3>2, <2>3
    <3> QED
      BY <2>1, <2>3, <3>2, <3>3 DEF RemoveSSHConnection, MapPut, MapDelete, SSHInv
  <2> QED
    BY <2>2, <2>3
<1>4. ChannelsOf(s) \subseteq DOMAIN mapping
  BY DEF ChannelsOf
<1>5. NetInv'
  BY <1>3, <1>4 DEF RemoveSSHConnection, NetInv, regVars
<1> QED
  BY <1>2, <1>3, <1>5, RegistryUnchanged DEF RemoveSSHConnection, SSHInv

\* Every step keeps the registry consistent.
LEMMA NextIInv == IInv /\ [Next]_vars => IInv'
<1> SUFFICES ASSUME IInv, [Next]_vars
             PROVE  IInv'
  OBVIOUS
<1>1. ASSUME NEW id \in FTPIDs, ClientConnected(id)
      PROVE  IInv'
  <2>1. [id |-> id, user |-> NoUser, maxSessions |-> 0] \in Connection
    BY DEF Connection, ConnIDs
  <2> QED
    BY <1>1, <2>1, AddInv DEF ClientConnected
<1>2. ASSUME NEW id \in ChannelIDs, NEW user \in Usernames, NEW limit \in SessionLimits,
             ChannelOpened(id, user, limit)
      PROVE  IInv'
  <2>1. [id |-> id, user |-> user, maxSessions |-> limit] \in Connection
    BY DEF Connection, ConnIDs
  <2> QED
    BY <1>2, <2>1, AddInv DEF ChannelOpened
<1>3. ASSUME NEW id \in FTPIDs, NEW user \in Usernames, NEW limit \in SessionLimits,
             UserAuthenticated(id, user, limit)
      PROVE  IInv'
  <2>1. [id |-> id, user |-> user, maxSessions |-> limit] \in Connection
    BY DEF Connection, ConnIDs
  <2> QED
    BY <1>3, <2>1, SwapInv DEF UserAuthenticated
<1>4. ASSUME NEW id \in ConnIDs, Close(id)
      PROVE  IInv'
  <2>1. NetInv'
    BY <1>4 DEF Close, IInv, NetInv, regVars, sshVars
  <2> QED
    BY <1>4, <2>1, RegistryUnchanged, SSHUnchanged DEF IInv, Close
<1>5. CASE checkIdles
  <2>1. overdue \subseteq DOMAIN mapping \cup DOMAIN sshMapping
    BY DEF IInv, NetInv
  <2>2. \A c \in Conns : c.id \in ConnIDs
    BY ConnectionFields DEF IInv, RegistryInv, Conns, Elements
  <2>3. DOMAIN sshMapping \subseteq SSHIDs
    <3>1. \A i \in 1 .. Len(sshConnections) : sshConnections[i] \in SSHConnection
      BY DEF IInv, SSHInv
    <3>2. \A r \in SSHConnection : r.id \in SSHIDs
      BY DEF SSHConnection
    <3> QED
      BY <3>1, <3>2 DEF IInv, SSHInv, IsInverse
  <2>4. NetInv'
    BY <1>5, <2>2, <2>3 DEF checkIdles, idleSSHConnections, IInv, NetInv, regVars, sshVars
  <2> QED
    BY <1>5, <2>4, RegistryUnchanged, SSHUnchanged DEF IInv, checkIdles
<1>6. ASSUME NEW id \in ConnIDs \cup SSHIDs, Disconnect(id) \/ Timeout(id) \/ UpdateLastActivity(id)
      PROVE  IInv'
  <2>1. NetInv'
    BY <1>6 DEF Disconnect, Timeout, UpdateLastActivity, ChannelsOf, IInv, NetInv, regVars, sshVars
  <2> QED
    BY <1>6, <2>1, RegistryUnchanged, SSHUnchanged
    DEF IInv, Disconnect, Timeout, UpdateLastActivity
<1>7. CASE UNCHANGED vars
  <2>1. NetInv'
    BY <1>7 DEF IInv, NetInv, vars, regVars, sshVars, netVars
  <2> QED
    BY <1>7, <2>1, RegistryUnchanged, SSHUnchanged DEF IInv, vars
<1> QED
  BY <1>1, <1>2, <1>3, <1>4, <1>5, <1>6, <1>7, RemoveInv, AddSSHInv, RemoveSSHInv DEF Next

\* The invariant holds of every reachable state.
LEMMA SpecIInv == Spec => []IInv
BY InitIInv, NextIInv, PTL DEF Spec

-------------------------------------------------------------------------------
\* Every reachable registry is well typed: ActiveConnections never keeps a
\* counter for a user without connections, nor an index of 0.
THEOREM TypeCorrect == Spec => []TypeOK
<1>1. IInv => TypeOK
  BY DEF IInv, RegistryInv, SSHInv, NetInv, CountsOK, TypeOK
<1> QED
  BY <1>1, SpecIInv, PTL

\* For any number of clients, users and limits, Add, Swap and Remove keep
\* mapping and sshMapping the exact inverses of the slices they index.
THEOREM MappingCorrect == Spec => []MappingInverse
<1>1. IInv => MappingInverse
  BY DEF IInv, RegistryInv, SSHInv, MappingInverse
<1> QED
  BY <1>1, SpecIInv, PTL

\* The incremental perUserConns of Add, Swap and Remove is always the number of
\* connections of each user.
THEOREM SessionCountCorrect == Spec => []SessionCount
<1>1. IInv => SessionCount
  BY DEF IInv, RegistryInv, Counted, SessionCount, SessionsOf
<1> QED
  BY <1>1, SpecIInv, PTL

\* No order of connections, logins and disconnections exceeds MaxSessions.
THEOREM SessionLimitCorrect == Spec => []SessionsWithinLimit
<1>1. IInv => SessionsWithinLimit
  BY DEF IInv, RegistryInv, Limited, SessionsWithinLimit, SessionsOf
<1> QED
  BY <1>1, SpecIInv, PTL
===============================================================================
