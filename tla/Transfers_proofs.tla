--------------------------- MODULE Transfers_proofs ---------------------------
(***************************************************************************)
(* The types of Transfers, and that the checker's list has exactly one     *)
(* entry for every transfer it has to watch.                               *)
(***************************************************************************)
EXTENDS Transfers, FiniteSetTheorems, SequenceTheorems, TLAPS

\* The user and the protocol of a transfer, from the configuration of the
\* connections.
LEMMA UserType ==
    ASSUME NEW t \in Transfers
    PROVE  user(t) \in Users /\ protocol(t) \in Protocols
BY ConstantsAssumption DEF user, protocol

\* What checkUserQuota returns: integers, negative when the quota is exceeded.
LEMMA AllowedType ==
    ASSUME TypeOK, NEW u \in Users
    PROVE  /\ allowedData(u) \in [total : Int, ul : Int, dl : Int]
           /\ limits[u].size \in Nat
<1>1. limits[u] \in [size : Nat, total : Nat, ul : Nat, dl : Nat]
  BY ConstantsAssumption DEF TypeOK
<1>2. usedData[u] \in [ul : Nat, dl : Nat]
  BY DEF TypeOK
<1> QED
  BY <1>1, <1>2 DEF allowedData, remaining

\* The write limit of an upload is an integer.
LEMMA MaxType ==
    ASSUME TypeOK, NEW t \in Transfers, NEW n \in Nat
    PROVE  maxWriteSize(t, n) \in Int
<1>1. user(t) \in Users /\ limits[user(t)].size \in Nat /\ usedSize[user(t)] \in Int
  BY UserType, AllowedType DEF TypeOK
<1> QED
  BY <1>1 DEF maxWriteSize, GetMaxWriteSize, addOverwritten, remaining

\* Replacing the state of one transfer.
LEMMA TransferUpdate ==
    ASSUME transfers \in [Transfers -> TransferStates], NEW t \in Transfers,
           NEW x \in TransferStates, transfers' = [transfers EXCEPT ![t] = x]
    PROVE  /\ transfers' \in [Transfers -> TransferStates]
           /\ transfers'[t] = x
           /\ \A y \in Transfers \ {t} : transfers'[y] = transfers[y]
OBVIOUS

\* An entry of the list, for a size a transfer can have.
LEMMA EntryType ==
    ASSUME NEW t \in Transfers, NEW n \in Nat
    PROVE  entry(t, n) \in Entries /\ entry(t, n).transfer = t
BY DEF entry, Entries

\* The entries with the id and the connection of a transfer are its own.
LEMMA EntriesOf ==
    ASSUME list \in Seq(Entries), NEW t \in Transfers
    PROVE  entriesOf(t) = {i \in 1 .. Len(list) : list[i].transfer = t}
<1>1. ASSUME NEW i \in 1 .. Len(list)
      PROVE  idOf[list[i].transfer] = idOf[t] /\ connOf[list[i].transfer] = connOf[t]
               <=> list[i].transfer = t
  <2>1. list[i] \in Entries
    OBVIOUS
  <2>2. list[i].transfer \in Transfers
    BY <2>1 DEF Entries
  <2>3. \A x, y \in Transfers : connOf[x] = connOf[y] /\ idOf[x] = idOf[y] => x = y
    BY ConstantsAssumption
  <2> QED
    BY <2>2, <2>3, Zenon
<1> QED
  BY <1>1 DEF entriesOf

-------------------------------------------------------------------------------
(* The list *)

\* An index of s for each of its transfers, and only one.
Unique(s) == \A i, j \in 1 .. Len(s) : s[i].transfer = s[j].transfer => i = j

inList(s) == {s[i].transfer : i \in 1 .. Len(s)}

\* The entries are about transfers.
LEMMA InListType ==
    ASSUME NEW s \in Seq(Entries)
    PROVE  inList(s) \subseteq Transfers
<1>1. \A i \in 1 .. Len(s) : s[i] \in Entries
  OBVIOUS
<1> QED
  BY <1>1 DEF inList, Entries

\* AddTransfer of the checker, for a transfer that has no entry.
LEMMA AppendEntry ==
    ASSUME NEW s \in Seq(Entries), Unique(s), NEW e \in Entries, e.transfer \notin inList(s)
    PROVE  /\ Append(s, e) \in Seq(Entries)
           /\ Unique(Append(s, e))
           /\ inList(Append(s, e)) = inList(s) \cup {e.transfer}
<1> DEFINE a == Append(s, e)
<1>1. /\ a \in Seq(Entries)
      /\ Len(a) = Len(s) + 1
      /\ a[Len(s) + 1] = e
      /\ \A i \in 1 .. Len(s) : a[i] = s[i]
  OBVIOUS
<1>2. 1 .. Len(a) = (1 .. Len(s)) \cup {Len(s) + 1} /\ Len(s) \in Nat
  BY <1>1
<1> HIDE DEF a
<1>3. Unique(a)
  BY <1>1, <1>2 DEF Unique, inList
<1>4. inList(a) = inList(s) \cup {e.transfer}
  BY <1>1, <1>2 DEF inList
<1> QED
  BY <1>1, <1>3, <1>4 DEF a

\* RemoveTransfer of the checker: the last entry moves into the hole, and only
\* the transfer of the removed entry leaves.
LEMMA RemoveEntry ==
    ASSUME NEW s \in Seq(Entries), Unique(s), NEW k \in 1 .. Len(s)
    PROVE  /\ SwapRemove(s, k) \in Seq(Entries)
           /\ Unique(SwapRemove(s, k))
           /\ inList(SwapRemove(s, k)) = inList(s) \ {s[k].transfer}
<1> DEFINE r == SwapRemove(s, k)
<1>1. Len(s) \in Nat \ {0} /\ s[k] \in Entries /\ s[Len(s)] \in Entries
  OBVIOUS
<1>2. \A j \in 1 .. (Len(s) - 1) : (IF j = k THEN s[Len(s)] ELSE s[j]) \in Entries
  BY <1>1
<1>3. /\ r \in Seq(Entries)
      /\ Len(r) = Len(s) - 1
      /\ \A j \in 1 .. (Len(s) - 1) : r[j] = IF j = k THEN s[Len(s)] ELSE s[j]
  BY <1>1, <1>2 DEF SwapRemove
<1> HIDE DEF r
<1>4. Unique(r)
  BY <1>1, <1>3 DEF Unique
<1>5. inList(r) = inList(s) \ {s[k].transfer}
  <2>1. ASSUME NEW j \in 1 .. Len(r)
        PROVE  r[j].transfer \in inList(s) \ {s[k].transfer}
    <3>1. PICK i \in 1 .. Len(s) : i # k /\ r[j] = s[i]
      <4>1. CASE j = k
        BY <1>1, <1>3, <4>1
      <4>2. CASE j # k
        BY <1>1, <1>3, <4>2
      <4> QED
        BY <4>1, <4>2
    <3>2. s[i].transfer # s[k].transfer
      BY <3>1 DEF Unique
    <3> QED
      BY <3>1, <3>2 DEF inList
  <2>2. ASSUME NEW j \in 1 .. Len(s), s[j].transfer # s[k].transfer
        PROVE  s[j].transfer \in inList(r)
    <3>1. CASE j = Len(s)
      BY <1>1, <1>3, <2>2, <3>1 DEF inList
    <3>2. CASE j # Len(s)
      BY <1>1, <1>3, <2>2, <3>2 DEF inList
    <3> QED
      BY <3>1, <3>2
  <2> QED
    BY <2>1, <2>2 DEF inList
<1> QED
  BY <1>3, <1>4, <1>5 DEF r

\* UpdateTransferCurrentSizes: the entry keeps its transfer.
LEMMA ReplaceEntry ==
    ASSUME NEW s \in Seq(Entries), Unique(s), NEW k \in 1 .. Len(s),
           NEW e \in Entries, e.transfer = s[k].transfer
    PROVE  /\ ReplaceAt(s, k, e) \in Seq(Entries)
           /\ Unique(ReplaceAt(s, k, e))
           /\ inList(ReplaceAt(s, k, e)) = inList(s)
<1> DEFINE r == ReplaceAt(s, k, e)
<1>1. /\ r \in Seq(Entries)
      /\ Len(r) = Len(s)
      /\ \A j \in 1 .. Len(s) : r[j] = IF j = k THEN e ELSE s[j]
  BY DEF ReplaceAt
<1> HIDE DEF r
<1>2. \A j \in 1 .. Len(s) : r[j].transfer = s[j].transfer
  BY <1>1
<1> QED
  BY <1>1, <1>2 DEF Unique, inList, r

\* In a list without duplicates the entry of a transfer is the one entriesOf
\* finds.
LEMMA FoundEntry ==
    ASSUME list \in Seq(Entries), Unique(list), NEW t \in Transfers
    PROVE  /\ entriesOf(t) = {} <=> t \notin inList(list)
           /\ entriesOf(t) # {} => /\ Min(entriesOf(t)) \in 1 .. Len(list)
                                   /\ list[Min(entriesOf(t))].transfer = t
<1>1. entriesOf(t) = {i \in 1 .. Len(list) : list[i].transfer = t}
  BY EntriesOf
<1>2. ASSUME NEW k \in entriesOf(t)
      PROVE  Min(entriesOf(t)) = k
  <2>1. entriesOf(t) = {k} /\ k \in Int
    BY <1>1, <1>2 DEF Unique
  <2>2. Min({k}) = k
    BY <2>1 DEF Min
  <2> QED
    BY <2>1, <2>2
<1> QED
  BY <1>1, <1>2 DEF inList

-------------------------------------------------------------------------------
(* The inductive invariant *)

Opened == {"open", "stopped", "counted", "closed"}

\* An entry is added once, after the transfer was opened, and removed only after
\* it was closed; a transfer that has neither an entry nor a pending AddTransfer
\* is unlimited, not yet open, or closed.
IInv ==
    /\ TypeOK
    /\ Unique(list)
    /\ \A t \in inList(list) : transfers[t].stage \in Opened /\ <<"add", t>> \notin goroutines
    /\ \A t \in Transfers :
         /\ <<"add", t>> \in goroutines => transfers[t].stage \in Opened
         /\ <<"remove", t>> \in goroutines => transfers[t].stage = "closed"
         /\ isActive(t) /\ HasSizeLimit(t) => <<"add", t>> \in goroutines \/ t \in inList(list)

\* At the start nothing is open and the list is empty.
LEMMA InitIInv == Init => IInv
<1> SUFFICES ASSUME Init PROVE IInv
  OBVIOUS
<1>1. NewTransfer \in TransferStates /\ NewTransfer.stage = "new"
  BY ConstantsAssumption DEF NewTransfer, TransferStates, Stages
<1>2. TypeOK
  BY <1>1, ConstantsAssumption DEF Init, TypeOK, Idle, CheckStates
<1>3. Unique(list) /\ inList(list) = {}
  BY DEF Init, Unique, inList
<1>4. \A t \in Transfers : ~ isActive(t)
  BY <1>1 DEF Init, isActive
<1> QED
  BY <1>2, <1>3, <1>4 DEF IInv, Init

\* A step that leaves the list alone, moves one transfer on and keeps its limits
\* once it is open.
LEMMA TransferStep ==
    ASSUME IInv, TypeOK', UNCHANGED list, NEW t \in Transfers,
           \A x \in Transfers \ {t} : transfers'[x] = transfers[x],
           transfers[t].stage \in Opened => /\ transfers'[t].stage \in Opened
                                            /\ transfers'[t].max = transfers[t].max
                                            /\ transfers'[t].allowed = transfers[t].allowed,
           transfers[t].stage = "closed" => transfers'[t].stage = "closed",
           isActive(t)' => isActive(t) \/ ~ HasSizeLimit(t)' \/ <<"add", t>> \in goroutines',
           \/ UNCHANGED goroutines
           \/ /\ goroutines' = goroutines \cup {<<"add", t>>}
              /\ transfers[t].stage \notin Opened /\ transfers'[t].stage \in Opened
           \/ /\ goroutines' = goroutines \cup {<<"remove", t>>}
              /\ transfers'[t].stage = "closed"
    PROVE  IInv'
<1>1. inList(list)' = inList(list) /\ Unique(list)'
  BY DEF IInv, inList, Unique
<1>2. inList(list) \subseteq Transfers
  BY InListType DEF IInv, TypeOK
<1>3. ASSUME NEW x \in inList(list)'
      PROVE  transfers'[x].stage \in Opened /\ <<"add", x>> \notin goroutines'
  BY <1>1, <1>2, <1>3 DEF IInv
<1>4. ASSUME NEW x \in Transfers
      PROVE  /\ <<"add", x>> \in goroutines' => transfers'[x].stage \in Opened
             /\ <<"remove", x>> \in goroutines' => transfers'[x].stage = "closed"
  BY DEF IInv, Opened
<1>5. ASSUME NEW x \in Transfers, isActive(x)', HasSizeLimit(x)'
      PROVE  <<"add", x>> \in goroutines' \/ x \in inList(list)'
  <2>1. CASE x # t
    <3>1. isActive(x) /\ HasSizeLimit(x)
      BY <1>5, <2>1 DEF isActive, HasSizeLimit
    <3> QED
      BY <1>1, <3>1 DEF IInv
  <2>2. CASE x = t /\ <<"add", t>> \notin goroutines'
    <3>1. isActive(t) /\ HasSizeLimit(t)
      BY <1>5, <2>2 DEF isActive, HasSizeLimit, Opened
    <3> QED
      BY <1>1, <2>2, <3>1 DEF IInv
  <2> QED
    BY <2>1, <2>2
<1> QED
  BY <1>1, <1>3, <1>4, <1>5 DEF IInv

-------------------------------------------------------------------------------
(* The actions *)

\* An upload or a download that passes the quota checks is not open yet.
LEMMA CheckStepIInv ==
    ASSUME IInv, NEW t \in Transfers,
           (\E n \in fileSizes[t] : checkUpload(t, n)) \/ checkDownload(t)
    PROVE  IInv'
<1>t. TypeOK /\ transfers[t] \in TransferStates /\ user(t) \in Users
  BY UserType DEF IInv, TypeOK
<1>1. PICK x \in TransferStates : x.stage = "allowed" /\ transfers' = [transfers EXCEPT ![t] = x]
  <2>a. allowedData(user(t)) \in [total : Int, ul : Int, dl : Int]
    BY <1>t, AllowedType
  <2>1. CASE checkDownload(t)
    <3> DEFINE x == [transfers[t] EXCEPT !.stage = "allowed", !.type = "download",
                                         !.allowed = allowedData(user(t))]
    <3>1. x \in TransferStates /\ x.stage = "allowed"
      BY <1>t, <2>a DEF TransferStates, Stages
    <3>2. transfers' = [transfers EXCEPT ![t] = x]
      BY <1>t, <2>1 DEF checkDownload, TypeOK
    <3> QED
      BY <3>1, <3>2
  <2>2. ASSUME NEW n \in fileSizes[t], checkUpload(t, n)
        PROVE  \E x \in TransferStates : x.stage = "allowed" /\ transfers' = [transfers EXCEPT ![t] = x]
    <3> DEFINE x == [transfers[t] EXCEPT !.stage = "allowed", !.fileSize = n,
                                         !.max = maxWriteSize(t, n), !.allowed = allowedData(user(t))]
    <3>0. n \in Nat /\ maxWriteSize(t, n) \in Int
      BY <1>t, <2>2, MaxType, ConstantsAssumption
    <3>1. x \in TransferStates /\ x.stage = "allowed"
      BY <1>t, <2>a, <3>0 DEF TransferStates, Stages
    <3>2. transfers' = [transfers EXCEPT ![t] = x]
      BY <1>t, <2>2 DEF checkUpload, TypeOK
    <3> QED
      BY <3>1, <3>2
  <2> QED
    BY <2>1, <2>2
<1>2. /\ transfers[t].stage = "new"
      /\ UNCHANGED <<limits, connections, usedSize, usedData, list, goroutines, check>>
  BY DEF checkUpload, checkDownload
<1>3. /\ transfers' \in [Transfers -> TransferStates]
      /\ transfers'[t].stage = "allowed"
      /\ \A y \in Transfers \ {t} : transfers'[y] = transfers[y]
  BY <1>t, <1>1 DEF TypeOK
<1>4. TypeOK'
  BY <1>t, <1>2, <1>3 DEF TypeOK
<1> QED
  BY <1>2, <1>3, <1>4, TransferStep DEF Opened, isActive

\* open adds the goroutine that will list a limited transfer.
LEMMA OpenIInv ==
    ASSUME IInv, NEW t \in Transfers, open(t)
    PROVE  IInv'
<1>t. TypeOK /\ transfers[t] \in TransferStates /\ user(t) \in Users
  BY UserType DEF IInv, TypeOK
<1> DEFINE x == [transfers[t] EXCEPT !.stage = "open"]
<1>1. x \in TransferStates /\ x.stage = "open" /\ x.max = transfers[t].max /\ x.allowed = transfers[t].allowed
  BY <1>t DEF TransferStates, Stages
<1>2. transfers' = [transfers EXCEPT ![t] = x]
  BY <1>t DEF open, TypeOK
<1>3. transfers[t].stage = "allowed" /\ UNCHANGED <<limits, connections, usedData, list, check>>
  BY DEF open
<1> HIDE DEF x
<1>4. /\ transfers' \in [Transfers -> TransferStates]
      /\ transfers'[t] = x
      /\ \A y \in Transfers \ {t} : transfers'[y] = transfers[y]
  BY <1>t, <1>1, <1>2 DEF TypeOK
<1>5. usedSize' \in [Users -> Int]
  BY <1>t DEF open, TypeOK, TransferStates
<1>6. goroutines' \subseteq {"add", "remove"} \X Transfers
  BY <1>t DEF open, spawn, TypeOK
<1>7. TypeOK'
  BY <1>t, <1>3, <1>4, <1>5, <1>6 DEF TypeOK
<1>8. HasSizeLimit(t)' <=> HasSizeLimit(t)
  BY <1>1, <1>4 DEF HasSizeLimit
<1> QED
  BY <1>1, <1>3, <1>4, <1>7, <1>8, TransferStep DEF open, spawn, Opened, isActive

\* Reads, writes and aborts change neither the limits nor the list.
LEMMA MoveIInv ==
    ASSUME IInv, NEW t \in Transfers, abort(t) \/ move(t)
    PROVE  IInv'
<1>t. TypeOK /\ transfers[t] \in TransferStates
  BY DEF IInv, TypeOK
<1>1. PICK x \in TransferStates : /\ x.stage \in {"open", "stopped"}
                                 /\ x.max = transfers[t].max /\ x.allowed = transfers[t].allowed
                                 /\ transfers' = [transfers EXCEPT ![t] = x]
  <2>1. CASE abort(t)
    <3> DEFINE x == [transfers[t] EXCEPT !.stage = "stopped", !.failed = protocol(t) = "HTTP"]
    <3>1. /\ x \in TransferStates
          /\ x.stage = "stopped" /\ x.max = transfers[t].max /\ x.allowed = transfers[t].allowed
      BY <1>t DEF TransferStates, Stages
    <3>2. transfers' = [transfers EXCEPT ![t] = x]
      BY <1>t, <2>1 DEF abort, TypeOK
    <3> QED
      BY <3>1, <3>2
  <2>2. CASE move(t)
    <3> DEFINE m == [transfers[t] EXCEPT !.bytes = @ + 1]
               f == [m EXCEPT !.stage = "stopped", !.failed = TRUE]
               x == IF isOver(m) THEN f ELSE m
    <3>1. /\ m \in TransferStates
          /\ m.stage = "open" /\ m.max = transfers[t].max /\ m.allowed = transfers[t].allowed
      BY <1>t, <2>2, ConstantsAssumption DEF move, TransferStates, Stages
    <3>2. /\ f \in TransferStates
          /\ f.stage = "stopped" /\ f.max = m.max /\ f.allowed = m.allowed
      BY <3>1 DEF TransferStates, Stages
    <3>3. transfers' = [transfers EXCEPT ![t] = x]
      BY <2>2 DEF move
    <3> QED
      BY <3>1, <3>2, <3>3
  <2> QED
    BY <2>1, <2>2
<1>2. /\ transfers[t].stage = "open"
      /\ UNCHANGED <<limits, connections, usedSize, usedData, list, goroutines, check>>
  BY DEF abort, move
<1>3. /\ transfers' \in [Transfers -> TransferStates]
      /\ transfers'[t] = x
      /\ \A y \in Transfers \ {t} : transfers'[y] = transfers[y]
  BY <1>t, <1>1 DEF TypeOK
<1>4. TypeOK'
  BY <1>t, <1>2, <1>3 DEF TypeOK
<1> QED
  BY <1>1, <1>2, <1>3, <1>4, TransferStep DEF Opened, isActive

\* Close updates the quotas and keeps the limits.
LEMMA CloseIInv ==
    ASSUME IInv, NEW t \in Transfers, Close(t)
    PROVE  IInv'
<1>t. TypeOK /\ transfers[t] \in TransferStates /\ user(t) \in Users
  BY UserType DEF IInv, TypeOK
<1> DEFINE isRemoved == transfers[t].type = "upload" /\ transfers[t].failed /\ hasTruncate[t]
           n == IF isRemoved THEN 0 ELSE transfers[t].bytes
           x == [transfers[t] EXCEPT !.stage = "counted", !.bytes = n]
<1>0. transfers[t].bytes \in 0 .. MaxBytes /\ MaxBytes \in Nat
  BY <1>t, ConstantsAssumption DEF TransferStates
<1>n. n \in 0 .. MaxBytes
  BY <1>0
<1>2. transfers' = [transfers EXCEPT ![t] = x]
  BY <1>t DEF Close, TypeOK
<1> HIDE DEF n
<1>1. x \in TransferStates /\ x.stage = "counted" /\ x.max = transfers[t].max /\ x.allowed = transfers[t].allowed
  BY <1>t, <1>n DEF TransferStates, Stages
<1>3. /\ transfers[t].stage \in {"open", "stopped"}
      /\ UNCHANGED <<limits, connections, list, goroutines, check>>
  BY DEF Close
<1> HIDE DEF x
<1>4. /\ transfers' \in [Transfers -> TransferStates]
      /\ transfers'[t] = x
      /\ \A y \in Transfers \ {t} : transfers'[y] = transfers[y]
  BY <1>t, <1>1, <1>2 DEF TypeOK
<1>5. transfers[t].bytes \in Nat /\ truncatedSize(t) \in Nat
  BY <1>t, ConstantsAssumption DEF TransferStates, truncatedSize
<1>6. usedSize' \in [Users -> Int]
  BY <1>t, <1>5 DEF Close, TypeOK
<1>7. usedData' \in [Users -> [ul : Nat, dl : Nat]]
  <2> DEFINE d == usedData[user(t)]
             b == transfers[t].bytes
  <2>1. d \in [ul : Nat, dl : Nat] /\ b \in Nat
    BY <1>t, <1>5 DEF TypeOK
  <2>2. /\ [d EXCEPT !.ul = @ + b] \in [ul : Nat, dl : Nat]
        /\ [d EXCEPT !.dl = @ + b] \in [ul : Nat, dl : Nat]
    BY <2>1
  <2>3. PICK y \in [ul : Nat, dl : Nat] : usedData' = [usedData EXCEPT ![user(t)] = y]
    <3>1. \/ usedData' = usedData
          \/ usedData' = [usedData EXCEPT ![user(t)] = [d EXCEPT !.ul = @ + b]]
          \/ usedData' = [usedData EXCEPT ![user(t)] = [d EXCEPT !.dl = @ + b]]
      BY <1>t DEF Close, TypeOK
    <3>2. usedData = [usedData EXCEPT ![user(t)] = d]
      BY <1>t DEF TypeOK
    <3> QED
      BY <2>1, <2>2, <3>1, <3>2
  <2> QED
    BY <1>t, <2>3 DEF TypeOK
<1>8. TypeOK'
  BY <1>t, <1>3, <1>4, <1>6, <1>7 DEF TypeOK
<1> QED
  BY <1>1, <1>3, <1>4, <1>8, TransferStep DEF Opened, isActive

\* RemoveTransfer of the connection spawns the removal of the entry.
LEMMA RemoveTransferIInv ==
    ASSUME IInv, NEW t \in Transfers, RemoveTransfer(t)
    PROVE  IInv'
<1>t. TypeOK /\ transfers[t] \in TransferStates
  BY DEF IInv, TypeOK
<1> DEFINE x == [transfers[t] EXCEPT !.stage = "closed"]
<1>1. x \in TransferStates /\ x.stage = "closed" /\ x.max = transfers[t].max /\ x.allowed = transfers[t].allowed
  BY <1>t DEF TransferStates, Stages
<1>2. transfers' = [transfers EXCEPT ![t] = x]
  BY <1>t DEF RemoveTransfer, TypeOK
<1>3. /\ transfers[t].stage = "counted"
      /\ UNCHANGED <<limits, connections, usedSize, usedData, list, check>>
  BY DEF RemoveTransfer
<1> HIDE DEF x
<1>4. /\ transfers' \in [Transfers -> TransferStates]
      /\ transfers'[t] = x
      /\ \A y \in Transfers \ {t} : transfers'[y] = transfers[y]
  BY <1>t, <1>1, <1>2 DEF TypeOK
<1>5. goroutines' \subseteq {"add", "remove"} \X Transfers
  BY <1>t DEF RemoveTransfer, spawn, TypeOK
<1>6. TypeOK'
  BY <1>t, <1>3, <1>4, <1>5 DEF TypeOK
<1> QED
  BY <1>1, <1>3, <1>4, <1>6, TransferStep DEF RemoveTransfer, spawn, Opened, isActive

\* A step of the checker that adds, removes or updates an entry.
LEMMA ListStep ==
    ASSUME IInv, TypeOK', UNCHANGED transfers, Unique(list'), goroutines' \subseteq goroutines,
           \A t \in inList(list') : /\ transfers[t].stage \in Opened
                                   /\ <<"add", t>> \notin goroutines',
           \A t \in Transfers : isActive(t) /\ (<<"add", t>> \in goroutines \/ t \in inList(list))
                                 => <<"add", t>> \in goroutines' \/ t \in inList(list')
    PROVE  IInv'
<1>1. \A t \in Transfers : (isActive(t)' <=> isActive(t)) /\ (HasSizeLimit(t)' <=> HasSizeLimit(t))
  BY DEF isActive, HasSizeLimit
<1>2. Unique(list)' /\ inList(list)' = inList(list')
  BY DEF Unique, inList
<1> QED
  BY <1>1, <1>2 DEF IInv

\* AddTransfer of the checker: the transfer has no entry yet.
LEMMA CheckerAddIInv ==
    ASSUME IInv, NEW t \in Transfers, checkerAdd(t)
    PROVE  IInv'
<1> DEFINE e == entry(t, 0)
<1>t. TypeOK /\ Unique(list) /\ list \in Seq(Entries)
  BY DEF IInv, TypeOK
<1>1. e \in Entries /\ e.transfer = t
  BY EntryType
<1>2. /\ <<"add", t>> \in goroutines
      /\ goroutines' = goroutines \ {<<"add", t>>}
      /\ list' = Append(list, e)
      /\ UNCHANGED <<limits, connections, transfers, usedSize, usedData, check>>
  BY DEF checkerAdd
<1> HIDE DEF e
<1>3. t \notin inList(list)
  BY <1>2 DEF IInv
<1>4. list' \in Seq(Entries) /\ Unique(list') /\ inList(list') = inList(list) \cup {t}
  BY <1>t, <1>1, <1>2, <1>3, AppendEntry
<1>5. TypeOK'
  BY <1>t, <1>2, <1>4 DEF TypeOK
<1>6. \A x \in inList(list') : transfers[x].stage \in Opened /\ <<"add", x>> \notin goroutines'
  BY <1>2, <1>4 DEF IInv
<1> QED
  BY <1>2, <1>4, <1>5, <1>6, ListStep

\* RemoveTransfer of the checker: only the entry of a closed transfer leaves.
LEMMA CheckerRemoveIInv ==
    ASSUME IInv, NEW t \in Transfers, checkerRemove(t)
    PROVE  IInv'
<1>t. TypeOK /\ Unique(list) /\ list \in Seq(Entries)
  BY DEF IInv, TypeOK
<1>1. /\ <<"remove", t>> \in goroutines
      /\ goroutines' = goroutines \ {<<"remove", t>>}
      /\ UNCHANGED <<limits, connections, transfers, usedSize, usedData, check>>
  BY DEF checkerRemove
<1>2. list' \in Seq(Entries) /\ Unique(list') /\ inList(list') = inList(list) \ {t}
  <2>1. CASE entriesOf(t) = {}
    BY <1>t, <2>1, FoundEntry DEF checkerRemove
  <2>2. CASE entriesOf(t) # {}
    <3> DEFINE k == Min(entriesOf(t))
    <3>1. k \in 1 .. Len(list) /\ list[k].transfer = t
      BY <1>t, <2>2, FoundEntry
    <3>2. list' = SwapRemove(list, k)
      BY <2>2 DEF checkerRemove
    <3> HIDE DEF k
    <3> QED
      BY <1>t, <3>1, <3>2, RemoveEntry
  <2> QED
    BY <2>1, <2>2
<1>3. TypeOK'
  BY <1>t, <1>1, <1>2 DEF TypeOK
<1>4. ~ isActive(t)
  BY <1>1 DEF IInv, isActive
<1>5. \A x \in inList(list') : transfers[x].stage \in Opened /\ <<"add", x>> \notin goroutines'
  BY <1>1, <1>2 DEF IInv
<1> QED
  BY <1>1, <1>2, <1>3, <1>4, <1>5, ListStep

\* UpdateTransferCurrentSizes: the list keeps its transfers.
LEMMA UpdateSizesIInv ==
    ASSUME IInv, check.pc = "updating", NEW e \in check.updates, updateSizes(e)
    PROVE  IInv'
<1>t. TypeOK /\ Unique(list) /\ list \in Seq(Entries)
  BY DEF IInv, TypeOK
<1>1. check \in [pc : {"updating"}, updates : SUBSET Entries]
  BY <1>t DEF TypeOK, CheckStates
<1>2. e \in Entries /\ e.transfer \in Transfers
  BY <1>1 DEF Entries
<1>3. /\ check' = [check EXCEPT !.updates = @ \ {e}]
      /\ UNCHANGED <<limits, connections, transfers, usedSize, usedData, goroutines>>
  BY DEF updateSizes
<1>4. list' \in Seq(Entries) /\ Unique(list') /\ inList(list') = inList(list)
  <2>1. CASE entriesOf(e.transfer) = {}
    BY <1>t, <2>1 DEF updateSizes
  <2>2. CASE entriesOf(e.transfer) # {}
    <3> DEFINE k == Min(entriesOf(e.transfer))
    <3>1. k \in 1 .. Len(list) /\ list[k].transfer = e.transfer
      BY <1>t, <1>2, <2>2, FoundEntry
    <3>2. list' = ReplaceAt(list, k, e)
      BY <2>2 DEF updateSizes
    <3> HIDE DEF k
    <3> QED
      BY <1>t, <1>2, <3>1, <3>2, ReplaceEntry
  <2> QED
    BY <2>1, <2>2
<1>5. check' \in [pc : {"updating"}, updates : SUBSET Entries]
  BY <1>1, <1>3
<1>6. TypeOK'
  BY <1>t, <1>3, <1>4, <1>5 DEF TypeOK, CheckStates
<1> QED
  BY <1>3, <1>4, <1>6, ListStep DEF IInv

\* A step that leaves the transfers and the list alone: the rest of
\* checkTransfers, and a connection that goes.
LEMMA QuietStep ==
    ASSUME IInv, TypeOK', UNCHANGED <<transfers, list, goroutines>>
    PROVE  IInv'
BY ListStep DEF IInv

\* The start of checkTransfers, where the sizes are read.
LEMMA StartCheckIInv == ASSUME IInv, startCheck PROVE IInv'
<1>t. TypeOK
  BY DEF IInv
<1> DEFINE U == {entry(t, transfers[t].bytes) : t \in {x \in Transfers : isActive(x) /\ HasSizeLimit(x)}}
<1>1. ASSUME NEW t \in Transfers PROVE entry(t, transfers[t].bytes) \in Entries
  <2>1. transfers[t].bytes \in Nat
    BY <1>t, ConstantsAssumption DEF TypeOK, TransferStates
  <2> QED
    BY <2>1, EntryType
<1>2. U \subseteq Entries
  BY <1>1
<1>3. check' = [pc |-> "updating", updates |-> U]
  BY DEF startCheck
<1> HIDE DEF U
<1>4. check' \in CheckStates
  BY <1>2, <1>3 DEF CheckStates
<1>5. UNCHANGED <<limits, connections, transfers, usedSize, usedData, list, goroutines>>
  BY DEF startCheck
<1> QED
  BY <1>t, <1>4, <1>5, QuietStep DEF TypeOK

\* The aggregation, the fetch of the users and its failure.
LEMMA AggregateIInv ==
    ASSUME IInv, aggregate \/ getOverquotaTransfers \/ fetchFails
    PROVE  IInv'
<1>t. TypeOK
  BY DEF IInv
<1>i. Idle \in CheckStates
  BY DEF Idle, CheckStates
<1>1. CASE aggregate
  <2>1. check' = Idle \/ check' = [pc |-> "aggregated", entries |-> list]
    BY <1>1 DEF aggregate
  <2>2. check' \in CheckStates
    BY <1>t, <1>i, <2>1 DEF TypeOK, CheckStates
  <2>3. UNCHANGED <<limits, connections, transfers, usedSize, usedData, list, goroutines>>
    BY <1>1 DEF aggregate
  <2> QED
    BY <1>t, <2>2, <2>3, QuietStep DEF TypeOK
<1>2. CASE getOverquotaTransfers
  <2> DEFINE E == check.entries
             over == UNION {overDisk(E, u) \cup overData(E, u) : u \in usersToFetch(E)}
             found == {E[i].transfer : i \in over}
  <2>1. check \in [pc : {"aggregated"}, entries : Seq(Entries)]
    BY <1>t, <1>2 DEF getOverquotaTransfers, TypeOK, CheckStates
  <2>2. \A i \in 1 .. Len(E) : E[i].transfer \in Transfers
    BY <2>1, InListType DEF inList
  <2>3. over \subseteq 1 .. Len(E)
    BY DEF overDisk, overData, uploadsOfUser, entriesOfUser
  <2>4. check' = Idle \/ check' = [pc |-> "signalling", over |-> found]
    BY <1>2 DEF getOverquotaTransfers
  <2> HIDE DEF over
  <2>5. found \subseteq Transfers
    BY <2>2, <2>3
  <2> HIDE DEF found
  <2>6. check' \in CheckStates
    BY <1>i, <2>4, <2>5 DEF CheckStates
  <2>7. UNCHANGED <<limits, connections, transfers, usedSize, usedData, list, goroutines>>
    BY <1>2 DEF getOverquotaTransfers
  <2> QED
    BY <1>t, <2>6, <2>7, QuietStep DEF TypeOK
<1>3. CASE fetchFails
  BY <1>t, <1>i, <1>3, QuietStep DEF fetchFails, TypeOK
<1> QED
  BY <1>1, <1>2, <1>3

\* The signals set AbortTransfer and nothing else.
LEMMA SignalIInv == ASSUME IInv, signalClose PROVE IInv'
<1>t. TypeOK /\ inList(list) \subseteq Transfers
  BY InListType DEF IInv, TypeOK
<1>1. ASSUME NEW t \in Transfers
      PROVE  /\ transfers'[t] \in TransferStates
             /\ transfers'[t].stage = transfers[t].stage
             /\ transfers'[t].max = transfers[t].max
             /\ transfers'[t].allowed = transfers[t].allowed
  <2>1. transfers[t] \in TransferStates
    BY <1>t DEF TypeOK
  <2>2. transfers'[t] = transfers[t] \/ transfers'[t] = [transfers[t] EXCEPT !.aborted = TRUE]
    BY DEF signalClose
  <2> QED
    BY <2>1, <2>2 DEF TransferStates
<1>2. /\ check' = Idle
      /\ UNCHANGED <<limits, connections, usedSize, usedData, list, goroutines>>
  BY DEF signalClose
<1>3. transfers' \in [Transfers -> TransferStates]
  <2>1. transfers' = [t \in Transfers |-> transfers'[t]]
    BY DEF signalClose
  <2> QED
    BY <1>1, <2>1
<1>4. TypeOK'
  BY <1>t, <1>2, <1>3 DEF TypeOK, Idle, CheckStates
<1>5. \A t \in Transfers : (isActive(t)' <=> isActive(t)) /\ (HasSizeLimit(t)' <=> HasSizeLimit(t))
  BY <1>1 DEF isActive, HasSizeLimit
<1>6. Unique(list)' /\ inList(list)' = inList(list)
  BY <1>2 DEF Unique, inList, IInv
<1> QED
  BY <1>t, <1>1, <1>2, <1>4, <1>5, <1>6 DEF IInv

-------------------------------------------------------------------------------
(* The theorems *)

\* Every step keeps the inductive invariant.
LEMMA NextIInv == IInv /\ [Next]_vars => IInv'
<1> SUFFICES ASSUME IInv, [Next]_vars PROVE IInv'
  OBVIOUS
<1>1. CASE UNCHANGED vars
  <2>1. TypeOK'
    BY <1>1 DEF IInv, TypeOK, vars
  <2> QED
    BY <1>1, <2>1, QuietStep DEF vars
<1>2. ASSUME NEW c \in Connections, Disconnect(c) PROVE IInv'
  <2>1. TypeOK'
    BY <1>2 DEF Disconnect, IInv, TypeOK
  <2> QED
    BY <1>2, <2>1, QuietStep DEF Disconnect
<1>3. ASSUME NEW t \in Transfers,
             \/ \E fileSize \in fileSizes[t] : checkUpload(t, fileSize)
             \/ checkDownload(t) \/ open(t) \/ abort(t) \/ move(t) \/ Close(t) \/ RemoveTransfer(t)
      PROVE  IInv'
  BY <1>3, CheckStepIInv, OpenIInv, MoveIInv, CloseIInv, RemoveTransferIInv
<1>4. CASE goroutineStep
  BY <1>4, CheckerAddIInv, CheckerRemoveIInv DEF goroutineStep
<1>5. CASE checkStep
  BY <1>5, StartCheckIInv, UpdateSizesIInv, AggregateIInv, SignalIInv DEF checkStep
<1>6. CASE getOverquotaTransfers \/ fetchFails
  BY <1>6, AggregateIInv
<1> QED
  BY <1>1, <1>2, <1>3, <1>4, <1>5, <1>6 DEF Next

\* The inductive invariant holds in every reachable state.
LEMMA SpecIInv == Spec => []IInv
BY InitIInv, NextIInv, PTL DEF Spec

\* Sizes in the list of the transfers checker are never negative, and every
\* variable keeps its type.
THEOREM TypeCorrect == Spec => []TypeOK
<1>1. IInv => TypeOK
  BY DEF IInv
<1> QED
  BY <1>1, SpecIInv, PTL

\* A limited transfer has exactly one entry in the list of the checker from the
\* moment its AddTransfer goroutine ran until it is closed, whatever the other
\* goroutines do.
THEOREM WatchedCorrect == Spec => []Watched
<1>1. IInv => Watched
  <2> SUFFICES ASSUME IInv, NEW t \in Transfers, isActive(t), HasSizeLimit(t),
                      <<"add", t>> \notin goroutines
               PROVE  Cardinality({i \in 1 .. Len(list) : list[i].transfer = t}) = 1
    BY DEF Watched
  <2>1. PICK k \in 1 .. Len(list) : list[k].transfer = t
    BY DEF IInv, inList
  <2>2. {i \in 1 .. Len(list) : list[i].transfer = t} = {k}
    BY <2>1 DEF IInv, Unique
  <2> QED
    BY <2>2, FS_Singleton
<1> QED
  BY <1>1, SpecIInv, PTL

\* A step moves a unit only for a transfer that was not signalled, where its
\* protocol looks at AbortTransfer.
LEMMA BytesStep ==
    ASSUME TypeOK, Next, NEW t \in Transfers, protocol(t) \in honoursAbort, transfers[t].aborted
    PROVE  transfers'[t].bytes <= transfers[t].bytes
<1>t. /\ transfers \in [Transfers -> TransferStates] /\ transfers[t] \in TransferStates
      /\ transfers[t].bytes \in Nat
  BY ConstantsAssumption DEF TypeOK, TransferStates
<1>1. CASE UNCHANGED transfers
  BY <1>t, <1>1
<1>2. ASSUME NEW y \in Transfers,
             \/ \E n \in fileSizes[y] : checkUpload(y, n)
             \/ checkDownload(y) \/ open(y) \/ abort(y) \/ RemoveTransfer(y)
      PROVE  transfers'[t].bytes = transfers[t].bytes
  <2>1. CASE y # t
    BY <1>t, <1>2, <2>1 DEF checkUpload, checkDownload, open, abort, RemoveTransfer
  <2>2. CASE y = t
    <3>1. CASE \E n \in fileSizes[y] : checkUpload(y, n)
      BY <1>t, <2>2, <3>1 DEF checkUpload, TransferStates
    <3>2. CASE checkDownload(y)
      BY <1>t, <2>2, <3>2 DEF checkDownload, TransferStates
    <3>3. CASE open(y) \/ abort(y) \/ RemoveTransfer(y)
      BY <1>t, <2>2, <3>3 DEF open, abort, RemoveTransfer, TransferStates
    <3> QED
      BY <1>2, <3>1, <3>2, <3>3
  <2> QED
    BY <2>1, <2>2
<1>3. ASSUME NEW y \in Transfers, move(y) PROVE transfers'[t] = transfers[t]
  <2>1. y # t
    BY <1>3 DEF move, mustAbort
  <2> QED
    BY <1>t, <1>3, <2>1 DEF move
<1>4. ASSUME NEW y \in Transfers, Close(y)
      PROVE  transfers'[t].bytes \in {0, transfers[t].bytes}
  BY <1>t, <1>4 DEF Close, TransferStates
<1>5. CASE signalClose
  BY <1>t, <1>5 DEF signalClose, TransferStates
<1>6. ASSUME NEW c \in Connections, Disconnect(c) PROVE UNCHANGED transfers
  BY <1>6 DEF Disconnect
<1>7. CASE goroutineStep \/ startCheck \/ aggregate \/ getOverquotaTransfers \/ fetchFails
           \/ \E e \in check.updates : updateSizes(e)
  BY <1>1, <1>7 DEF goroutineStep, checkerAdd, checkerRemove, startCheck, aggregate,
                    getOverquotaTransfers, fetchFails, updateSizes
<1> QED
  BY <1>t, <1>1, <1>2, <1>3, <1>4, <1>5, <1>6, <1>7 DEF Next, checkStep

\* Where every protocol looks at AbortTransfer in its reads and writes, as WebDAV
\* and HTTP do, a transfer that was signalled moves nothing more.
THEOREM AbortStopsCorrect ==
    ASSUME \A t \in Transfers : protocol(t) \in honoursAbort
    PROVE  Spec => AbortStops
<1>1. IInv /\ [Next]_vars
        => [\A t \in Transfers : transfers[t].aborted => transfers'[t].bytes <= transfers[t].bytes]_vars
  BY BytesStep DEF IInv
<1> QED
  BY <1>1, SpecIInv, PTL DEF Spec, AbortStops
===============================================================================
