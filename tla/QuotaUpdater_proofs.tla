------------------------- MODULE QuotaUpdater_proofs -------------------------
(***************************************************************************)
(* That delayed updates are accounted for exactly, and that the resets of  *)
(* a user's quota exclude each other, for any number of quotas, resets,    *)
(* quota checks and updates.                                               *)
(***************************************************************************)
EXTENDS QuotaUpdater, TLAPS

Quotas ==
    /\ stored \in [Keys -> Pairs]
    /\ DOMAIN pending \subseteq Keys
    /\ \A k \in DOMAIN pending : pending[k] \in Pairs

LoopTyped == loop \in inLoop

ResetsTyped == resets \in [Resets -> inReset]

\* A reset of a user's quota is in the scan of that quota.
InScan ==
    \A p \in Resets :
      resets[p] # Idle /\ resets[p].key \in UserKeys
        => resets[p].inScan /\ resets[p].key \in scans

IInv == Quotas /\ LoopTyped /\ ResetsTyped /\ InScan /\ UserResetsApart

-------------------------------------------------------------------------------
\* Sums and opposites of pairs are pairs.
LEMMA PairTypes ==
    /\ Zero \in Pairs
    /\ \A p, q \in Pairs : Add(p, q) \in Pairs
    /\ \A p \in Pairs : Minus(p) \in Pairs
  BY DEF Zero, Pairs, Add, Minus

\* The laws of addition the accounting rests on.
LEMMA PairLaws ==
    /\ \A p \in Pairs : Add(p, Minus(Zero)) = p
    /\ \A s, d, a \in Pairs :
         /\ Add(Add(Add(s, a), d), Minus(a)) = Add(Add(s, d), Minus(Zero))
         /\ Add(Add(s, Add(d, Minus(a))), Minus(Zero)) = Add(Add(s, d), Minus(a))
         /\ Add(Add(s, Add(d, a)), Minus(Zero)) = Add(Add(Add(s, d), Minus(Zero)), a)
    /\ \A s, d, a, b \in Pairs :
         Add(Add(s, Add(d, a)), Minus(b)) = Add(Add(Add(s, d), Minus(b)), a)
  BY DEF Zero, Pairs, Add, Minus

\* What is pending is a pair, and an update of one key is to that key only.
LEMMA PendingTypes ==
    ASSUME Quotas, NEW k \in Keys, NEW diff \in Pairs
    PROVE  /\ getPending(k) \in Pairs
           /\ DOMAIN afterUpdate(k, diff) \subseteq Keys
           /\ \A x \in DOMAIN afterUpdate(k, diff) : afterUpdate(k, diff)[x] \in Pairs
  <1>1. getPending(k) \in Pairs
    BY PairTypes DEF Quotas, getPending
  <1>2. Add(getPending(k), diff) \in Pairs
    BY <1>1, PairTypes
  <1>. QED  BY <1>1, <1>2 DEF Quotas, afterUpdate, MapPut, MapDelete

\* What getPending answers after an update of one key.
LEMMA PendingAfterUpdate ==
    ASSUME Quotas, NEW k \in Keys, NEW diff \in Pairs, pending' = afterUpdate(k, diff)
    PROVE  \A x \in Keys : getPending(x)' = IF x = k THEN Add(getPending(k), diff)
                                            ELSE getPending(x)
  <1>. DEFINE sum == Add(getPending(k), diff)
  <1>1. CASE sum = Zero
    BY <1>1 DEF afterUpdate, MapDelete, getPending
  <1>2. CASE sum # Zero
    <2>1. pending' = MapPut(pending, k, sum)
      BY <1>2 DEF afterUpdate
    <2>. HIDE DEF sum
    <2>2. \A x \in Keys : getPending(x)' = IF x = k THEN sum ELSE getPending(x)
      BY <2>1 DEF MapPut, getPending
    <2>. QED  BY <2>2 DEF sum
  <1>. QED  BY <1>1, <1>2

-------------------------------------------------------------------------------
\* Initially nothing is stored, pending or under way.
LEMMA InitIInv == Init => IInv
  BY PairTypes DEF Init, IInv, Quotas, LoopTyped, ResetsTyped, InScan, UserResetsApart,
     EmptyMap, Asleep, Idle, inLoop, inReset

\* Every step leaves pairs in the provider and in the pending maps.
LEMMA QuotasNext == IInv /\ [Next]_vars => Quotas'
  <1>. SUFFICES ASSUME IInv, [Next]_vars PROVE Quotas'
    OBVIOUS
  <1>. USE DEF IInv
  <1>1. CASE UNCHANGED <<stored, pending>>
    BY <1>1 DEF Quotas
  <1>2. ASSUME NEW k \in Keys, NEW diff \in Differences, UpdateQuota(k, diff) PROVE Quotas'
    BY <1>2, PendingTypes, QuotaAssumption DEF UpdateQuota, Quotas
  <1>3. CASE storePending
    <2>1. loop.key \in Keys /\ loop.amount \in Pairs
      BY <1>3 DEF storePending, LoopTyped, inLoop, Asleep
    <2>2. Add(stored[loop.key], loop.amount) \in Pairs
      BY <2>1, PairTypes DEF Quotas
    <2>. QED  BY <1>3, <2>1, <2>2 DEF storePending, Quotas
  <1>4. CASE removeStored
    <2>1. loop.key \in Keys /\ Minus(loop.amount) \in Pairs
      BY <1>4, PairTypes DEF removeStored, LoopTyped, inLoop, Asleep
    <2>. QED  BY <1>4, <2>1, PendingTypes DEF removeStored, Quotas
  <1>5. ASSUME NEW p \in Resets, dropPending(p) PROVE Quotas'
    BY <1>5 DEF dropPending, Quotas, MapDelete
  <1>6. ASSUME NEW p \in Resets, storeTotal(p) PROVE Quotas'
    <2>1. resets[p].total \in Pairs
      BY <1>6, QuotaAssumption DEF storeTotal, ResetsTyped, inReset, Idle
    <2>. QED  BY <1>6, <2>1 DEF storeTotal, endReset, Quotas
  <1>. QED
    BY <1>1, <1>2, <1>3, <1>4, <1>5, <1>6
    DEF Next, loopStep, resetStep, vars, wake, nextKind, readPending, storeFails,
        startReset, leaveScan, resetFails, endReset

\* Every step leaves the loop at a place of its code.
LEMMA LoopNext == IInv /\ [Next]_vars => LoopTyped'
  <1>. SUFFICES ASSUME IInv, [Next]_vars PROVE LoopTyped'
    OBVIOUS
  <1>. USE DEF IInv
  <1>1. CASE UNCHANGED loop
    BY <1>1 DEF LoopTyped
  <1>2. ASSUME NEW kind \in 1 .. 3 PROVE namesOf(kind) \in inLoop
    BY <1>2 DEF namesOf, inLoop, Quotas
  <1>3. ASSUME loop # Asleep, NEW k PROVE done(k) \in inLoop
    BY <1>3 DEF done, inLoop, LoopTyped
  <1>4. Len(Kinds) = 3
    BY DEF Kinds
  <1>5. CASE wake
    BY <1>2, <1>5 DEF wake, LoopTyped
  <1>6. CASE nextKind
    <2>1. loop.kind \in 1 .. 3
      BY <1>6 DEF nextKind, LoopTyped, inLoop, Asleep
    <2>2. CASE loop.kind = 3
      BY <1>4, <1>6, <2>2 DEF nextKind, LoopTyped, inLoop
    <2>3. CASE loop.kind # 3
      <3>1. loop.kind + 1 \in 1 .. 3
        BY <2>1, <2>3
      <3>. QED  BY <1>2, <1>4, <1>6, <2>3, <3>1 DEF nextKind, LoopTyped
    <2>. QED  BY <2>2, <2>3
  <1>7. ASSUME NEW k \in Keys, readPending(k) PROVE LoopTyped'
    <2>1. loop # Asleep
      BY <1>7 DEF readPending, Asleep
    <2>2. done(k) \in inLoop
      BY <1>3, <2>1
    <2>3. loop.kind \in 1 .. 3 /\ loop.todo \subseteq Keys
      BY <2>1 DEF LoopTyped, inLoop
    <2>4. getPending(k) \in Pairs
      BY PairTypes DEF Quotas, getPending
    <2>5. [pc |-> "read", kind |-> loop.kind, todo |-> loop.todo,
           key |-> k, amount |-> getPending(k)] \in inLoop
      BY <2>3, <2>4 DEF inLoop
    <2>. QED  BY <1>7, <2>2, <2>5 DEF readPending, LoopTyped
  <1>8. CASE storePending
    BY <1>8 DEF storePending, LoopTyped, inLoop, Asleep
  <1>9. CASE storeFails \/ removeStored
    <2>1. loop # Asleep
      BY <1>9 DEF storeFails, removeStored, Asleep
    <2>2. loop' = done(loop.key)
      BY <1>9 DEF storeFails, removeStored
    <2>. QED  BY <1>3, <2>1, <2>2 DEF LoopTyped
  <1>. QED
    BY <1>1, <1>5, <1>6, <1>7, <1>8, <1>9
    DEF Next, loopStep, resetStep, vars, UpdateQuota, startReset, leaveScan, dropPending,
        storeTotal, resetFails, endReset

\* Only the steps of a reset change a reset or the scans.
LEMMA ResetsUnchanged ==
    ASSUME IInv, UNCHANGED <<resets, scans>>
    PROVE  ResetsTyped' /\ InScan' /\ UserResetsApart'
  BY DEF IInv, ResetsTyped, InScan, UserResetsApart

\* A reset of a user's quota starts only outside a scan of it, and holds the
\* scan to its end.
LEMMA ResetsNext == IInv /\ [Next]_vars => ResetsTyped' /\ InScan' /\ UserResetsApart'
  <1>. SUFFICES ASSUME IInv, [Next]_vars PROVE ResetsTyped' /\ InScan' /\ UserResetsApart'
    OBVIOUS
  <1>. USE DEF IInv
  <1>1. CASE UNCHANGED <<resets, scans>>
    BY <1>1, ResetsUnchanged
  <1>2. ASSUME NEW p \in Resets, NEW k \in Keys, NEW total \in Totals, startReset(p, k, total)
        PROVE ResetsTyped' /\ InScan' /\ UserResetsApart'
    <2>. DEFINE started == [pc |-> "scanned", key |-> k, total |-> total,
                            inScan |-> k \notin TransferKeys]
    <2>1. /\ resets' = [resets EXCEPT ![p] = started]
          /\ k \in UserKeys => k \notin scans /\ started.inScan /\ scans' = scans \cup {k}
          /\ scans \subseteq scans'
      BY <1>2, QuotaAssumption DEF startReset
    <2>2. started \in inReset /\ started.key = k
      BY DEF inReset
    <2>. HIDE DEF started
    <2>3. ResetsTyped'
      BY <2>1, <2>2 DEF ResetsTyped
    <2>4. resets'[p] = started /\ \A q \in Resets : q # p => resets'[q] = resets[q]
      BY <2>1 DEF ResetsTyped
    <2>5. InScan'
      BY <2>1, <2>2, <2>4 DEF InScan
    <2>6. UserResetsApart'
      BY <2>1, <2>2, <2>4 DEF InScan, UserResetsApart
    <2>. QED  BY <2>3, <2>5, <2>6
  <1>3. ASSUME NEW p \in Resets, leaveScan(p)
        PROVE ResetsTyped' /\ InScan' /\ UserResetsApart'
    <2>1. resets[p] # Idle /\ resets[p] \in inReset /\ resets[p].key \notin UserKeys
      BY <1>3, QuotaAssumption DEF leaveScan, Idle, ResetsTyped
    <2>2. resets'[p] \in inReset /\ resets'[p].key = resets[p].key
      BY <1>3, <2>1 DEF leaveScan, inReset, ResetsTyped
    <2>3. \A q \in Resets : q # p => resets'[q] = resets[q]
      BY <1>3 DEF leaveScan, ResetsTyped
    <2>4. \A k \in UserKeys : k \in scans => k \in scans'
      BY <1>3, <2>1 DEF leaveScan
    <2>5. ResetsTyped'
      BY <1>3, <2>2 DEF leaveScan, ResetsTyped
    <2>6. InScan'
      BY <2>1, <2>2, <2>3, <2>4 DEF InScan
    <2>7. UserResetsApart'
      BY <2>1, <2>2, <2>3 DEF UserResetsApart
    <2>. QED  BY <2>5, <2>6, <2>7
  <1>4. ASSUME NEW p \in Resets, dropPending(p)
        PROVE ResetsTyped' /\ InScan' /\ UserResetsApart'
    <2>1. resets[p] # Idle /\ resets[p] \in inReset
      BY <1>4 DEF dropPending, Idle, ResetsTyped
    <2>2. /\ resets'[p] \in inReset
          /\ resets'[p].key = resets[p].key
          /\ resets'[p].inScan = resets[p].inScan
      BY <1>4, <2>1 DEF dropPending, inReset, ResetsTyped
    <2>3. \A q \in Resets : q # p => resets'[q] = resets[q]
      BY <1>4 DEF dropPending, ResetsTyped
    <2>4. scans' = scans
      BY <1>4 DEF dropPending
    <2>5. ResetsTyped'
      BY <1>4, <2>2 DEF dropPending, ResetsTyped
    <2>6. InScan'
      BY <2>1, <2>2, <2>3, <2>4 DEF InScan
    <2>7. UserResetsApart'
      BY <2>1, <2>2, <2>3 DEF UserResetsApart
    <2>. QED  BY <2>5, <2>6, <2>7
  <1>5. ASSUME NEW p \in Resets, storeTotal(p) \/ resetFails(p)
        PROVE ResetsTyped' /\ InScan' /\ UserResetsApart'
    <2>1. resets[p] # Idle
      BY <1>5 DEF storeTotal, resetFails, Idle
    <2>2. /\ resets' = [resets EXCEPT ![p] = Idle]
          /\ \A k : k \in scans /\ k # resets[p].key => k \in scans'
      BY <1>5 DEF storeTotal, resetFails, endReset
    <2>3. resets'[p] = Idle /\ \A q \in Resets : q # p => resets'[q] = resets[q]
      BY <2>2 DEF ResetsTyped
    <2>4. ResetsTyped'
      BY <2>2 DEF ResetsTyped, inReset
    <2>5. InScan'
      BY <2>1, <2>2, <2>3 DEF InScan, UserResetsApart
    <2>6. UserResetsApart'
      BY <2>3 DEF UserResetsApart
    <2>. QED  BY <2>4, <2>5, <2>6
  <1>. QED
    BY <1>1, <1>2, <1>3, <1>4, <1>5
    DEF Next, loopStep, resetStep, vars, UpdateQuota, wake, nextKind, readPending,
        storePending, storeFails, removeStored

\* The invariant is inductive.
LEMMA SpecIInv == Spec => []IInv
  <1>1. IInv /\ [Next]_vars => IInv'
    BY QuotasNext, LoopNext, ResetsNext DEF IInv
  <1>. QED  BY InitIInv, <1>1, PTL DEF Spec

\* Two resets of a user's quota, by scans, by the REST API or by the event
\* manager, never overlap: ActiveScans admits one at a time until it is stored.
THEOREM UserResetsExclude == Spec => []UserResetsApart
  BY SpecIInv, PTL DEF IInv

-------------------------------------------------------------------------------
Accounted ==
    \A k \in Keys :
      \/ Balance(k)' = Balance(k)
      \/ \E diff \in Differences : UpdateQuota(k, diff) /\ Balance(k)' = Add(Balance(k), diff)
      \/ \E p \in Resets : resets[p] # Idle /\ resets[p].key = k /\ resets'[p] # resets[p]

\* A step that leaves the quotas, and what the loop has stored, keeps balances.
LEMMA BalanceKept ==
    ASSUME NEW k \in Keys, stored'[k] = stored[k], getPending(k)' = getPending(k),
           twice(k)' = twice(k)
    PROVE  Balance(k)' = Balance(k)
  BY DEF Balance

\* Every step accounts for what it does to every quota.
LEMMA StepAccounted == IInv /\ [Next]_vars => Accounted
  <1>. SUFFICES ASSUME IInv, [Next]_vars, NEW k \in Keys
       PROVE \/ Balance(k)' = Balance(k)
             \/ \E diff \in Differences :
                  UpdateQuota(k, diff) /\ Balance(k)' = Add(Balance(k), diff)
             \/ \E p \in Resets : resets[p] # Idle /\ resets[p].key = k /\ resets'[p] # resets[p]
    BY DEF Accounted
  <1>. USE DEF IInv
  <1>0. stored[k] \in Pairs /\ getPending(k) \in Pairs /\ twice(k) \in Pairs
    <2>1. stored[k] \in Pairs /\ getPending(k) \in Pairs
      BY PairTypes DEF Quotas, getPending
    <2>2. twice(k) \in Pairs
      BY PairTypes DEF twice, LoopTyped, inLoop, Asleep
    <2>. QED  BY <2>1, <2>2
  <1>1. CASE UNCHANGED <<stored, pending, loop>>
    <2>1. stored'[k] = stored[k] /\ getPending(k)' = getPending(k) /\ twice(k)' = twice(k)
      BY <1>1 DEF getPending, twice
    <2>. QED  BY <2>1, BalanceKept
  <1>2. ASSUME NEW x \in Keys, NEW diff \in Differences, UpdateQuota(x, diff)
        PROVE \/ Balance(k)' = Balance(k)
              \/ UpdateQuota(k, diff) /\ Balance(k)' = Add(Balance(k), diff)
    <2>1. diff \in Pairs
      BY QuotaAssumption
    <2>2. getPending(k)' = IF k = x THEN Add(getPending(k), diff) ELSE getPending(k)
      BY <1>2, <2>1, PendingAfterUpdate DEF UpdateQuota
    <2>3. stored'[k] = stored[k] /\ twice(k)' = twice(k)
      BY <1>2 DEF UpdateQuota, twice
    <2>4. CASE k = x
      <3>1. Balance(k)' = Add(Add(stored[k], Add(getPending(k), diff)), Minus(twice(k)))
        BY <2>2, <2>3, <2>4 DEF Balance
      <3>2. Balance(k)' = Add(Balance(k), diff)
        BY <1>0, <2>1, <3>1, PairLaws DEF Balance
      <3>. QED  BY <1>2, <2>4, <3>2
    <2>5. CASE k # x
      BY <2>2, <2>3, <2>5, BalanceKept
    <2>. QED  BY <2>4, <2>5
  <1>3. CASE /\ UNCHANGED <<stored, pending>>
             /\ twice(k) = Zero /\ twice(k)' = Zero
    <2>1. stored'[k] = stored[k] /\ getPending(k)' = getPending(k) /\ twice(k)' = twice(k)
      BY <1>3 DEF getPending
    <2>. QED  BY <2>1, BalanceKept
  <1>4. CASE wake \/ nextKind \/ (\E x \in Keys : readPending(x)) \/ storeFails
    <2>1. loop.pc # "stored" /\ loop'.pc # "stored"
      BY <1>4 DEF wake, nextKind, readPending, storeFails, Asleep, namesOf, done
    <2>2. UNCHANGED <<stored, pending>>
      BY <1>4 DEF wake, nextKind, readPending, storeFails
    <2>3. twice(k) = Zero /\ twice(k)' = Zero
      BY <2>1 DEF twice
    <2>. QED  BY <1>3, <2>2, <2>3
  <1>5. CASE storePending
    <2>1. /\ loop.amount \in Pairs
          /\ loop'.pc = "stored" /\ loop'.key = loop.key /\ loop'.amount = loop.amount
      BY <1>5 DEF storePending, LoopTyped, inLoop, Asleep
    <2>2. twice(k) = Zero
      BY <1>5 DEF storePending, twice
    <2>3. getPending(k)' = getPending(k)
      BY <1>5 DEF storePending, getPending
    <2>4. CASE k = loop.key
      <3>1. stored'[k] = Add(stored[k], loop.amount) /\ twice(k)' = loop.amount
        BY <1>5, <2>1, <2>4 DEF storePending, Quotas, twice
      <3>. QED  BY <1>0, <2>1, <2>2, <2>3, <3>1, PairLaws DEF Balance
    <2>5. CASE k # loop.key
      <3>1. stored'[k] = stored[k] /\ twice(k)' = Zero
        BY <1>5, <2>1, <2>5 DEF storePending, Quotas, twice
      <3>. QED  BY <2>2, <2>3, <3>1, BalanceKept
    <2>. QED  BY <2>4, <2>5
  <1>6. CASE removeStored
    <2>1. loop.key \in Keys /\ loop.amount \in Pairs /\ Minus(loop.amount) \in Pairs
      BY <1>6, PairTypes DEF removeStored, LoopTyped, inLoop, Asleep
    <2>2. getPending(k)' = IF k = loop.key THEN Add(getPending(k), Minus(loop.amount))
                           ELSE getPending(k)
      BY <1>6, <2>1, PendingAfterUpdate DEF removeStored
    <2>3. stored'[k] = stored[k] /\ twice(k)' = Zero
      BY <1>6 DEF removeStored, done, twice
    <2>4. CASE k = loop.key
      <3>1. twice(k) = loop.amount
        BY <1>6, <2>4 DEF removeStored, twice
      <3>2. Balance(k)' = Add(Add(stored[k], Add(getPending(k), Minus(loop.amount))), Minus(Zero))
        BY <2>2, <2>3, <2>4 DEF Balance
      <3>. QED  BY <1>0, <2>1, <3>1, <3>2, PairLaws DEF Balance
    <2>5. CASE k # loop.key
      <3>1. twice(k) = Zero
        BY <2>5 DEF twice
      <3>. QED  BY <2>2, <2>3, <2>5, <3>1, BalanceKept
    <2>. QED  BY <2>4, <2>5
  <1>7. ASSUME NEW p \in Resets, dropPending(p) \/ storeTotal(p)
        PROVE \/ Balance(k)' = Balance(k)
              \/ resets[p] # Idle /\ resets[p].key = k /\ resets'[p] # resets[p]
    <2>1. resets[p] # Idle /\ resets'[p] # resets[p]
      <3>1. resets[p].pc \in {"scanned", "dropped"}
        BY <1>7 DEF dropPending, storeTotal
      <3>2. resets'[p].pc # resets[p].pc
        BY <1>7, <3>1 DEF dropPending, storeTotal, endReset, ResetsTyped, inReset, Idle
      <3>. QED  BY <3>1, <3>2 DEF Idle
    <2>2. CASE k = resets[p].key
      BY <2>1, <2>2
    <2>3. CASE k # resets[p].key
      <3>1. stored'[k] = stored[k]
        BY <1>7, <2>3 DEF dropPending, storeTotal, Quotas
      <3>2. getPending(k)' = getPending(k)
        BY <1>7, <2>3 DEF dropPending, storeTotal, endReset, getPending, MapDelete
      <3>3. twice(k)' = twice(k)
        BY <1>7 DEF dropPending, storeTotal, endReset, twice
      <3>. QED  BY <3>1, <3>2, <3>3, BalanceKept
    <2>. QED  BY <2>2, <2>3
  <1>8. ASSUME \/ \E p \in Resets, x \in Keys, total \in Totals : startReset(p, x, total)
               \/ \E p \in Resets : leaveScan(p) \/ resetFails(p)
               \/ UNCHANGED vars
        PROVE UNCHANGED <<stored, pending, loop>>
    BY <1>8 DEF startReset, leaveScan, resetFails, endReset, vars
  <1>. QED  BY <1>1, <1>2, <1>4, <1>5, <1>6, <1>7, <1>8 DEF Next, loopStep, resetStep

\* The updater neither loses nor repeats an update: whatever the interleaving
\* with the loop, and whatever the provider refuses, a quota changes by the
\* differences that connections add and by resets, and by nothing else.
THEOREM UpdatesConserved == Spec => UpdatesAccounted
  <1>1. IInv /\ [Next]_vars => [Accounted]_vars
    BY StepAccounted
  <1>2. Spec => [][Accounted]_vars
    BY SpecIInv, <1>1, PTL DEF Spec
  <1>. QED  BY <1>2 DEF UpdatesAccounted, Accounted
===============================================================================
