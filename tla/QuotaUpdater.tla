----------------------------- MODULE QuotaUpdater -----------------------------
(***************************************************************************)
(* Delayed quota updates (internal/dataprovider/quotaupdater.go) with the  *)
(* calls of the data provider that use them.  Connections add differences  *)
(* to maps of pending updates, a loop moves them to the provider, a quota  *)
(* scan resets a quota to a total, and a quota check sums what is stored   *)
(* and what is pending.  The code has three copies of everything, for the  *)
(* disk quota of users, the quota of folders and the transfer quota of     *)
(* users: here a key names a quota of one of the three kinds.  A quota is  *)
(* a pair: files and size, or uploaded and downloaded bytes.               *)
(***************************************************************************)
EXTENDS GoMaps

CONSTANTS
    UserKeys, FolderKeys, TransferKeys,
    Differences,    \* what one operation of a connection adds
    Totals,         \* what a quota scan finds
    Resets,         \* processes that reset a quota
    MaxUpdates      \* bound of the model on the updates by connections

Keys == UserKeys \cup FolderKeys \cup TransferKeys
Pairs == Int \X Int
Zero == <<0, 0>>

ASSUME QuotaAssumption ==
    /\ UserKeys \cap FolderKeys = {}
    /\ UserKeys \cap TransferKeys = {}
    /\ Differences \subseteq Pairs \ {Zero}
    /\ Totals \subseteq Pairs
    /\ MaxUpdates \in Nat

VARIABLES
    stored,     \* key -> the quota the provider has
    pending,    \* key -> the difference to store: the three pending maps
    loop,       \* progress of quotaUpdater.loop
    scans,      \* the keys of ActiveScans
    resets,     \* progress of each reset
    updates     \* number of updates so far

vars == <<stored, pending, loop, scans, resets, updates>>

Add(p, q) == <<p[1] + q[1], p[2] + q[2]>>
Minus(p) == <<- p[1], - p[2]>>

Kinds == <<UserKeys, FolderKeys, TransferKeys>>
Asleep == [pc |-> "asleep"]
Idle == [pc |-> "idle"]

Init ==
    /\ stored = [k \in Keys |-> Zero]
    /\ pending = EmptyMap
    /\ loop = Asleep
    /\ scans = {}
    /\ resets = [p \in Resets |-> Idle]
    /\ updates = 0

-------------------------------------------------------------------------------
\* getUserPendingQuota: a missing entry is zero
getPending(k) == IF k \in DOMAIN pending THEN pending[k] ELSE Zero

\* updateUserQuota on the map: an entry that becomes zero is removed
afterUpdateKeepingZero(k, diff) == MapPut(pending, k, Add(getPending(k), diff))
afterUpdate(k, diff) ==
    LET sum == Add(getPending(k), diff)
    IN IF sum = Zero THEN MapDelete(pending, k) ELSE MapPut(pending, k, sum)

\* UpdateUserQuota, UpdateVirtualFolderQuota and UpdateUserTransferQuota with
\* a difference, when updates are delayed
UpdateQuota(k, diff) ==
    /\ updates < MaxUpdates
    /\ pending' = afterUpdate(k, diff)
    /\ updates' = updates + 1
    /\ UNCHANGED <<stored, loop, scans, resets>>

-------------------------------------------------------------------------------
\* The loop takes the names of the pending updates of one kind, ...
namesOf(kind) == [pc |-> "names", kind |-> kind, todo |-> DOMAIN pending \cap Kinds[kind]]

wake ==
    /\ loop = Asleep
    /\ loop' = namesOf(1)
    /\ UNCHANGED <<stored, pending, scans, resets, updates>>

done(k) == [pc |-> "names", kind |-> loop.kind, todo |-> loop.todo \ {k}]

nextKindSkipping ==
    /\ loop.pc = "names"
    /\ loop.todo = {}
    /\ loop' = IF loop.kind + 2 > Len(Kinds) THEN Asleep ELSE namesOf(loop.kind + 2)
    /\ UNCHANGED <<stored, pending, scans, resets, updates>>
nextKind ==
    /\ loop.pc = "names"
    /\ loop.todo = {}
    /\ loop' = IF loop.kind = Len(Kinds) THEN Asleep ELSE namesOf(loop.kind + 1)
    /\ UNCHANGED <<stored, pending, scans, resets, updates>>

\* ... reads what is pending for each, ...
readPending(k) ==
    /\ loop.pc = "names"
    /\ k \in loop.todo
    /\ loop' = IF getPending(k) = Zero THEN done(k)
               ELSE [pc |-> "read", kind |-> loop.kind, todo |-> loop.todo,
                     key |-> k, amount |-> getPending(k)]
    /\ UNCHANGED <<stored, pending, scans, resets, updates>>

\* ... adds it to the provider's, ...
storePending ==
    /\ loop.pc = "read"
    /\ stored' = [stored EXCEPT ![loop.key] = Add(@, loop.amount)]
    /\ loop' = [loop EXCEPT !.pc = "stored"]
    /\ UNCHANGED <<pending, scans, resets, updates>>

storeFails ==
    /\ loop.pc = "read"
    /\ loop' = done(loop.key)
    /\ UNCHANGED <<stored, pending, scans, resets, updates>>

\* ... and takes from the pending update what it has stored.
removeStoredDeleting ==
    /\ loop.pc = "stored"
    /\ pending' = MapDelete(pending, loop.key)
    /\ loop' = done(loop.key)
    /\ UNCHANGED <<stored, scans, resets, updates>>
removeStored ==
    /\ loop.pc = "stored"
    /\ pending' = afterUpdate(loop.key, Minus(loop.amount))
    /\ loop' = done(loop.key)
    /\ UNCHANGED <<stored, scans, resets, updates>>

-------------------------------------------------------------------------------
\* A reset takes the scan of its key, if the kind has scans, and finds a total.
\* The transfer quota is reset without one.
startReset(p, k, total) ==
    /\ resets[p] = Idle
    /\ k \in TransferKeys \/ k \notin scans
    /\ scans' = IF k \in TransferKeys THEN scans ELSE scans \cup {k}
    /\ resets' = [resets EXCEPT ![p] =
         [pc |-> "scanned", key |-> k, total |-> total, inScan |-> k \notin TransferKeys]]
    /\ UNCHANGED <<stored, pending, loop, updates>>

\* The event manager's reset of a folder leaves the scan before the update.
leaveScanAnyKind(p) ==
    /\ resets[p].pc = "scanned"
    /\ resets[p].inScan
    /\ scans' = scans \ {resets[p].key}
    /\ resets' = [resets EXCEPT ![p].inScan = FALSE]
    /\ UNCHANGED <<stored, pending, loop, updates>>
leaveScan(p) ==
    /\ resets[p].pc = "scanned"
    /\ resets[p].inScan
    /\ resets[p].key \in FolderKeys
    /\ scans' = scans \ {resets[p].key}
    /\ resets' = [resets EXCEPT ![p].inScan = FALSE]
    /\ UNCHANGED <<stored, pending, loop, updates>>

\* UpdateUserQuota with reset: first resetUserQuota, ...
dropPending(p) ==
    /\ resets[p].pc = "scanned"
    /\ pending' = MapDelete(pending, resets[p].key)
    /\ resets' = [resets EXCEPT ![p].pc = "dropped"]
    /\ UNCHANGED <<stored, loop, scans, updates>>

\* ... then the provider's updateQuota; the scan ends, whatever the outcome.
endReset(p) ==
    /\ resets' = [resets EXCEPT ![p] = Idle]
    /\ scans' = IF resets[p].inScan THEN scans \ {resets[p].key} ELSE scans
    /\ UNCHANGED <<pending, loop, updates>>

storeTotal(p) ==
    /\ resets[p].pc = "dropped"
    /\ stored' = [stored EXCEPT ![resets[p].key] = resets[p].total]
    /\ endReset(p)

resetFails(p) ==
    /\ resets[p].pc \in {"scanned", "dropped"}
    /\ UNCHANGED stored
    /\ endReset(p)

-------------------------------------------------------------------------------
loopStep ==
    \/ wake
    \/ nextKind
    \/ \E k \in Keys : readPending(k)
    \/ storePending
    \/ storeFails
    \/ removeStored

resetStep ==
    \/ \E p \in Resets, k \in Keys, total \in Totals : startReset(p, k, total)
    \/ \E p \in Resets : leaveScan(p) \/ dropPending(p) \/ storeTotal(p) \/ resetFails(p)

Next ==
    \/ \E k \in Keys, diff \in Differences : UpdateQuota(k, diff)
    \/ loopStep
    \/ resetStep

Spec == Init /\ [][Next]_vars

\* The loop runs for ever; a provider that fails is asked again after each
\* sleep, and does not refuse the same update for ever.
FairSpec ==
    /\ Spec
    /\ WF_vars(loopStep)
    /\ \A k \in Keys : SF_vars(loop.pc = "read" /\ loop.key = k /\ storePending)

-------------------------------------------------------------------------------
inLoop ==
    {Asleep} \cup [pc : {"names"}, kind : 1 .. 3, todo : SUBSET Keys]
             \cup [pc : {"read", "stored"}, kind : 1 .. 3, todo : SUBSET Keys,
                   key : Keys, amount : Pairs]

inReset ==
    {Idle} \cup [pc : {"scanned", "dropped"}, key : Keys, total : Totals, inScan : BOOLEAN]

\* The maps and the processes have their types, and no pending update is zero:
\* the loop asks the provider for nothing that changes nothing.
TypeOK ==
    /\ stored \in [Keys -> Pairs]
    /\ DOMAIN pending \subseteq Keys
    /\ \A k \in DOMAIN pending : pending[k] \in Pairs \ {Zero}
    /\ loop \in inLoop
    /\ scans \subseteq UserKeys \cup FolderKeys
    /\ resets \in [Resets -> inReset]
    /\ updates \in 0 .. MaxUpdates

\* What is stored for a key and still in its pending update
twice(k) == IF loop.pc = "stored" /\ loop.key = k THEN loop.amount ELSE Zero

\* The quota a key has when everything pending is stored
Balance(k) == Add(Add(stored[k], getPending(k)), Minus(twice(k)))

\* The loop neither loses nor repeats an update, even one that comes while it
\* stores another or one the provider refuses: only an update by a connection
\* changes what a quota amounts to, and by its difference, or a reset.
UpdatesAccounted ==
    [][\A k \in Keys :
         \/ Balance(k)' = Balance(k)
         \/ \E diff \in Differences : UpdateQuota(k, diff) /\ Balance(k)' = Add(Balance(k), diff)
         \/ \E p \in Resets : resets[p] # Idle /\ resets[p].key = k /\ resets'[p] # resets[p]]_vars

\* Two resets of a user's quota never overlap, so that a total found earlier is
\* not stored over one found later: the scan is held until the total is stored.
UserResetsApart ==
    \A p, q \in Resets :
      resets[p] # Idle /\ resets[q] # Idle /\ resets[p].key = resets[q].key
        /\ resets[p].key \in UserKeys
      => p = q

\* Once connections stop updating a quota, what is pending for it is stored,
\* whichever of the three kinds it is and however often the provider fails.
PendingStored == \A k \in Keys : []<>(k \notin DOMAIN pending)
===============================================================================
