---------------------------- MODULE MCQuotaHistory ----------------------------
(***************************************************************************)
(* The quota updater over a provider that never fails, with two history    *)
(* variables: since, the differences added to each quota after a reset     *)
(* dropped the pending ones, and expected, the total of the last reset     *)
(* with the differences since.                                             *)
(***************************************************************************)
EXTENDS QuotaUpdater

CONSTANTS user, p1

VARIABLES since, expected

MC_Users == {user}
MC_Resets == {p1}
MC_Differences == {<<1, 1>>}
MC_Totals == {<<2, 2>>}

HInit ==
    /\ Init
    /\ since = [k \in Keys |-> Zero]
    /\ expected = [k \in Keys |-> Zero]

HNext ==
    \/ \E k \in Keys, diff \in Differences :
         /\ UpdateQuota(k, diff)
         /\ since' = [since EXCEPT ![k] = Add(@, diff)]
         /\ expected' = [expected EXCEPT ![k] = Add(@, diff)]
    \/ \E p \in Resets :
         /\ dropPending(p)
         /\ since' = [since EXCEPT ![resets[p].key] = Zero]
         /\ UNCHANGED expected
    \/ \E p \in Resets :
         /\ storeTotal(p)
         /\ expected' = [expected EXCEPT ![resets[p].key] =
                           Add(resets[p].total, since[resets[p].key])]
         /\ UNCHANGED since
    \/ /\ \/ wake \/ nextKind \/ storePending \/ removeStored
          \/ \E k \in Keys : readPending(k)
          \/ \E p \in Resets, k \in Keys, total \in Totals : startReset(p, k, total)
       /\ UNCHANGED <<since, expected>>

HSpec == HInit /\ [][HNext]_<<vars, since, expected>>

\* "If reset is true filesAdd and sizeAdd indicates the total files and the
\* total size instead of the difference": when nothing is pending or under way,
\* the provider has the total of the last reset and what was added since.
ResetIsTotal ==
    loop = Asleep /\ pending = EmptyMap /\ (\A p \in Resets : resets[p] = Idle)
      => stored = expected
===============================================================================
