---------------------------- MODULE MCQuotaUpdater ----------------------------
(* Small instances of the quota updater: a user and a folder. *)
EXTENDS QuotaUpdater

CONSTANTS user, folder, p1, p2

MC_Users == {user}
MC_Folders == {folder}
MC_Resets == {p1, p2}

\* An upload and the removal of a file
MC_Differences == {<<1, 1>>, <<-1, -1>>}
MC_Totals == {<<2, 2>>}
===============================================================================
