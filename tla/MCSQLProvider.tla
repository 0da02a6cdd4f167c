---------------------------- MODULE MCSQLProvider ----------------------------
(* Two users and one object of every other kind.  The bound on the stored   *)
(* objects is part of the next-state relation: a step that would exceed it  *)
(* is not taken, so no behaviour is cut off where fairness still has        *)
(* something to do.                                                         *)
EXTENDS SQLProvider, FiniteSets, Naturals

CONSTANT MaxObjects

Stored == Cardinality(users) + Cardinality(admins) + Cardinality(groups) +
          Cardinality(folders) + Cardinality(roles) + Cardinality(apiKeys) +
          Cardinality(shares) + Cardinality(eventActions) +
          Cardinality(eventRules)

Small == Stored <= MaxObjects

SmallSpec == Init /\ [][Next /\ Small']_vars /\ Fairness
==============================================================================
