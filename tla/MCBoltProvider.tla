--------------------------- MODULE MCBoltProvider ---------------------------
(* Two users, groups and event actions and one object of every other kind,  *)
(* of which at most MaxObjects are stored at a time.                        *)
EXTENDS BoltProvider, FiniteSets, Naturals, TLC

CONSTANTS u1, u2, g1, g2, e1, e2, MaxObjects

MC_Users == {u1, u2}
MC_Groups == {g1, g2}
MC_EventActions == {e1, e2}

Stored == Cardinality(users) + Cardinality(admins) + Cardinality(groups) +
          Cardinality(folders) + Cardinality(roles) + Cardinality(apiKeys) +
          Cardinality(shares) + Cardinality(eventActions) +
          Cardinality(eventRules)

Small == Stored <= MaxObjects

Symmetry == Permutations(Users) \cup Permutations(Groups) \cup
            Permutations(EventActions)
=============================================================================
