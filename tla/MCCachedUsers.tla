---- MODULE MCCachedUsers ----
\* The values of a user that differ in neither the password nor the file system:
\* swap may keep either, or remove it
EXTENDS CachedUsers, TLC

MCPassword == [v \in Values |-> 1]
MCFs == [v \in Values |-> 1]

Symmetry == Permutations(Requests) \cup Permutations(Values)
====
