----------------------------- MODULE ProviderLinks -----------------------------
(***************************************************************************)
(* The objects of the data provider and the references between them.  A    *)
(* list of names in a stored object (the groups of a user, the users of a  *)
(* group) and a mapping table of a database are both relations here, sets  *)
(* of pairs of names.  A pair is written from the object that refers to    *)
(* the one referred to, whichever of the two records stores the name.      *)
(***************************************************************************)

CONSTANTS
    Users, Admins, Groups, Folders, Roles, APIKeys, Shares,
    EventActions, EventRules        \* the names the objects can have

\* The pairs of R with the references of x replaced by references to S
Refer(R, x, S) == {p \in R : p[1] # x} \cup ({x} \X S)

\* The pairs of R without the ones from an object in X
WithoutSources(R, X) == {p \in R : p[1] \notin X}

\* The pairs of R without the ones to y
WithoutTarget(R, y) == {p \in R : p[2] # y}

\* The objects that R refers to y from
Sources(R, y) == {p[1] : p \in {q \in R : q[2] = y}}

\* The objects that R refers to from x
Targets(R, x) == {p[2] : p \in {q \in R : q[1] = x}}

\* The value of an optional field: one name or none
AtMostOne(S) == {{}} \cup {{x} : x \in S}

\* Every pair of R is from an object in X to an object in Y
Connects(R, X, Y) == R \subseteq X \X Y
================================================================================
