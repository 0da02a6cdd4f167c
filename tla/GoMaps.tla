-------------------------------- MODULE GoMaps --------------------------------
(***************************************************************************)
(* The Go map and slice idioms the service is written with: a map is a     *)
(* function whose domain is the set of the keys it holds, and a lookup of  *)
(* a missing key in a map of integers yields the zero value.               *)
(***************************************************************************)
EXTENDS Integers, Sequences

EmptyMap == [k \in {} |-> 0]

\* m[k] = v
MapPut(m, k, v) == [x \in DOMAIN m \cup {k} |-> IF x = k THEN v ELSE m[x]]

\* delete(m, k): a missing key is not an error
MapDelete(m, k) == [x \in DOMAIN m \ {k} |-> m[x]]

\* m[k] of a map of integers
MapCount(m, k) == IF k \in DOMAIN m THEN m[k] ELSE 0

\* A counter map as the code keeps it: m[k]++
MapIncrement(m, k) == MapPut(m, k, MapCount(m, k) + 1)

\* if val, ok := m[k]; ok { m[k]--; if val > 1 { return }; delete(m, k) }
MapDecrement(m, k) ==
    CASE k \notin DOMAIN m -> m
      [] k \in DOMAIN m /\ m[k] > 1 -> MapPut(m, k, m[k] - 1)
      [] OTHER -> MapDelete(m, k)

\* s[i] = v
ReplaceAt(s, i, v) == [s EXCEPT ![i] = v]

\* s[i] = s[len(s)-1]; s = s[:len(s)-1], for an index i of s (counted from 1)
SwapRemove(s, i) ==
    [j \in 1 .. (Len(s) - 1) |-> IF j = i THEN s[Len(s)] ELSE s[j]]

\* The values a slice holds
Elements(s) == {s[i] : i \in 1 .. Len(s)}
===============================================================================
