--------------------------- MODULE MCMemoryDefender ---------------------------
(* Four hosts, so that both limits are exceeded, and one connecting client. *)
EXTENDS MemoryDefender, TLC

CONSTANTS ip1, ip2, ip3, ip4, c1

MC_FourIPs == {ip1, ip2, ip3, ip4}
MC_Callers == {c1}
Symmetry == Permutations(MC_FourIPs)
===============================================================================
