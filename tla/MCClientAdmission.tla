--------------------------- MODULE MCClientAdmission ---------------------------
(* Three handlers and three hosts: one client more than the limits allow. *)
EXTENDS ClientAdmission

CONSTANTS g1, g2, g3, ip1, ip2, ip3

MC_Handlers == {g1, g2, g3}
MC_Hosts == {ip1, ip2, ip3}
===============================================================================
