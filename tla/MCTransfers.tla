------------------------------ MODULE MCTransfers ------------------------------
(***************************************************************************)
(* Two transfers of one user, each on a connection of its own and with the *)
(* same id there.                                                          *)
(***************************************************************************)
EXTENDS Transfers

CONSTANTS t1, t2, c1, c2, u1,
    Protocol1, Protocol2,   \* of the two connections
    Overwritten,            \* size of the file the first upload overwrites
    DiskQuota, DataQuota    \* disk quota, quota of all the data transferred

MC_Transfers == {t1, t2}
MC_Connections == {c1, c2}
MC_Users == {u1}
MC_connOf == [t \in MC_Transfers |-> IF t = t1 THEN c1 ELSE c2]
MC_idOf == [t \in MC_Transfers |-> 1]
MC_userOf == [c \in MC_Connections |-> u1]
MC_protocolOf == [c \in MC_Connections |-> IF c = c1 THEN Protocol1 ELSE Protocol2]
MC_Downloads == {t2}
MC_fileSizes == [t \in MC_Transfers |-> IF t = t1 THEN {Overwritten} ELSE {0}]
MC_hasTruncate == [t \in MC_Transfers |-> t = t2]

MC_Limits == {[size |-> DiskQuota, total |-> 0, ul |-> 0, dl |-> 0],
              [size |-> 0, total |-> DataQuota, ul |-> 0, dl |-> 0]}
===============================================================================
