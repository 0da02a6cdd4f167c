------------------------ MODULE MCActiveConnections ------------------------
(* An FTP connection, a channel on the first of two SSH connections, two    *)
(* users and a limit of one session: enough for logins refused half-way,    *)
(* for removals that move the last entry of a slice, and for connections    *)
(* that are closed by the idle check and by an administrator at once.       *)
EXTENDS ActiveConnections

CONSTANTS f1, c1, s1, s2, u1, u2

MC_FTPIDs == {f1}
MC_ChannelIDs == {c1}
MC_SSHIDs == {s1, s2}
MC_sshOf == [c \in {c1} |-> s1]
MC_Usernames == {u1, u2}
=============================================================================
