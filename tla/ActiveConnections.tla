--------------------------- MODULE ActiveConnections ---------------------------
(***************************************************************************)
(* common.ActiveConnections: the registry of the connections and of the    *)
(* SSH connections being served (internal/common/common.go).  Every        *)
(* operation on the registry holds conns.Lock or conns.RLock for the whole *)
(* of its effect, so each is one step; what an operation defers until      *)
(* after the unlock (the Disconnect calls of Close and checkIdles) is a    *)
(* step of its own.  Indices count from 1 where the code counts from 0.    *)
(***************************************************************************)
EXTENDS GoMaps, FiniteSets

CONSTANTS
    FTPIDs,         \* identifiers of FTP connections
    ChannelIDs,     \* identifiers of the channels opened on SSH connections
    SSHIDs,         \* identifiers of SSH connections
    sshOf,          \* the SSH connection whose id a channel id contains
    Usernames,
    NoUser,         \* the empty username of a client not logged in yet
    SessionLimits   \* values of User.MaxSessions, 0 means no limit

ASSUME ConstantsAssumption ==
    /\ sshOf \in [ChannelIDs -> SSHIDs]
    /\ NoUser \notin Usernames
    /\ SessionLimits \subseteq Nat
    /\ FTPIDs \cap ChannelIDs = {}

ConnIDs == FTPIDs \cup ChannelIDs

VARIABLES
    connections,     \* the slice of connections, in slice order
    mapping,         \* connection id -> its index in connections
    perUserConns,    \* username -> number of its connections
    sshConnections,  \* the slice of SSH connections, in slice order
    sshMapping,      \* SSH connection id -> its index in sshConnections
    overdue,         \* ids whose last activity is older than their timeout
    closing,         \* ids with a deferred Disconnect/Close still to run
    closed           \* ids whose network connection has been closed

regVars == <<connections, mapping, perUserConns>>
sshVars == <<sshConnections, sshMapping>>
netVars == <<overdue, closing, closed>>
vars == <<regVars, sshVars, netVars>>

Connection ==
    [id : ConnIDs, user : Usernames \cup {NoUser}, maxSessions : SessionLimits \cup {0}]

SSHConnection == [id : SSHIDs]

Conns == Elements(connections)
SessionsOf(user) == {c \in Conns : c.user = user}
ChannelsOf(s) == {c \in DOMAIN mapping \cap ChannelIDs : sshOf[c] = s}

-------------------------------------------------------------------------------
addUserConnection(counts, user) ==
    IF user = NoUser THEN counts ELSE MapIncrement(counts, user)

removeUserConnectionKeepingZero(counts, user) ==
    IF user = NoUser THEN counts ELSE MapPut(counts, user, MapCount(counts, user) - 1)
removeUserConnection(counts, user) ==
    IF user = NoUser THEN counts ELSE MapDecrement(counts, user)

\* A connection c may not be opened when its user already has that many
tooManySessionsOffByOne(counts, c) ==
    /\ c.user # NoUser
    /\ c.maxSessions > 0
    /\ MapCount(counts, c.user) > c.maxSessions
tooManySessions(counts, c) ==
    /\ c.user # NoUser
    /\ c.maxSessions > 0
    /\ MapCount(counts, c.user) >= c.maxSessions

Init ==
    /\ connections = <<>>
    /\ mapping = EmptyMap
    /\ perUserConns = EmptyMap
    /\ sshConnections = <<>>
    /\ sshMapping = EmptyMap
    /\ overdue = {}
    /\ closing = {}
    /\ closed = {}

\* Identifiers are never used again: one is free for a new connection when
\* nothing of the model refers to an earlier connection that had it.
Unused(id) ==
    /\ id \notin DOMAIN mapping
    /\ id \notin DOMAIN sshMapping
    /\ id \notin closing

\* ActiveConnections.Add, called when an FTP client connects (with no user)
\* and when a session channel is opened on an SSH connection.  The error
\* return for too many sessions changes nothing.  A channel whose SSH
\* connection is gone already finds its network connection closed.
Add(c) ==
    /\ Unused(c.id)
    /\ ~tooManySessions(perUserConns, c)
    /\ perUserConns' = addUserConnection(perUserConns, c.user)
    /\ mapping' = MapPut(mapping, c.id, Len(connections) + 1)
    /\ connections' = Append(connections, c)
    /\ closed' =
         IF c.id \in ChannelIDs
            /\ (sshOf[c.id] \in closed \/ sshOf[c.id] \notin DOMAIN sshMapping)
         THEN closed \cup {c.id}
         ELSE closed
    /\ UNCHANGED <<sshVars, overdue, closing>>

ClientConnected(id) == Add([id |-> id, user |-> NoUser, maxSessions |-> 0])

ChannelOpened(id, user, limit) ==
    Add([id |-> id, user |-> user, maxSessions |-> limit])

\* ActiveConnections.Swap, called when an FTP client logs in (possibly again,
\* as another user): the connection leaves its old user's sessions, and is
\* counted for them again when the new user has too many.  The new connection
\* object starts with fresh activity.
SwapForgettingOld(c) ==
    /\ c.id \in DOMAIN mapping
    /\ LET idx == mapping[c.id]
           old == connections[idx].user
           without == removeUserConnection(perUserConns, old)
       IN IF tooManySessions(without, c)
          THEN /\ perUserConns' = without
               /\ UNCHANGED <<connections, overdue>>
          ELSE /\ perUserConns' = addUserConnection(without, c.user)
               /\ connections' = ReplaceAt(connections, idx, c)
               /\ overdue' = overdue \ {c.id}
    /\ UNCHANGED <<mapping, sshVars, closing, closed>>
Swap(c) ==
    /\ c.id \in DOMAIN mapping
    /\ LET idx == mapping[c.id]
           old == connections[idx].user
           without == removeUserConnection(perUserConns, old)
       IN IF tooManySessions(without, c)
          THEN /\ perUserConns' = addUserConnection(without, old)
               /\ UNCHANGED <<connections, overdue>>
          ELSE /\ perUserConns' = addUserConnection(without, c.user)
               /\ connections' = ReplaceAt(connections, idx, c)
               /\ overdue' = overdue \ {c.id}
    /\ UNCHANGED <<mapping, sshVars, closing, closed>>

UserAuthenticated(id, user, limit) ==
    Swap([id |-> id, user |-> user, maxSessions |-> limit])

\* ActiveConnections.Remove: the last connection takes the place of the
\* removed one and its index is stored again.
RemoveLosingIndex(id) ==
    /\ id \in DOMAIN mapping
    /\ LET idx == mapping[id]
       IN /\ connections' = SwapRemove(connections, idx)
          /\ mapping' = MapDelete(mapping, id)
          /\ perUserConns' = removeUserConnection(perUserConns, connections[idx].user)
    /\ overdue' = overdue \ {id}
    /\ closed' = closed \ {id}
    /\ UNCHANGED <<sshVars, closing>>
Remove(id) ==
    /\ id \in DOMAIN mapping
    /\ LET idx == mapping[id]
           lastIdx == Len(connections)
           others == MapDelete(mapping, id)
       IN /\ connections' = SwapRemove(connections, idx)
          /\ mapping' = IF idx # lastIdx
                        THEN MapPut(others, connections[lastIdx].id, idx)
                        ELSE others
          /\ perUserConns' = removeUserConnection(perUserConns, connections[idx].user)
    /\ overdue' = overdue \ {id}
    /\ closed' = closed \ {id}
    /\ UNCHANGED <<sshVars, closing>>

\* ActiveConnections.Close, an administrator's request: the connection found
\* under the read lock is disconnected after the unlock.
Close(id) ==
    /\ id \in DOMAIN mapping
    /\ closing' = closing \cup {id}
    /\ UNCHANGED <<regVars, sshVars, overdue, closed>>

\* AddSSHConnection; an SSH id is free when no channel of an earlier SSH
\* connection with that id is left.
AddSSHConnection(s) ==
    /\ Unused(s)
    /\ ChannelsOf(s) = {}
    /\ sshMapping' = MapPut(sshMapping, s, Len(sshConnections) + 1)
    /\ sshConnections' = Append(sshConnections, [id |-> s])
    /\ UNCHANGED <<regVars, netVars>>

\* RemoveSSHConnection, deferred by the goroutine that serves the SSH
\* connection: its network connection is closed, and so are its channels.
RemoveSSHConnection(s) ==
    /\ s \in DOMAIN sshMapping
    /\ LET idx == sshMapping[s]
           lastIdx == Len(sshConnections)
           others == MapDelete(sshMapping, s)
       IN /\ sshConnections' = SwapRemove(sshConnections, idx)
          /\ sshMapping' = IF idx # lastIdx
                           THEN MapPut(others, sshConnections[lastIdx].id, idx)
                           ELSE others
    /\ overdue' = overdue \ {s}
    /\ closed' = (closed \ {s}) \cup ChannelsOf(s)
    /\ UNCHANGED <<regVars, closing>>

-------------------------------------------------------------------------------
\* checkIdles: every overdue connection is disconnected, and every overdue
\* SSH connection none of whose channels has been active recently.
idleSSHConnections ==
    {s \in DOMAIN sshMapping \cap overdue : ChannelsOf(s) \subseteq overdue}

checkIdlesAuthenticated ==
    LET toClose == {c.id : c \in {d \in Conns : d.id \in overdue /\ d.user # NoUser}}
                   \cup idleSSHConnections
    IN /\ closing' = closing \cup toClose
       /\ UNCHANGED <<regVars, sshVars, overdue, closed>>
checkIdles ==
    LET toClose == {c.id : c \in {d \in Conns : d.id \in overdue}}
                   \cup idleSSHConnections
    IN /\ closing' = closing \cup toClose
       /\ UNCHANGED <<regVars, sshVars, overdue, closed>>

\* A Disconnect deferred by Close or checkIdles: the connection may be gone.
\* Closing an SSH connection closes its channels.
DisconnectIfIdle(id) ==
    /\ id \in closing
    /\ closing' = closing \ {id}
    /\ closed' = closed \cup ({id} \cap overdue) \cup ChannelsOf(id)
    /\ UNCHANGED <<regVars, sshVars, overdue>>
Disconnect(id) ==
    /\ id \in closing
    /\ closing' = closing \ {id}
    /\ closed' = closed \cup ({id} \cap (DOMAIN mapping \cup DOMAIN sshMapping))
                        \cup ChannelsOf(id)
    /\ UNCHANGED <<regVars, sshVars, overdue>>

\* The clock reaches the timeout of a connection or of an SSH connection...
Timeout(id) ==
    /\ id \in (DOMAIN mapping \cup DOMAIN sshMapping) \ overdue
    /\ overdue' = overdue \cup {id}
    /\ UNCHANGED <<regVars, sshVars, closing, closed>>

\* ... or the client does something: UpdateLastActivity.
UpdateLastActivity(id) ==
    /\ id \in overdue \ closed
    /\ overdue' = overdue \ {id}
    /\ UNCHANGED <<regVars, sshVars, closing, closed>>

Next ==
    \/ \E id \in FTPIDs : ClientConnected(id)
    \/ \E id \in ChannelIDs, user \in Usernames, limit \in SessionLimits :
         ChannelOpened(id, user, limit)
    \/ \E id \in FTPIDs, user \in Usernames, limit \in SessionLimits :
         UserAuthenticated(id, user, limit)
    \/ \E id \in ConnIDs : Remove(id) \/ Close(id)
    \/ \E s \in SSHIDs : AddSSHConnection(s) \/ RemoveSSHConnection(s)
    \/ checkIdles
    \/ \E id \in ConnIDs \cup SSHIDs :
         Disconnect(id) \/ Timeout(id) \/ UpdateLastActivity(id)

Spec == Init /\ [][Next]_vars

\* The scheduler keeps running checkIdles, a deferred Disconnect runs, and the
\* goroutine serving a closed connection gets an error and removes it.  Nothing
\* makes clients connect, log in, be active or be closed by an administrator.
Fairness ==
    /\ WF_vars(checkIdles)
    /\ \A id \in ConnIDs \cup SSHIDs : WF_vars(Disconnect(id))
    /\ \A id \in ConnIDs : WF_vars(id \in closed /\ Remove(id))
    /\ \A s \in SSHIDs : WF_vars(s \in closed /\ RemoveSSHConnection(s))

FairSpec == Spec /\ Fairness

-------------------------------------------------------------------------------
\* The slices and the counters hold what their Go types say, with no entry for
\* a user without sessions; the network state only mentions known identifiers.
TypeOK ==
    /\ connections \in Seq(Connection)
    /\ sshConnections \in Seq(SSHConnection)
    /\ mapping \in [DOMAIN mapping -> Nat \ {0}]
    /\ sshMapping \in [DOMAIN sshMapping -> Nat \ {0}]
    /\ DOMAIN perUserConns \subseteq Usernames
    /\ perUserConns \in [DOMAIN perUserConns -> Nat \ {0}]
    /\ closing \subseteq ConnIDs \cup SSHIDs
    /\ overdue \cup closed \subseteq DOMAIN mapping \cup DOMAIN sshMapping

\* map is the inverse of the ids of seq: it has the ids of the slice and no
\* others, and gives each the place of its only entry.
IsInverse(seq, map) ==
    /\ DOMAIN map = {seq[i].id : i \in 1 .. Len(seq)}
    /\ \A i \in 1 .. Len(seq) : map[seq[i].id] = i

\* Whatever the order of Add, Swap and Remove (which moves the last entry into
\* the gap), the two indexes stay the exact inverses of the two slices: no
\* operation addresses another client's connection and none is lost.
MappingInverse ==
    /\ IsInverse(connections, mapping)
    /\ IsInverse(sshConnections, sshMapping)

\* perUserConns, which Add, Swap (also when it fails half-way) and Remove keep
\* incrementally, always equals the number of connections of each user.
SessionCount ==
    \A u \in Usernames : MapCount(perUserConns, u) = Cardinality(SessionsOf(u))

\* MaxSessions is never exceeded, even when the limit of a user is changed
\* between logins: in every group of live sessions of a user there is one that
\* was opened under a limit that allows a group of that size.
SessionsWithinLimit ==
    \A u \in Usernames : \A T \in SUBSET SessionsOf(u) :
        T # {} => \E c \in T : c.maxSessions = 0 \/ Cardinality(T) <= c.maxSessions

\* An overdue connection does not stay: it becomes active again or it is
\* removed.  An overdue SSH connection does, unless a channel of it is active.
IdleReaped ==
    /\ \A id \in ConnIDs : id \in overdue ~> id \notin overdue
    /\ \A s \in SSHIDs :
         s \in overdue ~> (s \notin overdue \/ ~ (ChannelsOf(s) \subseteq overdue))

\* A connection an administrator or the idle check closes leaves the registry.
CloseRemoves ==
    \A id \in ConnIDs : (id \in closing) ~> (id \notin DOMAIN mapping)
===============================================================================
