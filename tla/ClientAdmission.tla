---------------------------- MODULE ClientAdmission ----------------------------
(***************************************************************************)
(* Admission of network clients: clientsMap (internal/common/clientsmap.go)*)
(* and ActiveConnections.IsNewConnectionAllowed, as the goroutine of each  *)
(* protocol server that accepts a client goes through them.                *)
(*                                                                         *)
(* totalConnections is atomic and is changed outside the mutex by add and  *)
(* read outside it by getTotal, so these are steps of their own; the mutex *)
(* mu protects clients and is held by the goroutine in "removing".  The    *)
(* checks run one after the other, with other goroutines in between.       *)
(***************************************************************************)
EXTENDS GoMaps, FiniteSets

CONSTANTS
    Handlers,               \* goroutines that accept clients
    Hosts,                  \* IP addresses
    MaxTotalConnections,    \* 0 means no limit
    MaxPerHostConnections,  \* 0 means no limit
    SessionBound            \* bound of the model on the established sessions

ASSUME AdmissionAssumption ==
    /\ IsFiniteSet(Handlers)
    /\ MaxTotalConnections \in Nat
    /\ MaxPerHostConnections \in Nat
    /\ SessionBound \in Nat

VARIABLES
    totalConnections,
    clients,        \* host -> number of its clients
    sessions,       \* len(conns.connections)
    pc,             \* where each handler is
    host            \* the address of the client of each handler

vars == <<totalConnections, clients, sessions, pc, host>>

\* "counted": in the total only; "tracked": in clients too, not checked yet;
\* "removing": out of the total, still in clients and holding mu.
Places == {"idle", "counted", "tracked", "hostChecked", "totalChecked",
           "allowed", "leaving", "removing"}

InTotal == Places \ {"idle", "removing"}
InClients == Places \ {"idle", "counted"}
PastTotal == {"totalChecked", "allowed"}
PastHost == {"hostChecked", "totalChecked", "allowed"}

At(S) == {h \in Handlers : pc[h] \in S}
AtFrom(S, ip) == {h \in At(S) : host[h] = ip}
goto(h, place) == pc' = [pc EXCEPT ![h] = place]
muFree == At({"removing"}) = {}

Init ==
    /\ totalConnections = 0
    /\ clients = EmptyMap
    /\ sessions = 0
    /\ pc = [h \in Handlers |-> "idle"]
    /\ host \in [Handlers -> Hosts]

-------------------------------------------------------------------------------
\* clientsMap.add: the total first, then, with the mutex, the host.
addTotal(h, ip) ==
    /\ pc[h] = "idle"
    /\ totalConnections' = totalConnections + 1
    /\ host' = [host EXCEPT ![h] = ip]
    /\ goto(h, "counted")
    /\ UNCHANGED <<clients, sessions>>

addHost(h) ==
    /\ pc[h] = "counted"
    /\ muFree
    /\ clients' = MapIncrement(clients, host[h])
    /\ goto(h, "tracked")
    /\ UNCHANGED <<totalConnections, sessions, host>>

\* The other reasons a client is refused, before or after these checks: it is
\* banned or not in the allow list, the service is shutting down, LimitRate or
\* the post-connect hook returns an error.
refuse(h) ==
    /\ pc[h] \in {"tracked", "allowed"}
    /\ goto(h, "leaving")
    /\ UNCHANGED <<totalConnections, clients, sessions, host>>

\* IsNewConnectionAllowed: getTotalFrom, getTotal and then, with conns.RLock,
\* the number of sessions.
tooManyFromOffByOne(ip) ==
    MaxPerHostConnections > 0 /\ MapCount(clients, ip) > MaxPerHostConnections + 1
tooManyFrom(ip) ==
    MaxPerHostConnections > 0 /\ MapCount(clients, ip) > MaxPerHostConnections

checkHost(h) ==
    /\ pc[h] = "tracked"
    /\ muFree
    /\ goto(h, IF tooManyFrom(host[h]) THEN "leaving" ELSE "hostChecked")
    /\ UNCHANGED <<totalConnections, clients, sessions, host>>

tooManyClientsOffByOne ==
    MaxTotalConnections > 0 /\ totalConnections > MaxTotalConnections + 1
tooManyClients ==
    MaxTotalConnections > 0 /\ totalConnections > MaxTotalConnections

checkTotalWaiting(h) ==
    /\ pc[h] = "hostChecked"
    /\ goto(h, IF tooManyClients THEN "hostChecked" ELSE "totalChecked")
    /\ UNCHANGED <<totalConnections, clients, sessions, host>>
checkTotal(h) ==
    /\ pc[h] = "hostChecked"
    /\ goto(h, IF tooManyClients THEN "leaving" ELSE "totalChecked")
    /\ UNCHANGED <<totalConnections, clients, sessions, host>>

tooManySessions ==
    MaxTotalConnections > 0 /\ sessions >= MaxTotalConnections

checkSessions(h) ==
    /\ pc[h] = "totalChecked"
    /\ goto(h, IF tooManySessions THEN "leaving" ELSE "allowed")
    /\ UNCHANGED <<totalConnections, clients, sessions, host>>

-------------------------------------------------------------------------------
\* Connections.Add and Connections.Remove: a client has one session over FTP
\* or HTTP and any number of them over SSH, where a session may end after the
\* handler of its client.
openSession(h) ==
    /\ pc[h] = "allowed"
    /\ sessions < SessionBound
    /\ sessions' = sessions + 1
    /\ UNCHANGED <<totalConnections, clients, pc, host>>

closeSession ==
    /\ sessions > 0
    /\ sessions' = sessions - 1
    /\ UNCHANGED <<totalConnections, clients, pc, host>>

\* The client goes away, or the server closes it.
disconnect(h) ==
    /\ pc[h] = "allowed"
    /\ goto(h, "leaving")
    /\ UNCHANGED <<totalConnections, clients, sessions, host>>

\* clientsMap.remove, with the mutex: a host that is not mapped is logged, and
\* otherwise the total changes before the entry of the host.
removeTotalForgotten(h) ==
    /\ pc[h] = "leaving"
    /\ muFree
    /\ totalConnections' = totalConnections
    /\ goto(h, IF host[h] \in DOMAIN clients THEN "removing" ELSE "idle")
    /\ UNCHANGED <<clients, sessions, host>>
removeTotal(h) ==
    /\ pc[h] = "leaving"
    /\ muFree
    /\ IF host[h] \in DOMAIN clients
       THEN totalConnections' = totalConnections - 1 /\ goto(h, "removing")
       ELSE totalConnections' = totalConnections /\ goto(h, "idle")
    /\ UNCHANGED <<clients, sessions, host>>

removeHostKeepingZero(h) ==
    /\ pc[h] = "removing"
    /\ clients' = MapPut(clients, host[h], clients[host[h]] - 1)
    /\ goto(h, "idle")
    /\ UNCHANGED <<totalConnections, sessions, host>>
removeHost(h) ==
    /\ pc[h] = "removing"
    /\ clients' = MapDecrement(clients, host[h])
    /\ goto(h, "idle")
    /\ UNCHANGED <<totalConnections, sessions, host>>

\* The steps that a handler takes without waiting for its client
handlerStep(h) ==
    \/ addHost(h)
    \/ checkHost(h)
    \/ checkTotal(h)
    \/ checkSessions(h)
    \/ removeTotal(h)
    \/ removeHost(h)

Next ==
    \/ \E h \in Handlers :
         \/ \E ip \in Hosts : addTotal(h, ip)
         \/ handlerStep(h)
         \/ refuse(h)
         \/ openSession(h)
         \/ disconnect(h)
    \/ closeSession

Spec == Init /\ [][Next]_vars

\* A runnable goroutine runs, and a sync.RWMutex does not starve a waiter.
FairSpec == Spec /\ \A h \in Handlers : SF_vars(handlerStep(h))

-------------------------------------------------------------------------------
\* The counters have their types, and clients has no entry for a host without
\* clients: remove deletes the entry that reaches zero.
TypeOK ==
    /\ totalConnections \in Nat
    /\ DOMAIN clients \subseteq Hosts
    /\ clients \in [DOMAIN clients -> Nat \ {0}]
    /\ sessions \in Nat
    /\ pc \in [Handlers -> Places]
    /\ host \in [Handlers -> Hosts]

\* In whatever order the two halves of add and of remove of several clients
\* interleave, no client is lost or counted twice: the total and the map of
\* the hosts differ by exactly the clients in the middle of add or remove.
ClientsAccounted ==
    /\ totalConnections = Cardinality(At(InTotal))
    /\ \A ip \in Hosts :
         MapCount(clients, ip) = Cardinality(AtFrom(InClients, ip))

\* The clients that passed the check of the total and are still connected are
\* never more than MaxTotalConnections, though check and admission are not
\* atomic: a client is in the total before it looks at it.
AdmittedWithinTotal ==
    MaxTotalConnections > 0
        => Cardinality(At(PastTotal)) <= MaxTotalConnections

\* Likewise for the clients of one host and MaxPerHostConnections.
AdmittedWithinHost ==
    MaxPerHostConnections > 0
        => \A ip \in Hosts :
             Cardinality(AtFrom(PastHost, ip)) <= MaxPerHostConnections

\* A client that connects is let in or leaves no trace: no handler waits for
\* ever for the mutex or between the two halves of remove.
AdmissionDecided ==
    \A h \in Handlers : pc[h] = "counted" ~> pc[h] \in {"allowed", "idle"}
===============================================================================
