----------------------------- MODULE CachedUsers -----------------------------
(***************************************************************************)
(* The cache of the users that logged in over WebDAV on one node           *)
(* (usersCache of internal/dataprovider/cacheduser.go) beside the users of *)
(* the provider.  A request reads or writes a user in the provider and     *)
(* changes the cache in a later step; requests of this node and of others  *)
(* come in between, and so does checkUserCache, which every ten minutes    *)
(* brings the cache up to date with the users updated since the last time. *)
(* The database is shared: a deleted user is marked, and the row, which is *)
(* purged half an hour later (see SQLProvider), stays here.                *)
(* The waits the code does not bound are bounded by assumption: a request  *)
(* commits an update within Delay of taking the time it stores as          *)
(* updated_at, and changes the cache within Delay of having read the user  *)
(* or committed it; clocks that differ count towards the first.  Group     *)
(* settings are part of a user here and change only with it.               *)
(***************************************************************************)
EXTENDS GoMaps, Integers, FiniteSets

CONSTANTS
    Users, Requests,
    Values,           \* what the provider stores for a user
    password, fs,     \* the password and the file system in a value
    maxSize,          \* 0: no limit
    Slack,            \* the 5 seconds checkUserCache looks back, if shared
    Delay,
    MaxTime           \* bound: the clock stops here

ASSUME CacheAssumption ==
    /\ password \in [Values -> Nat] /\ fs \in [Values -> Nat]
    /\ maxSize \in Nat /\ Slack \in Nat /\ Delay \in Nat
    /\ 2 * Delay <= Slack

VARIABLES
    now,
    rows,          \* the users table: value, updatedAt, marked as deleted
    cache,         \* usersCache.users
    requests,      \* the requests that are between two steps
    lastCheck,     \* lastUserCacheUpdate
    check,         \* where the check is: "idle", "query" or "swap"
    checkTime,     \* when it started, 0 if none runs
    updated        \* the rows the check has read and not looked at yet

vars == <<now, rows, cache, requests, lastCheck, check, checkTime, updated>>

Init ==
    /\ now = 0
    /\ rows = EmptyMap
    /\ cache = EmptyMap
    /\ requests = EmptyMap
    /\ lastCheck = 0
    /\ check = "idle"
    /\ checkTime = 0
    /\ updated = EmptyMap

\* userExists does not see a marked row
found(u) == u \in DOMAIN rows /\ ~ rows[u].marked

\* Request r is at its next step, with the value v of the user u
go(r, next, u, v) ==
    MapPut(requests, r, [pc |-> next, user |-> u, value |-> v, since |-> now])
at(r, pc) == r \in DOMAIN requests /\ requests[r].pc = pc
isIdle(r) == r \notin DOMAIN requests
finish(r) == requests' = MapDelete(requests, r)

-------------------------------------------------------------------------------
\* usersCache

remove(u) == MapDelete(cache, u)

\* What swap may leave: a cached user is replaced if the password and the file
\* system are still the same, and removed if not or if the group settings cannot
\* be loaded.  A plain password stands for a password that is known to be right
swap(u, v, plain) ==
    IF u \notin DOMAIN cache THEN {cache}
    ELSE IF (plain \/ password[cache[u]] = password[v]) /\ fs[cache[u]] = fs[v]
         THEN {MapPut(cache, u, v), remove(u)}
         ELSE {remove(u)}

\* A full cache loses one user first, the one that expires first: any of them
evict == IF maxSize > 0 /\ Cardinality(DOMAIN cache) >= maxSize
         THEN {remove(x) : x \in DOMAIN cache}
         ELSE {cache}

add(u, v) == {MapPut(c, u, v) : c \in evict}

-------------------------------------------------------------------------------
\* A login over WebDAV

\* The user was not in the cache, which may have changed since:
\* CheckCompositeCredentials reads it
authenticate(r, u) ==
    /\ isIdle(r)
    /\ found(u)
    /\ requests' = go(r, "add", u, rows[u].value)
    /\ UNCHANGED <<now, rows, cache, lastCheck, check, checkTime, updated>>

\* The user was in the cache and an external program authenticates: the user is
\* read again and swapped in
CheckCachedUserCredentials(r, u) ==
    /\ isIdle(r)
    /\ found(u)
    /\ requests' = go(r, "swapLogin", u, rows[u].value)
    /\ UNCHANGED <<now, rows, cache, lastCheck, check, checkTime, updated>>

swapLogin(r) ==
    /\ at(r, "swapLogin")
    /\ cache' \in swap(requests[r].user, requests[r].value, TRUE)
    /\ requests' = [requests EXCEPT ![r].pc = "get"]
    /\ UNCHANGED <<now, rows, lastCheck, check, checkTime, updated>>

getSwapped(r) ==
    /\ at(r, "get")
    /\ IF requests[r].user \in DOMAIN cache
       THEN finish(r)
       ELSE requests' = [requests EXCEPT ![r].pc = "add"]
    /\ UNCHANGED <<now, rows, cache, lastCheck, check, checkTime, updated>>

CacheWebDAVUser(r) ==
    /\ at(r, "add")
    /\ cache' \in add(requests[r].user, requests[r].value)
    /\ finish(r)
    /\ UNCHANGED <<now, rows, lastCheck, check, checkTime, updated>>

\* A request finds its cached user expired, or not allowed to log in any more
RemoveCachedWebDAVUser(u) ==
    /\ u \in DOMAIN cache
    /\ cache' = remove(u)
    /\ UNCHANGED <<now, rows, requests, lastCheck, check, checkTime, updated>>

-------------------------------------------------------------------------------
\* The changes of the users

\* The time that goes into updated_at is taken, and the transaction starts
updateUser(r, u, v) ==
    /\ isIdle(r)
    /\ found(u)
    /\ requests' = go(r, "commitUpdate", u, v)
    /\ UNCHANGED <<now, rows, cache, lastCheck, check, checkTime, updated>>

addUser(r, u, v) ==
    /\ isIdle(r)
    /\ requests' = go(r, "commitAdd", u, v)
    /\ UNCHANGED <<now, rows, cache, lastCheck, check, checkTime, updated>>

commitRow(r, marked) ==
    rows' = MapPut(rows, requests[r].user,
                   [value |-> requests[r].value, updatedAt |-> requests[r].since,
                    marked |-> marked])

\* The update reaches a row that was marked meanwhile, too.  UpdateUser
\* and UpdateUserPassword, which knows the plain password, swap what they have
\* stored; a request of another node ends here
commitUpdate(r) ==
    /\ at(r, "commitUpdate")
    /\ commitRow(r, rows[requests[r].user].marked)
    /\ \/ \E next \in {"swap", "swapPlain"} :
             requests' = go(r, next, requests[r].user, requests[r].value)
       \/ finish(r)
    /\ UNCHANGED <<now, cache, lastCheck, check, checkTime, updated>>

\* The row of a deleted user is replaced, and nothing is cached
commitAdd(r) ==
    /\ at(r, "commitAdd")
    /\ ~ found(requests[r].user)
    /\ commitRow(r, FALSE)
    /\ finish(r)
    /\ UNCHANGED <<now, cache, lastCheck, check, checkTime, updated>>

\* The name is taken, or the database reports an error
commitFails(r) ==
    /\ at(r, "commitUpdate") \/ at(r, "commitAdd")
    /\ finish(r)
    /\ UNCHANGED <<now, rows, cache, lastCheck, check, checkTime, updated>>

swapUpdated(r) ==
    /\ at(r, "swap") \/ at(r, "swapPlain")
    /\ cache' \in swap(requests[r].user, requests[r].value,
                       requests[r].pc = "swapPlain")
    /\ finish(r)
    /\ UNCHANGED <<now, rows, lastCheck, check, checkTime, updated>>

DeleteUser(r, u) ==
    /\ isIdle(r)
    /\ found(u)
    /\ rows' = [rows EXCEPT ![u].marked = TRUE, ![u].updatedAt = now]
    /\ \/ requests' = go(r, "remove", u, rows[u].value)
       \/ UNCHANGED requests
    /\ UNCHANGED <<now, cache, lastCheck, check, checkTime, updated>>

removeDeleted(r) ==
    /\ at(r, "remove")
    /\ cache' = remove(requests[r].user)
    /\ finish(r)
    /\ UNCHANGED <<now, rows, lastCheck, check, checkTime, updated>>

-------------------------------------------------------------------------------
\* checkUserCache

checkUserCache ==
    /\ check = "idle"
    /\ check' = "query"
    /\ checkTime' = now
    /\ UNCHANGED <<now, rows, cache, requests, lastCheck, updated>>

\* As it would be if the users were only looked for since the last check
getRecentlyUpdatedNoSlack ==
    /\ check = "query"
    /\ check' = "swap"
    /\ updated' = [u \in {x \in DOMAIN rows : \/ rows[x].updatedAt >= lastCheck
                                              \/ rows[x].marked} |-> rows[u]]
    /\ UNCHANGED <<now, rows, cache, requests, lastCheck, checkTime>>

\* The users updated since the last check, less the slack, or marked as deleted
getRecentlyUpdatedUsers ==
    /\ check = "query"
    /\ check' = "swap"
    /\ updated' = [u \in {x \in DOMAIN rows :
                            \/ rows[x].updatedAt >= lastCheck - Slack
                            \/ rows[x].marked} |-> rows[u]]
    /\ UNCHANGED <<now, rows, cache, requests, lastCheck, checkTime>>

\* The query fails: the next check starts from the same time again
checkFails ==
    /\ check = "query"
    /\ check' = "idle"
    /\ checkTime' = 0
    /\ UNCHANGED <<now, rows, cache, requests, lastCheck, updated>>

invalidate(u) ==
    /\ check = "swap"
    /\ u \in DOMAIN updated
    /\ cache' \in IF updated[u].marked THEN {remove(u)}
                  ELSE swap(u, updated[u].value, FALSE)
    /\ updated' = MapDelete(updated, u)
    /\ UNCHANGED <<now, rows, requests, lastCheck, check, checkTime>>

endCheck ==
    /\ check = "swap"
    /\ updated = EmptyMap
    /\ check' = "idle"
    /\ lastCheck' = checkTime
    /\ checkTime' = 0
    /\ UNCHANGED <<now, rows, cache, requests, updated>>

-------------------------------------------------------------------------------
\* A request leaves each step within Delay
Tick ==
    /\ now < MaxTime
    /\ \A r \in DOMAIN requests : now < requests[r].since + Delay
    /\ now' = now + 1
    /\ UNCHANGED <<rows, cache, requests, lastCheck, check, checkTime, updated>>

Next ==
    \/ \E r \in Requests, u \in Users :
          \/ authenticate(r, u) \/ CheckCachedUserCredentials(r, u)
          \/ DeleteUser(r, u)
          \/ \E v \in Values : addUser(r, u, v) \/ updateUser(r, u, v)
    \/ \E r \in Requests :
          \/ swapLogin(r) \/ getSwapped(r) \/ CacheWebDAVUser(r)
          \/ commitUpdate(r) \/ commitAdd(r) \/ commitFails(r)
          \/ swapUpdated(r) \/ removeDeleted(r)
    \/ \E u \in Users : RemoveCachedWebDAVUser(u) \/ invalidate(u)
    \/ checkUserCache \/ getRecentlyUpdatedUsers \/ checkFails \/ endCheck
    \/ Tick

Spec == Init /\ [][Next]_vars

-------------------------------------------------------------------------------
IsStale(u) ==
    u \in DOMAIN cache /\ (rows[u].marked \/ cache[u] # rows[u].value)

\* StaleWillBeSeen: a cached user that is not what the provider stores is one the
\* next check will be told about.  A login or a swap may put back a user that was
\* updated meanwhile, here or on another node, and the update may be committed
\* with a time before that of a check that missed it: checkUserCache looks back
\* far enough from the time it noted before its own query.
StaleWillBeSeen ==
    \A u \in Users :
        IsStale(u) => rows[u].marked \/ rows[u].updatedAt >= lastCheck - Slack
==============================================================================
