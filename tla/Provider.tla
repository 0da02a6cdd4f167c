------------------------------- MODULE Provider -------------------------------
(***************************************************************************)
(* What every data provider promises for the objects it stores, the        *)
(* interface Provider of internal/dataprovider/dataprovider.go: an         *)
(* operation is done as a whole or not at all, an object is stored only    *)
(* with references to objects that exist, and a delete either is refused   *)
(* because the object is in use, or takes the references with it.  The     *)
(* modules of the bolt, memory and SQL providers implement this one.  An   *)
(* operation that fails changes nothing and is a stuttering step.          *)
(***************************************************************************)
EXTENDS ProviderLinks

VARIABLES
    users, admins, groups, folders, roles, apiKeys, shares,
    eventActions, eventRules,   \* the names of the objects that exist
    userRole, userGroups, userFolders,  \* user.Role, Groups, VirtualFolders
    groupFolders,                       \* group.VirtualFolders
    adminRole, adminGroups,             \* admin.Role, Groups
    keyUser, keyAdmin,                  \* apiKey.User, apiKey.Admin
    shareUser,                          \* share.Username
    ruleActions                         \* rule.Actions

userVars == <<users, userRole, userGroups, userFolders>>
adminVars == <<admins, adminRole, adminGroups>>
groupVars == <<groups, groupFolders>>
keyVars == <<apiKeys, keyUser, keyAdmin>>
shareVars == <<shares, shareUser>>
ruleVars == <<eventRules, ruleActions>>

vars == <<userVars, adminVars, groupVars, keyVars, shareVars, ruleVars,
          folders, roles, eventActions>>

Init ==
    /\ users = {} /\ userRole = {} /\ userGroups = {} /\ userFolders = {}
    /\ admins = {} /\ adminRole = {} /\ adminGroups = {}
    /\ groups = {} /\ groupFolders = {}
    /\ apiKeys = {} /\ keyUser = {} /\ keyAdmin = {}
    /\ shares = {} /\ shareUser = {}
    /\ eventRules = {} /\ ruleActions = {}
    /\ folders = {} /\ roles = {} /\ eventActions = {}

-------------------------------------------------------------------------------
StoreUser(u, rs, gs, fs) ==
    /\ rs \subseteq roles /\ gs \subseteq groups /\ fs \subseteq folders
    /\ users' = users \cup {u}
    /\ userRole' = Refer(userRole, u, rs)
    /\ userGroups' = Refer(userGroups, u, gs)
    /\ userFolders' = Refer(userFolders, u, fs)
    /\ UNCHANGED <<adminVars, groupVars, keyVars, shareVars, ruleVars,
                   folders, roles, eventActions>>

AddUser(u, rs, gs, fs) == u \notin users /\ StoreUser(u, rs, gs, fs)
UpdateUser(u, rs, gs, fs) == u \in users /\ StoreUser(u, rs, gs, fs)

\* A user takes their API keys and shares with them
DeleteUser(u) ==
    LET ks == Sources(keyUser, u)
        ss == Sources(shareUser, u)
    IN /\ u \in users
       /\ users' = users \ {u}
       /\ userRole' = WithoutSources(userRole, {u})
       /\ userGroups' = WithoutSources(userGroups, {u})
       /\ userFolders' = WithoutSources(userFolders, {u})
       /\ apiKeys' = apiKeys \ ks
       /\ keyUser' = WithoutSources(keyUser, ks)
       /\ keyAdmin' = WithoutSources(keyAdmin, ks)
       /\ shares' = shares \ ss
       /\ shareUser' = WithoutSources(shareUser, ss)
       /\ UNCHANGED <<adminVars, groupVars, ruleVars,
                      folders, roles, eventActions>>

StoreAdmin(a, rs, gs) ==
    /\ rs \subseteq roles /\ gs \subseteq groups
    /\ admins' = admins \cup {a}
    /\ adminRole' = Refer(adminRole, a, rs)
    /\ adminGroups' = Refer(adminGroups, a, gs)
    /\ UNCHANGED <<userVars, groupVars, keyVars, shareVars, ruleVars,
                   folders, roles, eventActions>>

AddAdmin(a, rs, gs) == a \notin admins /\ StoreAdmin(a, rs, gs)
UpdateAdmin(a, rs, gs) == a \in admins /\ StoreAdmin(a, rs, gs)

\* An admin takes their API keys with them
DeleteAdmin(a) ==
    LET ks == Sources(keyAdmin, a)
    IN /\ a \in admins
       /\ admins' = admins \ {a}
       /\ adminRole' = WithoutSources(adminRole, {a})
       /\ adminGroups' = WithoutSources(adminGroups, {a})
       /\ apiKeys' = apiKeys \ ks
       /\ keyUser' = WithoutSources(keyUser, ks)
       /\ keyAdmin' = WithoutSources(keyAdmin, ks)
       /\ UNCHANGED <<userVars, groupVars, shareVars, ruleVars,
                      folders, roles, eventActions>>

StoreGroup(g, fs) ==
    /\ fs \subseteq folders
    /\ groups' = groups \cup {g}
    /\ groupFolders' = Refer(groupFolders, g, fs)
    /\ UNCHANGED <<userVars, adminVars, keyVars, shareVars, ruleVars,
                   folders, roles, eventActions>>

AddGroup(g, fs) == g \notin groups /\ StoreGroup(g, fs)
UpdateGroup(g, fs) == g \in groups /\ StoreGroup(g, fs)

\* "the group is referenced, it cannot be removed": by a user.  The admins
\* that refer to the group just lose it
DeleteGroup(g) ==
    /\ g \in groups
    /\ Sources(userGroups, g) = {}
    /\ groups' = groups \ {g}
    /\ groupFolders' = WithoutSources(groupFolders, {g})
    /\ adminGroups' = WithoutTarget(adminGroups, g)
    /\ UNCHANGED <<userVars, admins, adminRole, keyVars, shareVars, ruleVars,
                   folders, roles, eventActions>>

AddFolder(f) ==
    /\ f \notin folders
    /\ folders' = folders \cup {f}
    /\ UNCHANGED <<userVars, adminVars, groupVars, keyVars, shareVars,
                   ruleVars, roles, eventActions>>

\* The users and the groups that refer to the folder lose it
DeleteFolder(f) ==
    /\ f \in folders
    /\ folders' = folders \ {f}
    /\ userFolders' = WithoutTarget(userFolders, f)
    /\ groupFolders' = WithoutTarget(groupFolders, f)
    /\ UNCHANGED <<users, userRole, userGroups, adminVars, groups, keyVars,
                   shareVars, ruleVars, roles, eventActions>>

AddRole(r) ==
    /\ r \notin roles
    /\ roles' = roles \cup {r}
    /\ UNCHANGED <<userVars, adminVars, groupVars, keyVars, shareVars,
                   ruleVars, folders, eventActions>>

\* "the role is referenced, it cannot be removed": by an admin.  The users
\* that have the role just lose it
DeleteRole(r) ==
    /\ r \in roles
    /\ Sources(adminRole, r) = {}
    /\ roles' = roles \ {r}
    /\ userRole' = WithoutTarget(userRole, r)
    /\ UNCHANGED <<users, userGroups, userFolders, adminVars, groupVars,
                   keyVars, shareVars, ruleVars, folders, eventActions>>

StoreAPIKey(k, us, ads) ==
    /\ us \subseteq users /\ ads \subseteq admins
    /\ apiKeys' = apiKeys \cup {k}
    /\ keyUser' = Refer(keyUser, k, us)
    /\ keyAdmin' = Refer(keyAdmin, k, ads)
    /\ UNCHANGED <<userVars, adminVars, groupVars, shareVars, ruleVars,
                   folders, roles, eventActions>>

AddAPIKey(k, us, ads) == k \notin apiKeys /\ StoreAPIKey(k, us, ads)
UpdateAPIKey(k, us, ads) == k \in apiKeys /\ StoreAPIKey(k, us, ads)

DeleteAPIKey(k) ==
    /\ k \in apiKeys
    /\ apiKeys' = apiKeys \ {k}
    /\ keyUser' = WithoutSources(keyUser, {k})
    /\ keyAdmin' = WithoutSources(keyAdmin, {k})
    /\ UNCHANGED <<userVars, adminVars, groupVars, shareVars, ruleVars,
                   folders, roles, eventActions>>

StoreShare(s, u) ==
    /\ u \in users
    /\ shares' = shares \cup {s}
    /\ shareUser' = Refer(shareUser, s, {u})
    /\ UNCHANGED <<userVars, adminVars, groupVars, keyVars, ruleVars,
                   folders, roles, eventActions>>

AddShare(s, u) == s \notin shares /\ StoreShare(s, u)

\* Only a restore, and only with some providers, changes the owner
UpdateShare(s, u) == s \in shares /\ StoreShare(s, u)

DeleteShare(s) ==
    /\ s \in shares
    /\ shares' = shares \ {s}
    /\ shareUser' = WithoutSources(shareUser, {s})
    /\ UNCHANGED <<userVars, adminVars, groupVars, keyVars, ruleVars,
                   folders, roles, eventActions>>

AddEventAction(a) ==
    /\ a \notin eventActions
    /\ eventActions' = eventActions \cup {a}
    /\ UNCHANGED <<userVars, adminVars, groupVars, keyVars, shareVars,
                   ruleVars, folders, roles>>

\* "the action is referenced, it cannot be removed": by a rule
DeleteEventAction(a) ==
    /\ a \in eventActions
    /\ Sources(ruleActions, a) = {}
    /\ eventActions' = eventActions \ {a}
    /\ UNCHANGED <<userVars, adminVars, groupVars, keyVars, shareVars,
                   ruleVars, folders, roles>>

StoreEventRule(r, acs) ==
    /\ acs \subseteq eventActions
    /\ eventRules' = eventRules \cup {r}
    /\ ruleActions' = Refer(ruleActions, r, acs)
    /\ UNCHANGED <<userVars, adminVars, groupVars, keyVars, shareVars,
                   folders, roles, eventActions>>

AddEventRule(r, acs) == r \notin eventRules /\ StoreEventRule(r, acs)
UpdateEventRule(r, acs) == r \in eventRules /\ StoreEventRule(r, acs)

DeleteEventRule(r) ==
    /\ r \in eventRules
    /\ eventRules' = eventRules \ {r}
    /\ ruleActions' = WithoutSources(ruleActions, {r})
    /\ UNCHANGED <<userVars, adminVars, groupVars, keyVars, shareVars,
                   folders, roles, eventActions>>

-------------------------------------------------------------------------------
UserNext ==
    \E u \in Users :
        \/ \E rs \in AtMostOne(Roles), gs \in SUBSET Groups,
              fs \in SUBSET Folders :
               AddUser(u, rs, gs, fs) \/ UpdateUser(u, rs, gs, fs)
        \/ DeleteUser(u)

AdminNext ==
    \E a \in Admins :
        \/ \E rs \in AtMostOne(Roles), gs \in SUBSET Groups :
               AddAdmin(a, rs, gs) \/ UpdateAdmin(a, rs, gs)
        \/ DeleteAdmin(a)

GroupNext ==
    \E g \in Groups :
        \/ \E fs \in SUBSET Folders : AddGroup(g, fs) \/ UpdateGroup(g, fs)
        \/ DeleteGroup(g)

FolderNext == \E f \in Folders : AddFolder(f) \/ DeleteFolder(f)

RoleNext == \E r \in Roles : AddRole(r) \/ DeleteRole(r)

\* An API key is for a user, for an admin, or for any of its scope
APIKeyNext ==
    \E k \in APIKeys :
        \/ \E us \in AtMostOne(Users) :
               AddAPIKey(k, us, {}) \/ UpdateAPIKey(k, us, {})
        \/ \E ads \in AtMostOne(Admins) :
               AddAPIKey(k, {}, ads) \/ UpdateAPIKey(k, {}, ads)
        \/ DeleteAPIKey(k)

ShareNext ==
    \E s \in Shares :
        \/ \E u \in Users : AddShare(s, u) \/ UpdateShare(s, u)
        \/ DeleteShare(s)

EventNext ==
    \/ \E a \in EventActions : AddEventAction(a) \/ DeleteEventAction(a)
    \/ \E r \in EventRules :
           \/ \E acs \in SUBSET EventActions :
                  AddEventRule(r, acs) \/ UpdateEventRule(r, acs)
           \/ DeleteEventRule(r)

Next ==
    \/ UserNext \/ AdminNext \/ GroupNext \/ FolderNext \/ RoleNext
    \/ APIKeyNext \/ ShareNext \/ EventNext

Spec == Init /\ [][Next]_vars
===============================================================================
