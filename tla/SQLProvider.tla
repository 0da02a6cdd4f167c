----------------------------- MODULE SQLProvider -----------------------------
(***************************************************************************)
(* The SQL data providers (internal/dataprovider/sqlcommon.go with the     *)
(* queries of sqlqueries.go and the tables of sqlite.go; the MySQL and     *)
(* PostgreSQL tables have the same keys).  An object is a row, a reference *)
(* is a foreign key or a row of a mapping table, and there are no reverse  *)
(* lists: the deletes rely on what the foreign keys say (CASCADE, SET NULL,*)
(* NO ACTION).  With a shared provider (is_shared = 1) a deleted user or   *)
(* event rule is only marked: every node must see the mark before the row  *)
(* is purged, half an hour later.                                          *)
(* A statement or a transaction is one step.  The reads that come before   *)
(* it may be stale, so an operation on a user finds a row that was marked  *)
(* since the read.  An operation that fails is a stuttering step.          *)
(***************************************************************************)
EXTENDS ProviderLinks

VARIABLES
    isShared,                           \* config.IsShared = 1
    users, admins, groups, folders, roles, apiKeys, shares,
    eventActions, eventRules,           \* the rows, by their unique name
    softUsers, softRules,               \* the rows with deleted_at > 0
    userRole, userGroups, userFolders, groupFolders, adminRole, adminGroups,
    keyUser, keyAdmin, shareUser, ruleActions,  \* keys and mapping tables
    purgeUsers, purgeRules              \* go provider.deleteUser(user, false),
                                        \* go RemoveEventRule(rule) to be run

userVars == <<users, softUsers, userRole, userGroups, userFolders>>
adminVars == <<admins, adminRole, adminGroups>>
groupVars == <<groups, groupFolders>>
keyVars == <<apiKeys, keyUser, keyAdmin>>
shareVars == <<shares, shareUser>>
ruleVars == <<eventRules, softRules, ruleActions>>
purgeVars == <<purgeUsers, purgeRules>>

vars == <<isShared, userVars, adminVars, groupVars, keyVars, shareVars,
          ruleVars, purgeVars, folders, roles, eventActions>>

Init ==
    /\ isShared \in BOOLEAN
    /\ users = {} /\ softUsers = {}
    /\ userRole = {} /\ userGroups = {} /\ userFolders = {}
    /\ admins = {} /\ adminRole = {} /\ adminGroups = {}
    /\ groups = {} /\ groupFolders = {}
    /\ apiKeys = {} /\ keyUser = {} /\ keyAdmin = {}
    /\ shares = {} /\ shareUser = {}
    /\ eventRules = {} /\ softRules = {} /\ ruleActions = {}
    /\ folders = {} /\ roles = {} /\ eventActions = {}
    /\ purgeUsers = {} /\ purgeRules = {}

-------------------------------------------------------------------------------
CascadeUsersNone(X) == UNCHANGED <<keyVars, shareVars>>
\* ON DELETE CASCADE of shares.user_id and api_keys.user_id
CascadeUsers(X) ==
    LET ks == {k \in apiKeys : Targets(keyUser, k) \cap X # {}}
        ss == {s \in shares : Targets(shareUser, s) \cap X # {}}
    IN /\ apiKeys' = apiKeys \ ks
       /\ keyUser' = WithoutSources(keyUser, ks)
       /\ keyAdmin' = WithoutSources(keyAdmin, ks)
       /\ shares' = shares \ ss
       /\ shareUser' = WithoutSources(shareUser, ss)

\* The role, the folders and the groups of the row of u; a name that does not
\* exist makes a key NULL or 0, which fails the transaction
generateUserMapping(u, rs, gs, fs) ==
    /\ rs \subseteq roles /\ gs \subseteq groups /\ fs \subseteq folders
    /\ userRole' = Refer(userRole, u, rs)
    /\ userGroups' = Refer(userGroups, u, gs)
    /\ userFolders' = Refer(userFolders, u, fs)

\* getRemoveSoftDeletedUserQuery, then the insert
addUser(u, rs, gs, fs) ==
    LET removed == IF isShared THEN {u} \cap softUsers ELSE {}
    IN /\ u \notin users \ removed
       /\ CascadeUsers(removed)
       /\ users' = users \cup {u}
       /\ softUsers' = softUsers \ removed
       /\ generateUserMapping(u, rs, gs, fs)
       /\ UNCHANGED <<isShared, adminVars, groupVars, ruleVars, purgeVars,
                      folders, roles, eventActions>>

\* The update does not look at deleted_at
updateUser(u, rs, gs, fs) ==
    /\ u \in users
    /\ generateUserMapping(u, rs, gs, fs)
    /\ UNCHANGED <<isShared, users, softUsers, adminVars, groupVars, keyVars,
                   shareVars, ruleVars, purgeVars, folders, roles,
                   eventActions>>

\* deleteUser(user, true): the mappings are cleared, the role, the keys and
\* the shares stay with the marked row
softDeleteUser(u) ==
    /\ isShared
    /\ u \in users
    /\ userGroups' = WithoutSources(userGroups, {u})
    /\ userFolders' = WithoutSources(userFolders, {u})
    /\ softUsers' = softUsers \cup {u}
    /\ UNCHANGED <<isShared, users, userRole, adminVars, groupVars, keyVars,
                   shareVars, ruleVars, purgeVars, folders, roles,
                   eventActions>>

\* DELETE FROM users WHERE username = u
DeleteUserRow(u) ==
    /\ users' = users \ {u}
    /\ softUsers' = softUsers \ {u}
    /\ userRole' = WithoutSources(userRole, {u})
    /\ userGroups' = WithoutSources(userGroups, {u})
    /\ userFolders' = WithoutSources(userFolders, {u})
    /\ CascadeUsers({u})

deleteUser(u) ==
    /\ ~ isShared
    /\ u \in users
    /\ DeleteUserRow(u)
    /\ UNCHANGED <<isShared, adminVars, groupVars, ruleVars, purgeVars,
                   folders, roles, eventActions>>

\* getRecentlyUpdatedUsers returns every marked row, however old; the one
\* marked for half an hour is purged in a goroutine, by its name
checkUserCache(u) ==
    /\ u \in softUsers
    /\ purgeUsers' = purgeUsers \cup {u}
    /\ UNCHANGED <<isShared, userVars, adminVars, groupVars, keyVars,
                   shareVars, ruleVars, purgeRules, folders, roles,
                   eventActions>>

purgeUser(u) ==
    /\ u \in purgeUsers
    /\ purgeUsers' = purgeUsers \ {u}
    /\ DeleteUserRow(u)
    /\ UNCHANGED <<isShared, adminVars, groupVars, ruleVars, purgeRules,
                   folders, roles, eventActions>>

-------------------------------------------------------------------------------
storeAdmin(a, rs, gs) ==
    /\ rs \subseteq roles /\ gs \subseteq groups
    /\ admins' = admins \cup {a}
    /\ adminRole' = Refer(adminRole, a, rs)
    /\ adminGroups' = Refer(adminGroups, a, gs)
    /\ UNCHANGED <<isShared, userVars, groupVars, keyVars, shareVars,
                   ruleVars, purgeVars, folders, roles, eventActions>>

addAdmin(a, rs, gs) == a \notin admins /\ storeAdmin(a, rs, gs)

\* The update of a row that is gone maps no group either
updateAdmin(a, rs, gs) == a \in admins /\ storeAdmin(a, rs, gs)

deleteAdmin(a) ==
    LET ks == Sources(keyAdmin, a)
    IN /\ a \in admins
       /\ admins' = admins \ {a}
       /\ adminRole' = WithoutSources(adminRole, {a})
       /\ adminGroups' = WithoutSources(adminGroups, {a})
       /\ apiKeys' = apiKeys \ ks
       /\ keyUser' = WithoutSources(keyUser, ks)
       /\ keyAdmin' = WithoutSources(keyAdmin, ks)
       /\ UNCHANGED <<isShared, userVars, groupVars, shareVars, ruleVars,
                      purgeVars, folders, roles, eventActions>>

storeGroup(g, fs) ==
    /\ fs \subseteq folders
    /\ groups' = groups \cup {g}
    /\ groupFolders' = Refer(groupFolders, g, fs)
    /\ UNCHANGED <<isShared, userVars, adminVars, keyVars, shareVars,
                   ruleVars, purgeVars, folders, roles, eventActions>>

addGroup(g, fs) == g \notin groups /\ storeGroup(g, fs)
updateGroup(g, fs) == g \in groups /\ storeGroup(g, fs)

\* users_groups_mapping.group_id is ON DELETE NO ACTION, and a marked user
\* counts; the mapping of the admins is ON DELETE CASCADE
deleteGroup(g) ==
    /\ g \in groups
    /\ Sources(userGroups, g) = {}
    /\ groups' = groups \ {g}
    /\ groupFolders' = WithoutSources(groupFolders, {g})
    /\ adminGroups' = WithoutTarget(adminGroups, g)
    /\ UNCHANGED <<isShared, userVars, admins, adminRole, keyVars, shareVars,
                   ruleVars, purgeVars, folders, roles, eventActions>>

addFolder(f) ==
    /\ f \notin folders
    /\ folders' = folders \cup {f}
    /\ UNCHANGED <<isShared, userVars, adminVars, groupVars, keyVars,
                   shareVars, ruleVars, purgeVars, roles, eventActions>>

updateFolder(f) == f \in folders /\ UNCHANGED vars

\* Both mapping tables of the folders are ON DELETE CASCADE
deleteFolder(f) ==
    /\ f \in folders
    /\ folders' = folders \ {f}
    /\ userFolders' = WithoutTarget(userFolders, f)
    /\ groupFolders' = WithoutTarget(groupFolders, f)
    /\ UNCHANGED <<isShared, users, softUsers, userRole, userGroups,
                   adminVars, groups, keyVars, shareVars, ruleVars,
                   purgeVars, roles, eventActions>>

addRole(r) ==
    /\ r \notin roles
    /\ roles' = roles \cup {r}
    /\ UNCHANGED <<isShared, userVars, adminVars, groupVars, keyVars,
                   shareVars, ruleVars, purgeVars, folders, eventActions>>

updateRole(r) == r \in roles /\ UNCHANGED vars

\* admins.role_id is ON DELETE NO ACTION, users.role_id is SET NULL
deleteRole(r) ==
    /\ r \in roles
    /\ Sources(adminRole, r) = {}
    /\ roles' = roles \ {r}
    /\ userRole' = WithoutTarget(userRole, r)
    /\ UNCHANGED <<isShared, users, softUsers, userGroups, userFolders,
                   adminVars, groupVars, keyVars, shareVars, ruleVars,
                   purgeVars, folders, eventActions>>

-------------------------------------------------------------------------------
\* The ids of the user and of the admin were read before: the row of the user
\* may be marked by now
storeAPIKey(k, us, ads) ==
    /\ us \subseteq users /\ ads \subseteq admins
    /\ apiKeys' = apiKeys \cup {k}
    /\ keyUser' = Refer(keyUser, k, us)
    /\ keyAdmin' = Refer(keyAdmin, k, ads)
    /\ UNCHANGED <<isShared, userVars, adminVars, groupVars, shareVars,
                   ruleVars, purgeVars, folders, roles, eventActions>>

addAPIKey(k, us, ads) == k \notin apiKeys /\ storeAPIKey(k, us, ads)
updateAPIKey(k, us, ads) == k \in apiKeys /\ storeAPIKey(k, us, ads)

deleteAPIKey(k) ==
    /\ k \in apiKeys
    /\ apiKeys' = apiKeys \ {k}
    /\ keyUser' = WithoutSources(keyUser, {k})
    /\ keyAdmin' = WithoutSources(keyAdmin, {k})
    /\ UNCHANGED <<isShared, userVars, adminVars, groupVars, shareVars,
                   ruleVars, purgeVars, folders, roles, eventActions>>

\* So may the row of the owner of a share.  The update writes user_id, so a
\* restore can give a share to another user
storeShare(s, u) ==
    /\ u \in users
    /\ shares' = shares \cup {s}
    /\ shareUser' = Refer(shareUser, s, {u})
    /\ UNCHANGED <<isShared, userVars, adminVars, groupVars, keyVars,
                   ruleVars, purgeVars, folders, roles, eventActions>>

addShare(s, u) == s \notin shares /\ storeShare(s, u)
updateShare(s, u) == s \in shares /\ storeShare(s, u)

deleteShare(s) ==
    /\ s \in shares
    /\ shares' = shares \ {s}
    /\ shareUser' = WithoutSources(shareUser, {s})
    /\ UNCHANGED <<isShared, userVars, adminVars, groupVars, keyVars,
                   ruleVars, purgeVars, folders, roles, eventActions>>

-------------------------------------------------------------------------------
addEventAction(a) ==
    /\ a \notin eventActions
    /\ eventActions' = eventActions \cup {a}
    /\ UNCHANGED <<isShared, userVars, adminVars, groupVars, keyVars,
                   shareVars, ruleVars, purgeVars, folders, roles>>

updateEventAction(a) == a \in eventActions /\ UNCHANGED vars

\* rules_actions_mapping.action_id is ON DELETE NO ACTION
deleteEventAction(a) ==
    /\ a \in eventActions
    /\ Sources(ruleActions, a) = {}
    /\ eventActions' = eventActions \ {a}
    /\ UNCHANGED <<isShared, userVars, adminVars, groupVars, keyVars,
                   shareVars, ruleVars, purgeVars, folders, roles>>

generateEventRuleActionsMapping(r, acs) ==
    /\ acs \subseteq eventActions
    /\ ruleActions' = Refer(ruleActions, r, acs)
    /\ UNCHANGED <<isShared, userVars, adminVars, groupVars, keyVars,
                   shareVars, purgeVars, folders, roles, eventActions>>

addEventRule(r, acs) ==
    LET removed == IF isShared THEN {r} \cap softRules ELSE {}
    IN /\ r \notin eventRules \ removed
       /\ eventRules' = eventRules \cup {r}
       /\ softRules' = softRules \ removed
       /\ generateEventRuleActionsMapping(r, acs)

updateEventRule(r, acs) ==
    /\ r \in eventRules
    /\ generateEventRuleActionsMapping(r, acs)
    /\ UNCHANGED <<eventRules, softRules>>

softDeleteEventRule(r) ==
    /\ isShared
    /\ r \in eventRules
    /\ softRules' = softRules \cup {r}
    /\ ruleActions' = WithoutSources(ruleActions, {r})
    /\ UNCHANGED <<isShared, userVars, adminVars, groupVars, keyVars,
                   shareVars, eventRules, purgeVars, folders, roles,
                   eventActions>>

DeleteEventRuleRow(r) ==
    /\ eventRules' = eventRules \ {r}
    /\ softRules' = softRules \ {r}
    /\ ruleActions' = WithoutSources(ruleActions, {r})
    /\ UNCHANGED <<isShared, userVars, adminVars, groupVars, keyVars,
                   shareVars, purgeUsers, folders, roles, eventActions>>

deleteEventRule(r) ==
    /\ ~ isShared
    /\ r \in eventRules
    /\ DeleteEventRuleRow(r)
    /\ UNCHANGED purgeRules

addUpdateRuleWithActions(r) ==
    /\ r \in softRules
    /\ Targets(ruleActions, r) # {}
    /\ purgeRules' = purgeRules \cup {r}
    /\ UNCHANGED <<isShared, userVars, adminVars, groupVars, keyVars,
                   shareVars, ruleVars, purgeUsers, folders, roles,
                   eventActions>>
\* loadRules meets a rule marked for half an hour
addUpdateRuleInternal(r) ==
    /\ r \in softRules
    /\ purgeRules' = purgeRules \cup {r}
    /\ UNCHANGED <<isShared, userVars, adminVars, groupVars, keyVars,
                   shareVars, ruleVars, purgeUsers, folders, roles,
                   eventActions>>

RemoveEventRule(r) ==
    /\ r \in purgeRules
    /\ purgeRules' = purgeRules \ {r}
    /\ DeleteEventRuleRow(r)

-------------------------------------------------------------------------------
UserNext ==
    \E u \in Users :
        \/ \E rs \in AtMostOne(Roles), gs \in SUBSET Groups,
              fs \in SUBSET Folders :
               addUser(u, rs, gs, fs) \/ updateUser(u, rs, gs, fs)
        \/ softDeleteUser(u) \/ deleteUser(u)
        \/ checkUserCache(u) \/ purgeUser(u)

AdminNext ==
    \E a \in Admins :
        \/ \E rs \in AtMostOne(Roles), gs \in SUBSET Groups :
               addAdmin(a, rs, gs) \/ updateAdmin(a, rs, gs)
        \/ deleteAdmin(a)

GroupNext ==
    \E g \in Groups :
        \/ \E fs \in SUBSET Folders : addGroup(g, fs) \/ updateGroup(g, fs)
        \/ deleteGroup(g)

FolderNext ==
    \E f \in Folders : addFolder(f) \/ updateFolder(f) \/ deleteFolder(f)

RoleNext == \E r \in Roles : addRole(r) \/ updateRole(r) \/ deleteRole(r)

\* APIKey.validate: a key is for a user or for an admin, not for both
APIKeyNext ==
    \E k \in APIKeys :
        \/ \E us \in AtMostOne(Users) :
               addAPIKey(k, us, {}) \/ updateAPIKey(k, us, {})
        \/ \E ads \in AtMostOne(Admins) :
               addAPIKey(k, {}, ads) \/ updateAPIKey(k, {}, ads)
        \/ deleteAPIKey(k)

ShareNext ==
    \E s \in Shares :
        \/ \E u \in Users : addShare(s, u) \/ updateShare(s, u)
        \/ deleteShare(s)

\* EventRule.validate: a rule has at least one action
EventNext ==
    \/ \E a \in EventActions :
           addEventAction(a) \/ updateEventAction(a) \/ deleteEventAction(a)
    \/ \E r \in EventRules :
           \/ \E acs \in SUBSET EventActions \ {{}} :
                  addEventRule(r, acs) \/ updateEventRule(r, acs)
           \/ softDeleteEventRule(r) \/ deleteEventRule(r)
           \/ addUpdateRuleInternal(r) \/ RemoveEventRule(r)

Next ==
    \/ UserNext \/ AdminNext \/ GroupNext \/ FolderNext \/ RoleNext
    \/ APIKeyNext \/ ShareNext \/ EventNext

\* The cron entries "@every 10m" of addScheduledCacheUpdates and of the event
\* manager meet every marked row, and the goroutines they start run
Fairness ==
    /\ \A u \in Users : WF_vars(checkUserCache(u)) /\ WF_vars(purgeUser(u))
    /\ \A r \in EventRules :
           WF_vars(addUpdateRuleInternal(r)) /\ WF_vars(RemoveEventRule(r))

Spec == Init /\ [][Next]_vars /\ Fairness

-------------------------------------------------------------------------------
\* What the lookups by name see: the rows of users and rules that are not
\* marked, and the keys and shares that belong to them
LiveUsers == users \ softUsers
LiveRules == eventRules \ softRules
LiveKeys == {k \in apiKeys : Targets(keyUser, k) \subseteq LiveUsers}
LiveShares == {s \in shares : Targets(shareUser, s) \subseteq LiveUsers}
Of(R, X) == {p \in R : p[1] \in X}

Abstract == INSTANCE Provider WITH
    users <- LiveUsers,
    userRole <- Of(userRole, LiveUsers),
    userGroups <- Of(userGroups, LiveUsers),
    userFolders <- Of(userFolders, LiveUsers),
    apiKeys <- LiveKeys,
    keyUser <- Of(keyUser, LiveKeys),
    keyAdmin <- Of(keyAdmin, LiveKeys),
    shares <- LiveShares,
    shareUser <- Of(shareUser, LiveShares),
    eventRules <- LiveRules,
    ruleActions <- Of(ruleActions, LiveRules)

\* Marks, stale updates of marked rows and purges are invisible: the SQL
\* providers do what every provider promises.  In particular a user that is
\* added again never gets the keys or the shares of the deleted one
ImplementsProvider == Abstract!Spec

\* A user or a rule that is marked does not stay forever: it is purged, or
\* replaced by a new one of the same name
MarkedPurged ==
    /\ \A u \in Users : u \in softUsers ~> u \notin softUsers
    /\ \A r \in EventRules : r \in softRules ~> r \notin softRules
==============================================================================
