---------------------------- MODULE MemoryProvider ----------------------------
(***************************************************************************)
(* The in-memory data provider (internal/dataprovider/memory.go).  Like    *)
(* the bolt provider it keeps, next to the names an object refers to, the  *)
(* names of the objects that refer to it; every operation holds the mutex  *)
(* of dbHandle from its first read to its last write.  There are no        *)
(* transactions: an operation that meets an object that does not exist     *)
(* undoes some of what it did and returns, so besides the operations that  *)
(* succeed (lower case, as in the source) there is an action for each      *)
(* place where one gives up after a change.  An operation that fails       *)
(* before it changed anything is a stuttering step.                        *)
(***************************************************************************)
EXTENDS ProviderLinks

VARIABLES
    users, admins, groups, folders, roles, apiKeys, shares,
    eventActions, eventRules,           \* the keys of the maps of dbHandle
    userRole, userGroups, userFolders, groupFolders, adminRole, adminGroups,
    keyUser, keyAdmin, shareUser, ruleActions,  \* the names an object holds
    groupUsers, groupAdmins,            \* group.Users, group.Admins
    folderUsers, folderGroups,          \* folder.Users, folder.Groups
    roleUsers, roleAdmins,              \* role.Users, role.Admins
    actionRules                         \* action.Rules

userVars == <<users, userRole, userGroups, userFolders>>
adminVars == <<admins, adminRole, adminGroups>>
groupVars == <<groups, groupFolders, groupUsers, groupAdmins>>
folderVars == <<folders, folderUsers, folderGroups>>
roleVars == <<roles, roleUsers, roleAdmins>>
keyVars == <<apiKeys, keyUser, keyAdmin>>
shareVars == <<shares, shareUser>>
eventVars == <<eventActions, actionRules, eventRules, ruleActions>>

vars == <<userVars, adminVars, groupVars, folderVars, roleVars, keyVars,
          shareVars, eventVars>>

Init ==
    /\ users = {} /\ userRole = {} /\ userGroups = {} /\ userFolders = {}
    /\ admins = {} /\ adminRole = {} /\ adminGroups = {}
    /\ groups = {} /\ groupFolders = {} /\ groupUsers = {} /\ groupAdmins = {}
    /\ folders = {} /\ folderUsers = {} /\ folderGroups = {}
    /\ roles = {} /\ roleUsers = {} /\ roleAdmins = {}
    /\ apiKeys = {} /\ keyUser = {} /\ keyAdmin = {}
    /\ shares = {} /\ shareUser = {}
    /\ eventActions = {} /\ actionRules = {}
    /\ eventRules = {} /\ ruleActions = {}

-------------------------------------------------------------------------------
\* The helpers: the name x is added to the list of, or removed from the list
\* of, the objects named in S that exist

addUserToRole(R, x, S) == R \cup ({x} \X (S \cap roles))
removeUserFromRole(x, S) == roleUsers \ ({x} \X S)
addAdminToRole(R, x, S) == R \cup ({x} \X (S \cap roles))
removeAdminFromRole(x, S) == roleAdmins \ ({x} \X S)
addUserToGroupMapping(R, x, S) == R \cup ({x} \X (S \cap groups))
removeUserFromGroupMapping(x, S) == groupUsers \ ({x} \X S)
addAdminToGroupMapping(R, x, S) == R \cup ({x} \X (S \cap groups))
removeAdminFromGroupMapping(x, S) == groupAdmins \ ({x} \X S)
addUserToFolderMapping(R, x, S) == R \cup ({x} \X (S \cap folders))
addGroupToFolderMapping(R, x, S) == R \cup ({x} \X (S \cap folders))
removeRelationFromFolderMapping(R, x, S) == R \ ({x} \X S)
addRuleToActionMapping(R, x, S) == R \cup ({x} \X (S \cap eventActions))
removeRuleFromActionMapping(x, S) == actionRules \ ({x} \X S)

\* The helper on the admins a list names: they lose the group
removeGroupFromAdminMapping(X, g) == adminGroups \ (X \X {g})

\* What the loop over the sorted names S maps before it meets one that is
\* not in E: any subset, as the names decide the order
MappedBefore(S, E) == SUBSET (S \cap E)

-------------------------------------------------------------------------------
addUser(u, rs, gs, fs) ==
    /\ u \notin users
    /\ rs \subseteq roles /\ gs \subseteq groups /\ fs \subseteq folders
    /\ roleUsers' = addUserToRole(roleUsers, u, rs)
    /\ groupUsers' = addUserToGroupMapping(groupUsers, u, gs)
    /\ folderUsers' = addUserToFolderMapping(folderUsers, u, fs)
    /\ users' = users \cup {u}
    /\ userRole' = Refer(userRole, u, rs)
    /\ userGroups' = Refer(userGroups, u, gs)
    /\ userFolders' = Refer(userFolders, u, fs)
    /\ UNCHANGED <<adminVars, groups, groupFolders, groupAdmins, folders,
                   folderGroups, roles, roleAdmins, keyVars, shareVars,
                   eventVars>>

\* addUser meets a group that does not exist: the groups mapped so far lose
\* the name, the role keeps it
addUserNoGroup(u, rs, gs) ==
    /\ u \notin users
    /\ rs \subseteq roles /\ ~ gs \subseteq groups
    /\ roleUsers' = addUserToRole(roleUsers, u, rs)
    /\ \E done \in MappedBefore(gs, groups) :
           groupUsers' = removeUserFromGroupMapping(u, done)
    /\ UNCHANGED <<userVars, adminVars, groups, groupFolders, groupAdmins,
                   folderVars, roles, roleAdmins, keyVars, shareVars,
                   eventVars>>

\* addUser meets a folder that does not exist: the folders mapped so far
\* lose the name, the role and the groups keep it
addUserNoFolder(u, rs, gs, fs) ==
    /\ u \notin users
    /\ rs \subseteq roles /\ gs \subseteq groups /\ ~ fs \subseteq folders
    /\ roleUsers' = addUserToRole(roleUsers, u, rs)
    /\ groupUsers' = addUserToGroupMapping(groupUsers, u, gs)
    /\ \E done \in MappedBefore(fs, folders) :
           folderUsers' = removeRelationFromFolderMapping(folderUsers, u, done)
    /\ UNCHANGED <<userVars, adminVars, groups, groupFolders, groupAdmins,
                   folders, folderGroups, roles, roleAdmins, keyVars,
                   shareVars, eventVars>>

\* The role and the groups of updateUser, when they exist
updateUserRole(u, rs) ==
    /\ rs \subseteq roles
    /\ roleUsers' =
           addUserToRole(removeUserFromRole(u, Targets(userRole, u)), u, rs)

updateUserGroups(u, gs) ==
    /\ gs \subseteq groups
    /\ groupUsers' =
           addUserToGroupMapping(
               removeUserFromGroupMapping(u, Targets(userGroups, u)), u, gs)

updateUser(u, rs, gs, fs) ==
    /\ u \in users
    /\ updateUserRole(u, rs)
    /\ updateUserGroups(u, gs)
    /\ fs \subseteq folders
    /\ folderUsers' =
           addUserToFolderMapping(
               removeRelationFromFolderMapping(
                   folderUsers, u, Targets(userFolders, u)), u, fs)
    /\ userRole' = Refer(userRole, u, rs)
    /\ userGroups' = Refer(userGroups, u, gs)
    /\ userFolders' = Refer(userFolders, u, fs)
    /\ UNCHANGED <<users, adminVars, groups, groupFolders, groupAdmins,
                   folders, folderGroups, roles, roleAdmins, keyVars,
                   shareVars, eventVars>>

\* updateUser meets a role that does not exist: the old role gets the name
\* back, nothing else is changed yet
updateUserNoRole(u, rs) ==
    /\ u \in users
    /\ ~ rs \subseteq roles
    /\ roleUsers' = addUserToRole(
                        removeUserFromRole(u, Targets(userRole, u)),
                        u, Targets(userRole, u))
    /\ UNCHANGED <<userVars, adminVars, groupVars, folderVars, roles,
                   roleAdmins, keyVars, shareVars, eventVars>>

\* updateUser meets a group that does not exist: the old groups get the name
\* back, the new ones mapped so far and the new role keep it
updateUserNoGroup(u, rs, gs) ==
    /\ u \in users
    /\ updateUserRole(u, rs)
    /\ ~ gs \subseteq groups
    /\ \E done \in MappedBefore(gs, groups) :
           groupUsers' =
               addUserToGroupMapping(
                   removeUserFromGroupMapping(u, Targets(userGroups, u)),
                   u, done \cup Targets(userGroups, u))
    /\ UNCHANGED <<userVars, adminVars, groups, groupFolders, groupAdmins,
                   folderVars, roles, roleAdmins, keyVars, shareVars,
                   eventVars>>

\* updateUser meets a folder that does not exist: the old folders get the
\* name back, the new ones mapped so far, the new groups and role keep it
updateUserNoFolder(u, rs, gs, fs) ==
    /\ u \in users
    /\ updateUserRole(u, rs)
    /\ updateUserGroups(u, gs)
    /\ ~ fs \subseteq folders
    /\ \E done \in MappedBefore(fs, folders) :
           folderUsers' =
               addUserToFolderMapping(
                   removeRelationFromFolderMapping(
                       folderUsers, u, Targets(userFolders, u)),
                   u, done \cup Targets(userFolders, u))
    /\ UNCHANGED <<userVars, adminVars, groups, groupFolders, groupAdmins,
                   folders, folderGroups, roles, roleAdmins, keyVars,
                   shareVars, eventVars>>

deleteAllAPIKeys(ks) == apiKeys' = {} /\ keyUser' = {} /\ keyAdmin' = {}
\* The keys of a user or of an admin that is deleted
deleteAPIKeysWith(ks) ==
    /\ apiKeys' = apiKeys \ ks
    /\ keyUser' = WithoutSources(keyUser, ks)
    /\ keyAdmin' = WithoutSources(keyAdmin, ks)

deleteSharesWithUserNone(u) == UNCHANGED shareVars
deleteSharesWithUser(u) ==
    LET ss == Sources(shareUser, u)
    IN /\ shares' = shares \ ss
       /\ shareUser' = WithoutSources(shareUser, ss)

deleteUser(u) ==
    /\ u \in users
    /\ roleUsers' = removeUserFromRole(u, Targets(userRole, u))
    /\ folderUsers' = removeRelationFromFolderMapping(
                          folderUsers, u, Targets(userFolders, u))
    /\ groupUsers' = removeUserFromGroupMapping(u, Targets(userGroups, u))
    /\ users' = users \ {u}
    /\ userRole' = WithoutSources(userRole, {u})
    /\ userGroups' = WithoutSources(userGroups, {u})
    /\ userFolders' = WithoutSources(userFolders, {u})
    /\ deleteAPIKeysWith(Sources(keyUser, u))
    /\ deleteSharesWithUser(u)
    /\ UNCHANGED <<adminVars, groups, groupFolders, groupAdmins, folders,
                   folderGroups, roles, roleAdmins, eventVars>>

-------------------------------------------------------------------------------
addAdmin(a, rs, gs) ==
    /\ a \notin admins
    /\ rs \subseteq roles /\ gs \subseteq groups
    /\ roleAdmins' = addAdminToRole(roleAdmins, a, rs)
    /\ groupAdmins' = addAdminToGroupMapping(groupAdmins, a, gs)
    /\ admins' = admins \cup {a}
    /\ adminRole' = Refer(adminRole, a, rs)
    /\ adminGroups' = Refer(adminGroups, a, gs)
    /\ UNCHANGED <<userVars, groups, groupFolders, groupUsers, folderVars,
                   roles, roleUsers, keyVars, shareVars, eventVars>>

\* addAdmin meets a group that does not exist: the role keeps the name
addAdminNoGroup(a, rs, gs) ==
    /\ a \notin admins
    /\ rs \subseteq roles /\ ~ gs \subseteq groups
    /\ roleAdmins' = addAdminToRole(roleAdmins, a, rs)
    /\ \E done \in MappedBefore(gs, groups) :
           groupAdmins' = removeAdminFromGroupMapping(a, done)
    /\ UNCHANGED <<userVars, adminVars, groups, groupFolders, groupUsers,
                   folderVars, roles, roleUsers, keyVars, shareVars,
                   eventVars>>

updateAdminRole(a, rs) ==
    /\ rs \subseteq roles
    /\ roleAdmins' =
           addAdminToRole(removeAdminFromRole(a, Targets(adminRole, a)), a, rs)

updateAdmin(a, rs, gs) ==
    /\ a \in admins
    /\ updateAdminRole(a, rs)
    /\ gs \subseteq groups
    /\ groupAdmins' =
           addAdminToGroupMapping(
               removeAdminFromGroupMapping(a, Targets(adminGroups, a)), a, gs)
    /\ adminRole' = Refer(adminRole, a, rs)
    /\ adminGroups' = Refer(adminGroups, a, gs)
    /\ UNCHANGED <<userVars, admins, groups, groupFolders, groupUsers,
                   folderVars, roles, roleUsers, keyVars, shareVars,
                   eventVars>>

updateAdminNoRole(a, rs) ==
    /\ a \in admins
    /\ ~ rs \subseteq roles
    /\ roleAdmins' = addAdminToRole(
                         removeAdminFromRole(a, Targets(adminRole, a)),
                         a, Targets(adminRole, a))
    /\ UNCHANGED <<userVars, adminVars, groupVars, folderVars, roles,
                   roleUsers, keyVars, shareVars, eventVars>>

\* The new groups mapped so far and the new role keep the name
updateAdminNoGroup(a, rs, gs) ==
    /\ a \in admins
    /\ updateAdminRole(a, rs)
    /\ ~ gs \subseteq groups
    /\ \E done \in MappedBefore(gs, groups) :
           groupAdmins' =
               addAdminToGroupMapping(
                   removeAdminFromGroupMapping(a, Targets(adminGroups, a)),
                   a, done \cup Targets(adminGroups, a))
    /\ UNCHANGED <<userVars, adminVars, groups, groupFolders, groupUsers,
                   folderVars, roles, roleUsers, keyVars, shareVars,
                   eventVars>>

deleteAdmin(a) ==
    /\ a \in admins
    /\ roleAdmins' = removeAdminFromRole(a, Targets(adminRole, a))
    /\ groupAdmins' = removeAdminFromGroupMapping(a, Targets(adminGroups, a))
    /\ admins' = admins \ {a}
    /\ adminRole' = WithoutSources(adminRole, {a})
    /\ adminGroups' = WithoutSources(adminGroups, {a})
    /\ deleteAPIKeysWith(Sources(keyAdmin, a))
    /\ UNCHANGED <<userVars, groups, groupFolders, groupUsers, folderVars,
                   roles, roleUsers, shareVars, eventVars>>

-------------------------------------------------------------------------------
addGroup(g, fs) ==
    /\ g \notin groups
    /\ fs \subseteq folders
    /\ folderGroups' = addGroupToFolderMapping(folderGroups, g, fs)
    /\ groups' = groups \cup {g}
    /\ groupFolders' = Refer(groupFolders, g, fs)
    /\ groupUsers' = WithoutTarget(groupUsers, g)
    /\ groupAdmins' = WithoutTarget(groupAdmins, g)
    /\ UNCHANGED <<userVars, adminVars, folders, folderUsers, roleVars,
                   keyVars, shareVars, eventVars>>

\* addGroup meets a folder that does not exist and undoes the mapping
addGroupNoFolder(g, fs) ==
    /\ g \notin groups
    /\ ~ fs \subseteq folders
    /\ \E done \in MappedBefore(fs, folders) :
           folderGroups' =
               removeRelationFromFolderMapping(folderGroups, g, done)
    /\ UNCHANGED <<userVars, adminVars, groupVars, folders, folderUsers,
                   roleVars, keyVars, shareVars, eventVars>>

updateGroup(g, fs) ==
    /\ g \in groups
    /\ fs \subseteq folders
    /\ folderGroups' =
           addGroupToFolderMapping(
               removeRelationFromFolderMapping(
                   folderGroups, g, Targets(groupFolders, g)), g, fs)
    /\ groupFolders' = Refer(groupFolders, g, fs)
    /\ UNCHANGED <<userVars, adminVars, groups, groupUsers, groupAdmins,
                   folders, folderUsers, roleVars, keyVars, shareVars,
                   eventVars>>

\* The new folders mapped so far keep the name
updateGroupNoFolder(g, fs) ==
    /\ g \in groups
    /\ ~ fs \subseteq folders
    /\ \E done \in MappedBefore(fs, folders) :
           folderGroups' =
               addGroupToFolderMapping(
                   removeRelationFromFolderMapping(
                       folderGroups, g, Targets(groupFolders, g)),
                   g, done \cup Targets(groupFolders, g))
    /\ UNCHANGED <<userVars, adminVars, groupVars, folders, folderUsers,
                   roleVars, keyVars, shareVars, eventVars>>

deleteGroup(g) ==
    /\ g \in groups
    /\ Sources(groupUsers, g) = {}
    /\ folderGroups' = removeRelationFromFolderMapping(
                           folderGroups, g, Targets(groupFolders, g))
    /\ adminGroups' = removeGroupFromAdminMapping(Sources(groupAdmins, g), g)
    /\ groups' = groups \ {g}
    /\ groupFolders' = WithoutSources(groupFolders, {g})
    /\ groupUsers' = WithoutTarget(groupUsers, g)
    /\ groupAdmins' = WithoutTarget(groupAdmins, g)
    /\ UNCHANGED <<userVars, admins, adminRole, folders, folderUsers,
                   roleVars, keyVars, shareVars, eventVars>>

addFolder(f) ==
    /\ f \notin folders
    /\ folders' = folders \cup {f}
    /\ folderUsers' = WithoutTarget(folderUsers, f)
    /\ folderGroups' = WithoutTarget(folderGroups, f)
    /\ UNCHANGED <<userVars, adminVars, groupVars, roleVars, keyVars,
                   shareVars, eventVars>>

\* The folder and the copies of it in its users change, the names do not
updateFolder(f) == f \in folders /\ UNCHANGED vars

\* The users and the groups named by the lists of the folder lose it
deleteFolder(f) ==
    /\ f \in folders
    /\ userFolders' = userFolders \ (Sources(folderUsers, f) \X {f})
    /\ groupFolders' = groupFolders \ (Sources(folderGroups, f) \X {f})
    /\ folders' = folders \ {f}
    /\ folderUsers' = WithoutTarget(folderUsers, f)
    /\ folderGroups' = WithoutTarget(folderGroups, f)
    /\ UNCHANGED <<users, userRole, userGroups, adminVars, groups,
                   groupUsers, groupAdmins, roleVars, keyVars, shareVars,
                   eventVars>>

addRole(r) ==
    /\ r \notin roles
    /\ roles' = roles \cup {r}
    /\ roleUsers' = WithoutTarget(roleUsers, r)
    /\ roleAdmins' = WithoutTarget(roleAdmins, r)
    /\ UNCHANGED <<userVars, adminVars, groupVars, folderVars, keyVars,
                   shareVars, eventVars>>

updateRole(r) == r \in roles /\ UNCHANGED vars

\* A user of the list that has the role loses it, the others are logged
deleteRole(r) ==
    /\ r \in roles
    /\ Sources(roleAdmins, r) = {}
    /\ userRole' = userRole \ (Sources(roleUsers, r) \X {r})
    /\ roles' = roles \ {r}
    /\ roleUsers' = WithoutTarget(roleUsers, r)
    /\ roleAdmins' = WithoutTarget(roleAdmins, r)
    /\ UNCHANGED <<users, userGroups, userFolders, adminVars, groupVars,
                   folderVars, keyVars, shareVars, eventVars>>

-------------------------------------------------------------------------------
addAPIKey(k, us, ads) ==
    /\ k \notin apiKeys
    /\ us \subseteq users /\ ads \subseteq admins
    /\ apiKeys' = apiKeys \cup {k}
    /\ keyUser' = Refer(keyUser, k, us)
    /\ keyAdmin' = Refer(keyAdmin, k, ads)
    /\ UNCHANGED <<userVars, adminVars, groupVars, folderVars, roleVars,
                   shareVars, eventVars>>

updateAPIKey(k, us, ads) ==
    /\ k \in apiKeys
    /\ us \subseteq users /\ ads \subseteq admins
    /\ keyUser' = Refer(keyUser, k, us)
    /\ keyAdmin' = Refer(keyAdmin, k, ads)
    /\ UNCHANGED <<userVars, adminVars, groupVars, folderVars, roleVars,
                   apiKeys, shareVars, eventVars>>

deleteAPIKey(k) ==
    /\ k \in apiKeys
    /\ deleteAPIKeysWith({k})
    /\ UNCHANGED <<userVars, adminVars, groupVars, folderVars, roleVars,
                   shareVars, eventVars>>

\* shareExistsInternal looks for a share with this name of this user; the
\* caller made a fresh name, or restores one that is not stored
addShare(s, u) ==
    /\ s \notin shares
    /\ u \in users
    /\ shares' = shares \cup {s}
    /\ shareUser' = Refer(shareUser, s, {u})
    /\ UNCHANGED <<userVars, adminVars, groupVars, folderVars, roleVars,
                   keyVars, eventVars>>

updateShare(s, u) == <<s, u>> \in shareUser /\ u \in users /\ UNCHANGED vars

deleteShare(s, u) ==
    /\ <<s, u>> \in shareUser
    /\ shares' = shares \ {s}
    /\ shareUser' = WithoutSources(shareUser, {s})
    /\ UNCHANGED <<userVars, adminVars, groupVars, folderVars, roleVars,
                   keyVars, eventVars>>

-------------------------------------------------------------------------------
addEventAction(a) ==
    /\ a \notin eventActions
    /\ eventActions' = eventActions \cup {a}
    /\ actionRules' = WithoutTarget(actionRules, a)
    /\ UNCHANGED <<userVars, adminVars, groupVars, folderVars, roleVars,
                   keyVars, shareVars, eventRules, ruleActions>>

\* updateEventAction keeps the related rules that exist
updateEventAction(a) ==
    /\ a \in eventActions
    /\ actionRules' = {p \in actionRules : p[2] = a => p[1] \in eventRules}
    /\ UNCHANGED <<userVars, adminVars, groupVars, folderVars, roleVars,
                   keyVars, shareVars, eventActions, eventRules, ruleActions>>

deleteEventAction(a) ==
    /\ a \in eventActions
    /\ Sources(actionRules, a) = {}
    /\ eventActions' = eventActions \ {a}
    /\ actionRules' = WithoutTarget(actionRules, a)
    /\ UNCHANGED <<userVars, adminVars, groupVars, folderVars, roleVars,
                   keyVars, shareVars, eventRules, ruleActions>>

addEventRule(r, acs) ==
    /\ r \notin eventRules
    /\ acs \subseteq eventActions
    /\ actionRules' = addRuleToActionMapping(actionRules, r, acs)
    /\ eventRules' = eventRules \cup {r}
    /\ ruleActions' = Refer(ruleActions, r, acs)
    /\ UNCHANGED <<userVars, adminVars, groupVars, folderVars, roleVars,
                   keyVars, shareVars, eventActions>>

\* addEventRule meets an action that does not exist and undoes the mapping
addEventRuleNoAction(r, acs) ==
    /\ r \notin eventRules
    /\ ~ acs \subseteq eventActions
    /\ \E done \in MappedBefore(acs, eventActions) :
           actionRules' = removeRuleFromActionMapping(r, done)
    /\ UNCHANGED <<userVars, adminVars, groupVars, folderVars, roleVars,
                   keyVars, shareVars, eventActions, eventRules, ruleActions>>

updateEventRule(r, acs) ==
    /\ r \in eventRules
    /\ acs \subseteq eventActions
    /\ actionRules' =
           addRuleToActionMapping(
               removeRuleFromActionMapping(r, Targets(ruleActions, r)), r, acs)
    /\ ruleActions' = Refer(ruleActions, r, acs)
    /\ UNCHANGED <<userVars, adminVars, groupVars, folderVars, roleVars,
                   keyVars, shareVars, eventActions, eventRules>>

updateEventRuleNoRollback(r, acs) ==
    /\ r \in eventRules
    /\ ~ acs \subseteq eventActions
    /\ \E done \in MappedBefore(acs, eventActions) :
           actionRules' =
               addRuleToActionMapping(
                   removeRuleFromActionMapping(r, Targets(ruleActions, r)),
                   r, done)
    /\ UNCHANGED <<userVars, adminVars, groupVars, folderVars, roleVars,
                   keyVars, shareVars, eventActions, eventRules, ruleActions>>
\* The new actions mapped so far keep the name
updateEventRuleNoAction(r, acs) ==
    /\ r \in eventRules
    /\ ~ acs \subseteq eventActions
    /\ \E done \in MappedBefore(acs, eventActions) :
           actionRules' =
               addRuleToActionMapping(
                   removeRuleFromActionMapping(r, Targets(ruleActions, r)),
                   r, done \cup Targets(ruleActions, r))
    /\ UNCHANGED <<userVars, adminVars, groupVars, folderVars, roleVars,
                   keyVars, shareVars, eventActions, eventRules, ruleActions>>

deleteEventRule(r) ==
    /\ r \in eventRules
    /\ actionRules' = removeRuleFromActionMapping(r, Targets(ruleActions, r))
    /\ eventRules' = eventRules \ {r}
    /\ ruleActions' = WithoutSources(ruleActions, {r})
    /\ UNCHANGED <<userVars, adminVars, groupVars, folderVars, roleVars,
                   keyVars, shareVars, eventActions>>

-------------------------------------------------------------------------------
UserNext ==
    \E u \in Users, rs \in AtMostOne(Roles), gs \in SUBSET Groups,
       fs \in SUBSET Folders :
        \/ addUser(u, rs, gs, fs) \/ addUserNoGroup(u, rs, gs)
        \/ addUserNoFolder(u, rs, gs, fs)
        \/ updateUser(u, rs, gs, fs) \/ updateUserNoRole(u, rs)
        \/ updateUserNoGroup(u, rs, gs) \/ updateUserNoFolder(u, rs, gs, fs)
        \/ deleteUser(u)

AdminNext ==
    \E a \in Admins, rs \in AtMostOne(Roles), gs \in SUBSET Groups :
        \/ addAdmin(a, rs, gs) \/ addAdminNoGroup(a, rs, gs)
        \/ updateAdmin(a, rs, gs) \/ updateAdminNoRole(a, rs)
        \/ updateAdminNoGroup(a, rs, gs)
        \/ deleteAdmin(a)

GroupNext ==
    \E g \in Groups, fs \in SUBSET Folders :
        \/ addGroup(g, fs) \/ addGroupNoFolder(g, fs)
        \/ updateGroup(g, fs) \/ updateGroupNoFolder(g, fs)
        \/ deleteGroup(g)

FolderNext ==
    \E f \in Folders : addFolder(f) \/ updateFolder(f) \/ deleteFolder(f)

RoleNext == \E r \in Roles : addRole(r) \/ updateRole(r) \/ deleteRole(r)

\* APIKey.validate: a key is for a user or for an admin, not for both
APIKeyNext ==
    \E k \in APIKeys :
        \/ \E us \in AtMostOne(Users) :
               addAPIKey(k, us, {}) \/ updateAPIKey(k, us, {})
        \/ \E ads \in AtMostOne(Admins) :
               addAPIKey(k, {}, ads) \/ updateAPIKey(k, {}, ads)
        \/ deleteAPIKey(k)

ShareNext ==
    \E s \in Shares, u \in Users :
        addShare(s, u) \/ updateShare(s, u) \/ deleteShare(s, u)

\* EventRule.validate: a rule has at least one action
EventNext ==
    \/ \E a \in EventActions :
           addEventAction(a) \/ updateEventAction(a) \/ deleteEventAction(a)
    \/ \E r \in EventRules, acs \in SUBSET EventActions \ {{}} :
           \/ addEventRule(r, acs) \/ addEventRuleNoAction(r, acs)
           \/ updateEventRule(r, acs) \/ updateEventRuleNoAction(r, acs)
           \/ deleteEventRule(r)

Next ==
    \/ UserNext \/ AdminNext \/ GroupNext \/ FolderNext \/ RoleNext
    \/ APIKeyNext \/ ShareNext \/ EventNext

Spec == Init /\ [][Next]_vars

-------------------------------------------------------------------------------
\* Whatever fails half way, the relation an operation writes last is put
\* back: the lists of folders and of event actions miss no object that refers
\* to them, so deleteFolder and deleteEventAction see every reference
MappingsRestored ==
    /\ userFolders \subseteq folderUsers /\ groupFolders \subseteq folderGroups
    /\ ruleActions \subseteq actionRules

\* Nothing refers to a folder, an event action, a user or an admin that was
\* deleted, and no key or share outlives the user it belongs to
OwnersExist ==
    /\ Connects(userFolders, users, folders)
    /\ Connects(groupFolders, groups, folders)
    /\ Connects(ruleActions, eventRules, eventActions)
    /\ Connects(keyUser, apiKeys, users) /\ Connects(keyAdmin, apiKeys, admins)
    /\ Connects(shareUser, shares, users)

\* The lists of groups and of roles miss no object that refers to them
GroupsAndRolesListed ==
    /\ userGroups \subseteq groupUsers /\ adminGroups \subseteq groupAdmins
    /\ userRole \subseteq roleUsers /\ adminRole \subseteq roleAdmins

Abstract == INSTANCE Provider

\* From a state whose lists miss no reference every operation of memory.go
\* does what every provider promises, and one that gives up half way changes
\* nothing but the lists
StepsAsPromised ==
    [][GroupsAndRolesListed => [Abstract!Next]_(Abstract!vars)]_vars
===============================================================================
