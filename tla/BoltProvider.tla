----------------------------- MODULE BoltProvider -----------------------------
(***************************************************************************)
(* The bolt data provider (internal/dataprovider/bolt.go).  A stored       *)
(* object holds the names of the objects it refers to, and also the names  *)
(* of the objects that refer to it: deletes are refused, and references    *)
(* are removed, by what the second lists say.  Every operation runs in     *)
(* dbHandle.Update: an error rolls the transaction back, so an operation   *)
(* that fails is a stuttering step and each action is one that succeeds,   *)
(* its guard being that no step of it returns an error.                    *)
(***************************************************************************)
EXTENDS ProviderLinks

VARIABLES
    users, admins, groups, folders, roles, apiKeys, shares,
    eventActions, eventRules,           \* the keys of the buckets
    userRole, userGroups, userFolders, groupFolders, adminRole, adminGroups,
    keyUser, keyAdmin, shareUser, ruleActions,  \* the names an object holds
    groupUsers, groupAdmins,            \* group.Users, group.Admins
    folderUsers, folderGroups,          \* folder.Users, folder.Groups
    roleUsers, roleAdmins,              \* role.Users, role.Admins
    actionRules                         \* action.Rules

userVars == <<users, userRole, userGroups, userFolders>>
adminVars == <<admins, adminRole, adminGroups>>
groupVars == <<groups, groupFolders, groupUsers, groupAdmins>>
folderVars == <<folders, folderUsers, folderGroups>>
roleVars == <<roles, roleUsers, roleAdmins>>
keyVars == <<apiKeys, keyUser, keyAdmin>>
shareVars == <<shares, shareUser>>
eventVars == <<eventActions, actionRules, eventRules, ruleActions>>

vars == <<userVars, adminVars, groupVars, folderVars, roleVars, keyVars,
          shareVars, eventVars>>

Init ==
    /\ users = {} /\ userRole = {} /\ userGroups = {} /\ userFolders = {}
    /\ admins = {} /\ adminRole = {} /\ adminGroups = {}
    /\ groups = {} /\ groupFolders = {} /\ groupUsers = {} /\ groupAdmins = {}
    /\ folders = {} /\ folderUsers = {} /\ folderGroups = {}
    /\ roles = {} /\ roleUsers = {} /\ roleAdmins = {}
    /\ apiKeys = {} /\ keyUser = {} /\ keyAdmin = {}
    /\ shares = {} /\ shareUser = {}
    /\ eventActions = {} /\ actionRules = {}
    /\ eventRules = {} /\ ruleActions = {}

-------------------------------------------------------------------------------
\* The helpers on the lists of the objects referred to: the name x is added
\* to the list of, or removed from the list of, every object named in S

addUserToRole(R, x, S) == R \cup ({x} \X S)
removeUserFromRole(R, x, S) == R \ ({x} \X S)
addAdminToRole(R, x, S) == R \cup ({x} \X S)
removeAdminFromRole(R, x, S) == R \ ({x} \X S)
addUserToGroupMapping(R, x, S) == R \cup ({x} \X S)
removeUserFromGroupMapping(R, x, S) == R \ ({x} \X S)
addAdminToGroupMapping(R, x, S) == R \cup ({x} \X S)
removeAdminFromGroupMapping(R, x, S) == R \ ({x} \X S)
addRelationToFolderMapping(R, x, S) == R \cup ({x} \X S)
removeRelationFromFolderMapping(R, x, S) == R \ ({x} \X S)
addRuleToActionMapping(R, x, S) == R \cup ({x} \X S)
removeRuleFromActionMapping(R, x, S) == R \ ({x} \X S)

\* The helpers on the objects a list names: they lose the reference to y
removeRoleFromUser(R, X, y) == R \ (X \X {y})
removeGroupFromAdminMapping(R, X, y) == R \ (X \X {y})
deleteFolderMappings(R, X, y) == R \ (X \X {y})

-------------------------------------------------------------------------------
addUser(u, rs, gs, fs) ==
    /\ u \notin users
    /\ rs \subseteq roles /\ fs \subseteq folders /\ gs \subseteq groups
    /\ roleUsers' = addUserToRole(roleUsers, u, rs)
    /\ folderUsers' = addRelationToFolderMapping(folderUsers, u, fs)
    /\ groupUsers' = addUserToGroupMapping(groupUsers, u, gs)
    /\ users' = users \cup {u}
    /\ userRole' = Refer(userRole, u, rs)
    /\ userGroups' = Refer(userGroups, u, gs)
    /\ userFolders' = Refer(userFolders, u, fs)
    /\ UNCHANGED <<adminVars, groups, groupFolders, groupAdmins, folders,
                   folderGroups, roles, roleAdmins, keyVars, shareVars,
                   eventVars>>

updateUserRelationsAddFirst(u, rs, gs, fs) ==
    /\ fs \subseteq folders /\ gs \subseteq groups /\ rs \subseteq roles
    /\ folderUsers' = (folderUsers \cup ({u} \X fs))
                           \ ({u} \X Targets(userFolders, u))
    /\ groupUsers' = (groupUsers \cup ({u} \X gs))
                          \ ({u} \X Targets(userGroups, u))
    /\ roleUsers' = (roleUsers \cup ({u} \X rs))
                         \ ({u} \X Targets(userRole, u))
\* updateUserRelations: the old relations are removed before the new ones
\* are added; a group of the old user that does not exist is an error
updateUserRelations(u, rs, gs, fs) ==
    /\ Targets(userGroups, u) \subseteq groups
    /\ fs \subseteq folders /\ gs \subseteq groups /\ rs \subseteq roles
    /\ folderUsers' =
           addRelationToFolderMapping(
               removeRelationFromFolderMapping(
                   folderUsers, u, Targets(userFolders, u)), u, fs)
    /\ groupUsers' =
           addUserToGroupMapping(
               removeUserFromGroupMapping(
                   groupUsers, u, Targets(userGroups, u)), u, gs)
    /\ roleUsers' =
           addUserToRole(
               removeUserFromRole(roleUsers, u, Targets(userRole, u)), u, rs)

updateUser(u, rs, gs, fs) ==
    /\ u \in users
    /\ updateUserRelations(u, rs, gs, fs)
    /\ userRole' = Refer(userRole, u, rs)
    /\ userGroups' = Refer(userGroups, u, gs)
    /\ userFolders' = Refer(userFolders, u, fs)
    /\ UNCHANGED <<users, adminVars, groups, groupFolders, groupAdmins,
                   folders, folderGroups, roles, roleAdmins, keyVars,
                   shareVars, eventVars>>

deleteRelatedAPIKeyNone(ks) == UNCHANGED keyVars
\* deleteRelatedAPIKey, for the keys a scan of the bucket finds
deleteRelatedAPIKey(ks) ==
    /\ apiKeys' = apiKeys \ ks
    /\ keyUser' = WithoutSources(keyUser, ks)
    /\ keyAdmin' = WithoutSources(keyAdmin, ks)

deleteRelatedSharesAll(u) == shares' = {} /\ shareUser' = {}
deleteRelatedShares(u) ==
    LET ss == Sources(shareUser, u)
    IN /\ shares' = shares \ ss
       /\ shareUser' = WithoutSources(shareUser, ss)

deleteUser(u) ==
    /\ u \in users
    /\ Targets(userGroups, u) \subseteq groups
    /\ roleUsers' = removeUserFromRole(roleUsers, u, Targets(userRole, u))
    /\ folderUsers' = removeRelationFromFolderMapping(
                          folderUsers, u, Targets(userFolders, u))
    /\ groupUsers' = removeUserFromGroupMapping(
                         groupUsers, u, Targets(userGroups, u))
    /\ deleteRelatedAPIKey(Sources(keyUser, u))
    /\ deleteRelatedShares(u)
    /\ users' = users \ {u}
    /\ userRole' = WithoutSources(userRole, {u})
    /\ userGroups' = WithoutSources(userGroups, {u})
    /\ userFolders' = WithoutSources(userFolders, {u})
    /\ UNCHANGED <<adminVars, groups, groupFolders, groupAdmins, folders,
                   folderGroups, roles, roleAdmins, eventVars>>

-------------------------------------------------------------------------------
addAdmin(a, rs, gs) ==
    /\ a \notin admins
    /\ gs \subseteq groups /\ rs \subseteq roles
    /\ groupAdmins' = addAdminToGroupMapping(groupAdmins, a, gs)
    /\ roleAdmins' = addAdminToRole(roleAdmins, a, rs)
    /\ admins' = admins \cup {a}
    /\ adminRole' = Refer(adminRole, a, rs)
    /\ adminGroups' = Refer(adminGroups, a, gs)
    /\ UNCHANGED <<userVars, groups, groupFolders, groupUsers, folderVars,
                   roles, roleUsers, keyVars, shareVars, eventVars>>

updateAdmin(a, rs, gs) ==
    /\ a \in admins
    /\ Targets(adminGroups, a) \subseteq groups
    /\ rs \subseteq roles /\ gs \subseteq groups
    /\ roleAdmins' =
           addAdminToRole(
               removeAdminFromRole(roleAdmins, a, Targets(adminRole, a)),
               a, rs)
    /\ groupAdmins' =
           addAdminToGroupMapping(
               removeAdminFromGroupMapping(
                   groupAdmins, a, Targets(adminGroups, a)), a, gs)
    /\ adminRole' = Refer(adminRole, a, rs)
    /\ adminGroups' = Refer(adminGroups, a, gs)
    /\ UNCHANGED <<userVars, admins, groups, groupFolders, groupUsers,
                   folderVars, roles, roleUsers, keyVars, shareVars,
                   eventVars>>

deleteAdmin(a) ==
    /\ a \in admins
    /\ Targets(adminGroups, a) \subseteq groups
    /\ groupAdmins' = removeAdminFromGroupMapping(
                          groupAdmins, a, Targets(adminGroups, a))
    /\ roleAdmins' = removeAdminFromRole(roleAdmins, a, Targets(adminRole, a))
    /\ deleteRelatedAPIKey(Sources(keyAdmin, a))
    /\ admins' = admins \ {a}
    /\ adminRole' = WithoutSources(adminRole, {a})
    /\ adminGroups' = WithoutSources(adminGroups, {a})
    /\ UNCHANGED <<userVars, groups, groupFolders, groupUsers, folderVars,
                   roles, roleUsers, shareVars, eventVars>>

-------------------------------------------------------------------------------
addGroup(g, fs) ==
    /\ g \notin groups
    /\ fs \subseteq folders
    /\ folderGroups' = addRelationToFolderMapping(folderGroups, g, fs)
    /\ groups' = groups \cup {g}
    /\ groupFolders' = Refer(groupFolders, g, fs)
    /\ groupUsers' = WithoutTarget(groupUsers, g)
    /\ groupAdmins' = WithoutTarget(groupAdmins, g)
    /\ UNCHANGED <<userVars, adminVars, folders, folderUsers, roleVars,
                   keyVars, shareVars, eventVars>>

\* updateGroup keeps the lists of the old group
updateGroup(g, fs) ==
    /\ g \in groups
    /\ fs \subseteq folders
    /\ folderGroups' =
           addRelationToFolderMapping(
               removeRelationFromFolderMapping(
                   folderGroups, g, Targets(groupFolders, g)), g, fs)
    /\ groupFolders' = Refer(groupFolders, g, fs)
    /\ UNCHANGED <<userVars, adminVars, groups, groupUsers, groupAdmins,
                   folders, folderUsers, roleVars, keyVars, shareVars,
                   eventVars>>

deleteGroup(g) ==
    /\ g \in groups
    /\ Sources(groupUsers, g) = {}
    /\ folderGroups' = removeRelationFromFolderMapping(
                           folderGroups, g, Targets(groupFolders, g))
    /\ adminGroups' = removeGroupFromAdminMapping(
                          adminGroups, Sources(groupAdmins, g), g)
    /\ groups' = groups \ {g}
    /\ groupFolders' = WithoutSources(groupFolders, {g})
    /\ groupUsers' = WithoutTarget(groupUsers, g)
    /\ groupAdmins' = WithoutTarget(groupAdmins, g)
    /\ UNCHANGED <<userVars, admins, adminRole, folders, folderUsers,
                   roleVars, keyVars, shareVars, eventVars>>

addFolder(f) ==
    /\ f \notin folders
    /\ folders' = folders \cup {f}
    /\ folderUsers' = WithoutTarget(folderUsers, f)
    /\ folderGroups' = WithoutTarget(folderGroups, f)
    /\ UNCHANGED <<userVars, adminVars, groupVars, roleVars, keyVars,
                   shareVars, eventVars>>

\* updateFolder changes the settings of the folder and keeps its lists
updateFolder(f) == f \in folders /\ UNCHANGED vars

deleteFolder(f) ==
    /\ f \in folders
    /\ userFolders' = deleteFolderMappings(
                          userFolders, Sources(folderUsers, f), f)
    /\ groupFolders' = deleteFolderMappings(
                           groupFolders, Sources(folderGroups, f), f)
    /\ folders' = folders \ {f}
    /\ folderUsers' = WithoutTarget(folderUsers, f)
    /\ folderGroups' = WithoutTarget(folderGroups, f)
    /\ UNCHANGED <<users, userRole, userGroups, adminVars, groups,
                   groupUsers, groupAdmins, roleVars, keyVars, shareVars,
                   eventVars>>

addRole(r) ==
    /\ r \notin roles
    /\ roles' = roles \cup {r}
    /\ roleUsers' = WithoutTarget(roleUsers, r)
    /\ roleAdmins' = WithoutTarget(roleAdmins, r)
    /\ UNCHANGED <<userVars, adminVars, groupVars, folderVars, keyVars,
                   shareVars, eventVars>>

\* updateRole changes the description of the role and keeps its lists
updateRole(r) == r \in roles /\ UNCHANGED vars

deleteRole(r) ==
    /\ r \in roles
    /\ Sources(roleAdmins, r) = {}
    /\ userRole' = removeRoleFromUser(userRole, Sources(roleUsers, r), r)
    /\ roles' = roles \ {r}
    /\ roleUsers' = WithoutTarget(roleUsers, r)
    /\ roleAdmins' = WithoutTarget(roleAdmins, r)
    /\ UNCHANGED <<users, userGroups, userFolders, adminVars, groupVars,
                   folderVars, keyVars, shareVars, eventVars>>

-------------------------------------------------------------------------------
addAPIKey(k, us, ads) ==
    /\ k \notin apiKeys
    /\ us \subseteq users /\ ads \subseteq admins
    /\ apiKeys' = apiKeys \cup {k}
    /\ keyUser' = Refer(keyUser, k, us)
    /\ keyAdmin' = Refer(keyAdmin, k, ads)
    /\ UNCHANGED <<userVars, adminVars, groupVars, folderVars, roleVars,
                   shareVars, eventVars>>

updateAPIKey(k, us, ads) ==
    /\ k \in apiKeys
    /\ us \subseteq users /\ ads \subseteq admins
    /\ keyUser' = Refer(keyUser, k, us)
    /\ keyAdmin' = Refer(keyAdmin, k, ads)
    /\ UNCHANGED <<userVars, adminVars, groupVars, folderVars, roleVars,
                   apiKeys, shareVars, eventVars>>

deleteAPIKey(k) ==
    /\ k \in apiKeys
    /\ deleteRelatedAPIKey({k})
    /\ UNCHANGED <<userVars, adminVars, groupVars, folderVars, roleVars,
                   shareVars, eventVars>>

addShare(s, u) ==
    /\ s \notin shares
    /\ u \in users
    /\ shares' = shares \cup {s}
    /\ shareUser' = Refer(shareUser, s, {u})
    /\ UNCHANGED <<userVars, adminVars, groupVars, folderVars, roleVars,
                   keyVars, eventVars>>

\* updateShare refuses another user
updateShare(s, u) == <<s, u>> \in shareUser /\ u \in users /\ UNCHANGED vars

deleteShare(s, u) ==
    /\ <<s, u>> \in shareUser
    /\ shares' = shares \ {s}
    /\ shareUser' = WithoutSources(shareUser, {s})
    /\ UNCHANGED <<userVars, adminVars, groupVars, folderVars, roleVars,
                   keyVars, eventVars>>

-------------------------------------------------------------------------------
addEventAction(a) ==
    /\ a \notin eventActions
    /\ eventActions' = eventActions \cup {a}
    /\ actionRules' = WithoutTarget(actionRules, a)
    /\ UNCHANGED <<userVars, adminVars, groupVars, folderVars, roleVars,
                   keyVars, shareVars, eventRules, ruleActions>>

\* updateEventAction keeps the related rules that exist
updateEventAction(a) ==
    /\ a \in eventActions
    /\ actionRules' = {p \in actionRules : p[2] = a => p[1] \in eventRules}
    /\ UNCHANGED <<userVars, adminVars, groupVars, folderVars, roleVars,
                   keyVars, shareVars, eventActions, eventRules, ruleActions>>

deleteEventAction(a) ==
    /\ a \in eventActions
    /\ Sources(actionRules, a) = {}
    /\ eventActions' = eventActions \ {a}
    /\ actionRules' = WithoutTarget(actionRules, a)
    /\ UNCHANGED <<userVars, adminVars, groupVars, folderVars, roleVars,
                   keyVars, shareVars, eventRules, ruleActions>>

addEventRule(r, acs) ==
    /\ r \notin eventRules
    /\ acs \subseteq eventActions
    /\ actionRules' = addRuleToActionMapping(actionRules, r, acs)
    /\ eventRules' = eventRules \cup {r}
    /\ ruleActions' = Refer(ruleActions, r, acs)
    /\ UNCHANGED <<userVars, adminVars, groupVars, folderVars, roleVars,
                   keyVars, shareVars, eventActions>>

updateEventRule(r, acs) ==
    /\ r \in eventRules
    /\ acs \subseteq eventActions
    /\ actionRules' =
           addRuleToActionMapping(
               removeRuleFromActionMapping(
                   actionRules, r, Targets(ruleActions, r)), r, acs)
    /\ ruleActions' = Refer(ruleActions, r, acs)
    /\ UNCHANGED <<userVars, adminVars, groupVars, folderVars, roleVars,
                   keyVars, shareVars, eventActions, eventRules>>

deleteEventRule(r) ==
    /\ r \in eventRules
    /\ actionRules' = removeRuleFromActionMapping(
                          actionRules, r, Targets(ruleActions, r))
    /\ eventRules' = eventRules \ {r}
    /\ ruleActions' = WithoutSources(ruleActions, {r})
    /\ UNCHANGED <<userVars, adminVars, groupVars, folderVars, roleVars,
                   keyVars, shareVars, eventActions>>

-------------------------------------------------------------------------------
UserNext ==
    \E u \in Users :
        \/ \E rs \in AtMostOne(Roles), gs \in SUBSET Groups,
              fs \in SUBSET Folders :
               addUser(u, rs, gs, fs) \/ updateUser(u, rs, gs, fs)
        \/ deleteUser(u)

AdminNext ==
    \E a \in Admins :
        \/ \E rs \in AtMostOne(Roles), gs \in SUBSET Groups :
               addAdmin(a, rs, gs) \/ updateAdmin(a, rs, gs)
        \/ deleteAdmin(a)

GroupNext ==
    \E g \in Groups :
        \/ \E fs \in SUBSET Folders : addGroup(g, fs) \/ updateGroup(g, fs)
        \/ deleteGroup(g)

FolderNext ==
    \E f \in Folders : addFolder(f) \/ updateFolder(f) \/ deleteFolder(f)

RoleNext == \E r \in Roles : addRole(r) \/ updateRole(r) \/ deleteRole(r)

\* APIKey.validate: a key is for a user or for an admin, not for both
APIKeyNext ==
    \E k \in APIKeys :
        \/ \E us \in AtMostOne(Users) :
               addAPIKey(k, us, {}) \/ updateAPIKey(k, us, {})
        \/ \E ads \in AtMostOne(Admins) :
               addAPIKey(k, {}, ads) \/ updateAPIKey(k, {}, ads)
        \/ deleteAPIKey(k)

ShareNext ==
    \E s \in Shares, u \in Users :
        addShare(s, u) \/ updateShare(s, u) \/ deleteShare(s, u)

\* EventRule.validate: a rule has at least one action
EventNext ==
    \/ \E a \in EventActions :
           addEventAction(a) \/ updateEventAction(a) \/ deleteEventAction(a)
    \/ \E r \in EventRules :
           \/ \E acs \in SUBSET EventActions \ {{}} :
                  addEventRule(r, acs) \/ updateEventRule(r, acs)
           \/ deleteEventRule(r)

Next ==
    \/ UserNext \/ AdminNext \/ GroupNext \/ FolderNext \/ RoleNext
    \/ APIKeyNext \/ ShareNext \/ EventNext

Spec == Init /\ [][Next]_vars

-------------------------------------------------------------------------------
\* The lists of the objects referred to say exactly who refers to them: the
\* deletes of bolt.go decide and clean up by these lists alone
ListsAgree ==
    /\ groupUsers = userGroups /\ groupAdmins = adminGroups
    /\ folderUsers = userFolders /\ folderGroups = groupFolders
    /\ roleUsers = userRole /\ roleAdmins = adminRole
    /\ actionRules = ruleActions

\* No object refers to one that does not exist, although bolt.go checks the
\* other side only when the object itself is stored
ReferencesExist ==
    /\ Connects(userRole, users, roles)
    /\ Connects(userGroups, users, groups)
    /\ Connects(userFolders, users, folders)
    /\ Connects(adminRole, admins, roles)
    /\ Connects(adminGroups, admins, groups)
    /\ Connects(groupFolders, groups, folders)
    /\ Connects(keyUser, apiKeys, users)
    /\ Connects(keyAdmin, apiKeys, admins)
    /\ Connects(shareUser, shares, users)
    /\ Connects(ruleActions, eventRules, eventActions)

Abstract == INSTANCE Provider

\* The bolt provider does what every provider promises
ImplementsProvider == Abstract!Spec
===============================================================================
