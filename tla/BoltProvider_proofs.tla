-------------------------- MODULE BoltProvider_proofs --------------------------
(***************************************************************************)
(* Proofs about the bolt data provider.  The inductive invariant joins     *)
(* ListsAgree (the lists of the objects referred to mirror the references) *)
(* and ReferencesExist: with them every transaction of bolt.go is a step   *)
(* of the abstract Provider, which keeps the references sound.             *)
(***************************************************************************)
EXTENDS BoltProvider, TLAPS

-------------------------------------------------------------------------------
(* Facts about relations                                                   *)

\* Removing x from the lists of the objects it refers to (the first loops of
\* updateUser and deleteUser) removes every pair from x
LEMMA UnlistSource ==
    ASSUME NEW X, NEW Y, NEW R, Connects(R, X, Y), NEW x
    PROVE  R \ ({x} \X Targets(R, x)) = {p \in R : p[1] # x}
  <1>1. ASSUME NEW p \in R
        PROVE  p \in {x} \X Targets(R, x) <=> p[1] = x
    BY DEF Targets, Connects
  <1> QED  BY <1>1

\* Storing an object whose old references were removed from the lists, and
\* whose new ones were added, is replacing its references
LEMMA RelistSource ==
    ASSUME NEW X, NEW Y, NEW R, Connects(R, X, Y), NEW x, NEW S
    PROVE  (R \ ({x} \X Targets(R, x))) \cup ({x} \X S) = Refer(R, x, S)
  BY UnlistSource DEF Refer

\* Adding a new object to the lists is storing its references
LEMMA ListNew ==
    ASSUME NEW X, NEW Y, NEW R, Connects(R, X, Y), NEW x, x \notin X, NEW S
    PROVE  R \cup ({x} \X S) = Refer(R, x, S)
  <1>1. \A p \in R : p[1] # x
    BY DEF Connects
  <1> QED  BY <1>1 DEF Refer

\* Removing x from the lists of the objects it refers to removes its pairs
LEMMA UnlistAll ==
    ASSUME NEW X, NEW Y, NEW R, Connects(R, X, Y), NEW x
    PROVE  R \ ({x} \X Targets(R, x)) = WithoutSources(R, {x})
  BY UnlistSource DEF WithoutSources

\* The objects named by the list of y lose y: no pair to y is left
LEMMA UnlistTarget ==
    ASSUME NEW X, NEW Y, NEW R, Connects(R, X, Y), NEW y
    PROVE  R \ (Sources(R, y) \X {y}) = WithoutTarget(R, y)
  <1>1. ASSUME NEW p \in R
        PROVE  p \in Sources(R, y) \X {y} <=> p[2] = y
    BY DEF Sources, Connects
  <1> QED  BY <1>1 DEF WithoutTarget

\* No pair leads to an object that does not exist: the empty lists of a new
\* object agree with the references
LEMMA NewTarget ==
    ASSUME NEW X, NEW Y, NEW R, Connects(R, X, Y), NEW y, y \notin Y
    PROVE  WithoutTarget(R, y) = R
  BY DEF WithoutTarget, Connects

\* An object whose list is empty has nothing to lose
LEMMA UnusedTarget ==
    ASSUME NEW X, NEW Y, NEW R, Connects(R, X, Y), NEW y, Sources(R, y) = {}
    PROVE  WithoutTarget(R, y) = R
  BY DEF WithoutTarget, Connects, Sources

\* Stored references lead from and to existing objects
LEMMA ReferConnects ==
    ASSUME NEW X, NEW Y, NEW R, Connects(R, X, Y), NEW x, NEW S \in SUBSET Y
    PROVE  Connects(Refer(R, x, S), X \cup {x}, Y)
  BY DEF Refer, Connects

\* The sources removed, and their pairs
LEMMA SourcesConnects ==
    ASSUME NEW X, NEW Y, NEW R, Connects(R, X, Y), NEW Z
    PROVE  Connects(WithoutSources(R, Z), X \ Z, Y)
  BY DEF WithoutSources, Connects

\* The target removed, and its pairs
LEMMA TargetConnects ==
    ASSUME NEW X, NEW Y, NEW R, Connects(R, X, Y), NEW y
    PROVE  Connects(WithoutTarget(R, y), X, Y \ {y})
  BY DEF WithoutTarget, Connects

\* The target removed with every object that refers to it
LEMMA CascadeConnects ==
    ASSUME NEW X, NEW Y, NEW R, Connects(R, X, Y), NEW y
    PROVE  Connects(WithoutSources(R, Sources(R, y)), X \ Sources(R, y),
                    Y \ {y})
  <1>1. ASSUME NEW p \in R, p[1] \notin Sources(R, y)
        PROVE  p[2] # y
    BY <1>1 DEF Sources, Connects
  <1> QED  BY <1>1 DEF WithoutSources, Connects

-------------------------------------------------------------------------------
(* Every transaction keeps the invariant and is an abstract operation      *)

Inv == ListsAgree /\ ReferencesExist

\* The operators of ProviderLinks mean the same in the abstract module
LEMMA SameOps ==
    ASSUME NEW R, NEW x, NEW S
    PROVE  /\ Abstract!Refer(R, x, S) = Refer(R, x, S)
           /\ Abstract!WithoutSources(R, S) = WithoutSources(R, S)
           /\ Abstract!WithoutTarget(R, x) = WithoutTarget(R, x)
           /\ Abstract!Sources(R, x) = Sources(R, x)
  BY DEF Abstract!Refer, Refer, Abstract!WithoutSources, WithoutSources,
     Abstract!WithoutTarget, WithoutTarget, Abstract!Sources, Sources

\* addUser: the lists of the role, the groups and the folders get the name
LEMMA AddUserStep ==
    ASSUME Inv, NEW u \in Users, NEW rs, NEW gs, NEW fs,
           addUser(u, rs, gs, fs)
    PROVE  Inv' /\ Abstract!AddUser(u, rs, gs, fs)
  <1>1. /\ Connects(userRole, users, roles)
        /\ Connects(userGroups, users, groups)
        /\ Connects(userFolders, users, folders)
        /\ Connects(keyUser, apiKeys, users)
        /\ Connects(shareUser, shares, users)
    BY DEF Inv, ReferencesExist
  <1>2. /\ u \notin users
        /\ rs \in SUBSET roles
        /\ gs \in SUBSET groups
        /\ fs \in SUBSET folders
    BY DEF addUser
  <1>3. /\ userRole \cup ({u} \X rs) = Refer(userRole, u, rs)
        /\ userGroups \cup ({u} \X gs) = Refer(userGroups, u, gs)
        /\ userFolders \cup ({u} \X fs) = Refer(userFolders, u, fs)
    BY <1>1, <1>2, ListNew, Z3
  <1>4. /\ Connects(Refer(userRole, u, rs), users \cup {u}, roles)
        /\ Connects(Refer(userGroups, u, gs), users \cup {u}, groups)
        /\ Connects(Refer(userFolders, u, fs), users \cup {u}, folders)
    BY <1>1, <1>2, ReferConnects, Z3
  <1>5. /\ Connects(keyUser, apiKeys, users \cup {u})
        /\ Connects(shareUser, shares, users \cup {u})
    BY <1>1 DEF Connects
  <1>6. ListsAgree'
    BY <1>3 DEF Inv, ListsAgree, addUser, addUserToRole,
       addRelationToFolderMapping, addUserToGroupMapping, userVars, adminVars,
       groupVars, folderVars, roleVars, keyVars, shareVars, eventVars
  <1>7. ReferencesExist'
    BY <1>4, <1>5 DEF Inv, ReferencesExist, addUser, userVars, adminVars,
       groupVars, folderVars, roleVars, keyVars, shareVars, eventVars
  <1>8. Abstract!AddUser(u, rs, gs, fs)
    BY <1>2, SameOps DEF addUser, Abstract!AddUser, Abstract!StoreUser,
       Abstract!userVars, Abstract!adminVars, Abstract!groupVars,
       Abstract!keyVars, Abstract!shareVars, Abstract!ruleVars, userVars,
       adminVars, groupVars, folderVars, roleVars, keyVars, shareVars,
       eventVars
  <1> QED  BY <1>6, <1>7, <1>8 DEF Inv

\* updateUser: the old names are taken off the lists, then the new ones put
LEMMA UpdateUserStep ==
    ASSUME Inv, NEW u \in Users, NEW rs, NEW gs, NEW fs,
           updateUser(u, rs, gs, fs)
    PROVE  Inv' /\ Abstract!UpdateUser(u, rs, gs, fs)
  <1>1. /\ Connects(userRole, users, roles)
        /\ Connects(userGroups, users, groups)
        /\ Connects(userFolders, users, folders)
    BY DEF Inv, ReferencesExist
  <1>2. /\ users \cup {u} = users
        /\ rs \in SUBSET roles
        /\ gs \in SUBSET groups
        /\ fs \in SUBSET folders
    BY DEF updateUser, updateUserRelations
  <1>3. /\ (userRole \ ({u} \X Targets(userRole, u))) \cup ({u} \X rs)
           = Refer(userRole, u, rs)
        /\ (userGroups \ ({u} \X Targets(userGroups, u))) \cup ({u} \X gs)
           = Refer(userGroups, u, gs)
        /\ (userFolders \ ({u} \X Targets(userFolders, u))) \cup ({u} \X fs)
           = Refer(userFolders, u, fs)
    BY <1>1, <1>2, RelistSource, Z3
  <1>4. /\ Connects(Refer(userRole, u, rs), users \cup {u}, roles)
        /\ Connects(Refer(userGroups, u, gs), users \cup {u}, groups)
        /\ Connects(Refer(userFolders, u, fs), users \cup {u}, folders)
    BY <1>1, <1>2, ReferConnects, Z3
  <1>6. ListsAgree'
    BY <1>3 DEF Inv, ListsAgree, updateUser, updateUserRelations,
       addUserToRole, addRelationToFolderMapping, addUserToGroupMapping,
       removeUserFromRole, removeRelationFromFolderMapping,
       removeUserFromGroupMapping, userVars, adminVars, groupVars, folderVars,
       roleVars, keyVars, shareVars, eventVars
  <1>7. ReferencesExist'
    BY <1>2, <1>4 DEF Inv, ReferencesExist, updateUser, updateUserRelations,
       userVars, adminVars, groupVars, folderVars, roleVars, keyVars,
       shareVars, eventVars
  <1>8. Abstract!UpdateUser(u, rs, gs, fs)
    BY <1>2, SameOps DEF updateUser, updateUserRelations, Abstract!UpdateUser,
       Abstract!StoreUser, Abstract!userVars, Abstract!adminVars,
       Abstract!groupVars, Abstract!keyVars, Abstract!shareVars,
       Abstract!ruleVars, userVars, adminVars, groupVars, folderVars,
       roleVars, keyVars, shareVars, eventVars
  <1> QED  BY <1>6, <1>7, <1>8 DEF Inv

\* deleteUser: the name is taken off the lists, and the API keys and the
\* shares of the user are deleted
LEMMA DeleteUserStep ==
    ASSUME Inv, NEW u \in Users, deleteUser(u)
    PROVE  Inv' /\ Abstract!DeleteUser(u)
  <1>1. /\ Connects(userRole, users, roles)
        /\ Connects(userGroups, users, groups)
        /\ Connects(userFolders, users, folders)
        /\ Connects(keyUser, apiKeys, users)
        /\ Connects(shareUser, shares, users)
        /\ Connects(keyAdmin, apiKeys, admins)
    BY DEF Inv, ReferencesExist
  <1>3. /\ userRole \ ({u} \X Targets(userRole, u))
           = WithoutSources(userRole, {u})
        /\ userGroups \ ({u} \X Targets(userGroups, u))
           = WithoutSources(userGroups, {u})
        /\ userFolders \ ({u} \X Targets(userFolders, u))
           = WithoutSources(userFolders, {u})
    BY <1>1, UnlistAll, Z3
  <1>4. /\ Connects(WithoutSources(userRole, {u}), users \ {u}, roles)
        /\ Connects(WithoutSources(userGroups, {u}), users \ {u}, groups)
        /\ Connects(WithoutSources(userFolders, {u}), users \ {u}, folders)
        /\ Connects(WithoutSources(keyUser, Sources(keyUser, u)),
                    apiKeys \ Sources(keyUser, u), users \ {u})
        /\ Connects(WithoutSources(shareUser, Sources(shareUser, u)),
                    shares \ Sources(shareUser, u), users \ {u})
        /\ Connects(WithoutSources(keyAdmin, Sources(keyUser, u)),
                    apiKeys \ Sources(keyUser, u), admins)
    BY <1>1, CascadeConnects, SourcesConnects, Z3
  <1>6. ListsAgree'
    BY <1>3 DEF Inv, ListsAgree, deleteUser, deleteRelatedAPIKey,
       deleteRelatedShares, removeUserFromRole,
       removeRelationFromFolderMapping, removeUserFromGroupMapping, userVars,
       adminVars, groupVars, folderVars, roleVars, keyVars, shareVars,
       eventVars
  <1>7. ReferencesExist'
    BY <1>4 DEF Inv, ReferencesExist, deleteUser, deleteRelatedAPIKey,
       deleteRelatedShares, userVars, adminVars, groupVars, folderVars,
       roleVars, keyVars, shareVars, eventVars
  <1>8. Abstract!DeleteUser(u)
    BY SameOps DEF deleteUser, deleteRelatedAPIKey, deleteRelatedShares,
       Abstract!DeleteUser, Abstract!userVars, Abstract!adminVars,
       Abstract!groupVars, Abstract!keyVars, Abstract!shareVars,
       Abstract!ruleVars, userVars, adminVars, groupVars, folderVars,
       roleVars, keyVars, shareVars, eventVars
  <1> QED  BY <1>6, <1>7, <1>8 DEF Inv

\* addAdmin: the lists of the role and of the groups get the name
LEMMA AddAdminStep ==
    ASSUME Inv, NEW a \in Admins, NEW rs, NEW gs, addAdmin(a, rs, gs)
    PROVE  Inv' /\ Abstract!AddAdmin(a, rs, gs)
  <1>1. /\ Connects(adminRole, admins, roles)
        /\ Connects(adminGroups, admins, groups)
        /\ Connects(keyAdmin, apiKeys, admins)
    BY DEF Inv, ReferencesExist
  <1>2. /\ a \notin admins
        /\ rs \in SUBSET roles
        /\ gs \in SUBSET groups
    BY DEF addAdmin
  <1>3. /\ adminRole \cup ({a} \X rs) = Refer(adminRole, a, rs)
        /\ adminGroups \cup ({a} \X gs) = Refer(adminGroups, a, gs)
    BY <1>1, <1>2, ListNew, Z3
  <1>4. /\ Connects(Refer(adminRole, a, rs), admins \cup {a}, roles)
        /\ Connects(Refer(adminGroups, a, gs), admins \cup {a}, groups)
    BY <1>1, <1>2, ReferConnects, Z3
  <1>5. Connects(keyAdmin, apiKeys, admins \cup {a})
    BY <1>1 DEF Connects
  <1>6. ListsAgree'
    BY <1>3 DEF Inv, ListsAgree, addAdmin, addAdminToRole,
       addAdminToGroupMapping, userVars, adminVars, groupVars, folderVars,
       roleVars, keyVars, shareVars, eventVars
  <1>7. ReferencesExist'
    BY <1>4, <1>5 DEF Inv, ReferencesExist, addAdmin, userVars, adminVars,
       groupVars, folderVars, roleVars, keyVars, shareVars, eventVars
  <1>8. Abstract!AddAdmin(a, rs, gs)
    BY <1>2, SameOps DEF addAdmin, Abstract!AddAdmin, Abstract!StoreAdmin,
       Abstract!userVars, Abstract!adminVars, Abstract!groupVars,
       Abstract!keyVars, Abstract!shareVars, Abstract!ruleVars, userVars,
       adminVars, groupVars, folderVars, roleVars, keyVars, shareVars,
       eventVars
  <1> QED  BY <1>6, <1>7, <1>8 DEF Inv

\* updateAdmin: the old names are taken off the lists, then the new ones put
LEMMA UpdateAdminStep ==
    ASSUME Inv, NEW a \in Admins, NEW rs, NEW gs, updateAdmin(a, rs, gs)
    PROVE  Inv' /\ Abstract!UpdateAdmin(a, rs, gs)
  <1>1. /\ Connects(adminRole, admins, roles)
        /\ Connects(adminGroups, admins, groups)
    BY DEF Inv, ReferencesExist
  <1>2. /\ admins \cup {a} = admins
        /\ rs \in SUBSET roles
        /\ gs \in SUBSET groups
    BY DEF updateAdmin
  <1>3. /\ (adminRole \ ({a} \X Targets(adminRole, a))) \cup ({a} \X rs)
           = Refer(adminRole, a, rs)
        /\ (adminGroups \ ({a} \X Targets(adminGroups, a))) \cup ({a} \X gs)
           = Refer(adminGroups, a, gs)
    BY <1>1, <1>2, RelistSource, Z3
  <1>4. /\ Connects(Refer(adminRole, a, rs), admins \cup {a}, roles)
        /\ Connects(Refer(adminGroups, a, gs), admins \cup {a}, groups)
    BY <1>1, <1>2, ReferConnects, Z3
  <1>6. ListsAgree'
    BY <1>3 DEF Inv, ListsAgree, updateAdmin, addAdminToRole,
       addAdminToGroupMapping, removeAdminFromRole,
       removeAdminFromGroupMapping, userVars, adminVars, groupVars,
       folderVars, roleVars, keyVars, shareVars, eventVars
  <1>7. ReferencesExist'
    BY <1>2, <1>4 DEF Inv, ReferencesExist, updateAdmin, userVars, adminVars,
       groupVars, folderVars, roleVars, keyVars, shareVars, eventVars
  <1>8. Abstract!UpdateAdmin(a, rs, gs)
    BY <1>2, SameOps DEF updateAdmin, Abstract!UpdateAdmin,
       Abstract!StoreAdmin, Abstract!userVars, Abstract!adminVars,
       Abstract!groupVars, Abstract!keyVars, Abstract!shareVars,
       Abstract!ruleVars, userVars, adminVars, groupVars, folderVars,
       roleVars, keyVars, shareVars, eventVars
  <1> QED  BY <1>6, <1>7, <1>8 DEF Inv

\* deleteAdmin: the name is taken off the lists, and the API keys of the admin
\* are deleted
LEMMA DeleteAdminStep ==
    ASSUME Inv, NEW a \in Admins, deleteAdmin(a)
    PROVE  Inv' /\ Abstract!DeleteAdmin(a)
  <1>1. /\ Connects(adminRole, admins, roles)
        /\ Connects(adminGroups, admins, groups)
        /\ Connects(keyAdmin, apiKeys, admins)
        /\ Connects(keyUser, apiKeys, users)
    BY DEF Inv, ReferencesExist
  <1>3. /\ adminRole \ ({a} \X Targets(adminRole, a))
           = WithoutSources(adminRole, {a})
        /\ adminGroups \ ({a} \X Targets(adminGroups, a))
           = WithoutSources(adminGroups, {a})
    BY <1>1, UnlistAll, Z3
  <1>4. /\ Connects(WithoutSources(adminRole, {a}), admins \ {a}, roles)
        /\ Connects(WithoutSources(adminGroups, {a}), admins \ {a}, groups)
        /\ Connects(WithoutSources(keyAdmin, Sources(keyAdmin, a)),
                    apiKeys \ Sources(keyAdmin, a), admins \ {a})
        /\ Connects(WithoutSources(keyUser, Sources(keyAdmin, a)),
                    apiKeys \ Sources(keyAdmin, a), users)
    BY <1>1, CascadeConnects, SourcesConnects, Z3
  <1>6. ListsAgree'
    BY <1>3 DEF Inv, ListsAgree, deleteAdmin, deleteRelatedAPIKey,
       removeAdminFromRole, removeAdminFromGroupMapping, userVars, adminVars,
       groupVars, folderVars, roleVars, keyVars, shareVars, eventVars
  <1>7. ReferencesExist'
    BY <1>4 DEF Inv, ReferencesExist, deleteAdmin, deleteRelatedAPIKey,
       userVars, adminVars, groupVars, folderVars, roleVars, keyVars,
       shareVars, eventVars
  <1>8. Abstract!DeleteAdmin(a)
    BY SameOps DEF deleteAdmin, deleteRelatedAPIKey, Abstract!DeleteAdmin,
       Abstract!userVars, Abstract!adminVars, Abstract!groupVars,
       Abstract!keyVars, Abstract!shareVars, Abstract!ruleVars, userVars,
       adminVars, groupVars, folderVars, roleVars, keyVars, shareVars,
       eventVars
  <1> QED  BY <1>6, <1>7, <1>8 DEF Inv

-------------------------------------------------------------------------------
\* addGroup: the lists of the folders get the name, the new lists are empty
LEMMA AddGroupStep ==
    ASSUME Inv, NEW g \in Groups, NEW fs, addGroup(g, fs)
    PROVE  Inv' /\ Abstract!AddGroup(g, fs)
  <1>1. /\ Connects(groupFolders, groups, folders)
        /\ Connects(userGroups, users, groups)
        /\ Connects(adminGroups, admins, groups)
    BY DEF Inv, ReferencesExist
  <1>2. /\ g \notin groups
        /\ fs \in SUBSET folders
    BY DEF addGroup
  <1>3. /\ groupFolders \cup ({g} \X fs) = Refer(groupFolders, g, fs)
        /\ WithoutTarget(userGroups, g) = userGroups
        /\ WithoutTarget(adminGroups, g) = adminGroups
    BY <1>1, <1>2, ListNew, NewTarget, Z3
  <1>4. Connects(Refer(groupFolders, g, fs), groups \cup {g}, folders)
    BY <1>1, <1>2, ReferConnects, Z3
  <1>5. /\ Connects(userGroups, users, groups \cup {g})
        /\ Connects(adminGroups, admins, groups \cup {g})
    BY <1>1 DEF Connects
  <1>6. ListsAgree'
    BY <1>3 DEF Inv, ListsAgree, addGroup, addRelationToFolderMapping,
       userVars, adminVars, groupVars, folderVars, roleVars, keyVars,
       shareVars, eventVars
  <1>7. ReferencesExist'
    BY <1>4, <1>5 DEF Inv, ReferencesExist, addGroup, userVars, adminVars,
       groupVars, folderVars, roleVars, keyVars, shareVars, eventVars
  <1>8. Abstract!AddGroup(g, fs)
    BY <1>2, SameOps DEF addGroup, Abstract!AddGroup, Abstract!StoreGroup,
       Abstract!userVars, Abstract!adminVars, Abstract!groupVars,
       Abstract!keyVars, Abstract!shareVars, Abstract!ruleVars, userVars,
       adminVars, groupVars, folderVars, roleVars, keyVars, shareVars,
       eventVars
  <1> QED  BY <1>6, <1>7, <1>8 DEF Inv

\* updateGroup: the folders change, the users and the admins are kept
LEMMA UpdateGroupStep ==
    ASSUME Inv, NEW g \in Groups, NEW fs, updateGroup(g, fs)
    PROVE  Inv' /\ Abstract!UpdateGroup(g, fs)
  <1>1. Connects(groupFolders, groups, folders)
    BY DEF Inv, ReferencesExist
  <1>2. /\ groups \cup {g} = groups
        /\ fs \in SUBSET folders
    BY DEF updateGroup
  <1>3. (groupFolders \ ({g} \X Targets(groupFolders, g))) \cup ({g} \X fs)
           = Refer(groupFolders, g, fs)
    BY <1>1, <1>2, RelistSource, Z3
  <1>4. Connects(Refer(groupFolders, g, fs), groups \cup {g}, folders)
    BY <1>1, <1>2, ReferConnects, Z3
  <1>6. ListsAgree'
    BY <1>3 DEF Inv, ListsAgree, updateGroup, addRelationToFolderMapping,
       removeRelationFromFolderMapping, userVars, adminVars, groupVars,
       folderVars, roleVars, keyVars, shareVars, eventVars
  <1>7. ReferencesExist'
    BY <1>2, <1>4 DEF Inv, ReferencesExist, updateGroup, userVars, adminVars,
       groupVars, folderVars, roleVars, keyVars, shareVars, eventVars
  <1>8. Abstract!UpdateGroup(g, fs)
    BY <1>2, SameOps DEF updateGroup, Abstract!UpdateGroup,
       Abstract!StoreGroup, Abstract!userVars, Abstract!adminVars,
       Abstract!groupVars, Abstract!keyVars, Abstract!shareVars,
       Abstract!ruleVars, userVars, adminVars, groupVars, folderVars,
       roleVars, keyVars, shareVars, eventVars
  <1> QED  BY <1>6, <1>7, <1>8 DEF Inv

\* deleteGroup: refused by the list of the users, the list of the admins
\* tells which admins lose the group
LEMMA DeleteGroupStep ==
    ASSUME Inv, NEW g \in Groups, deleteGroup(g)
    PROVE  Inv' /\ Abstract!DeleteGroup(g)
  <1>1. /\ Connects(groupFolders, groups, folders)
        /\ Connects(adminGroups, admins, groups)
        /\ Connects(userGroups, users, groups)
    BY DEF Inv, ReferencesExist
  <1>2. Sources(userGroups, g) = {}
    BY DEF Inv, ListsAgree, deleteGroup
  <1>3. /\ groupFolders \ ({g} \X Targets(groupFolders, g))
           = WithoutSources(groupFolders, {g})
        /\ adminGroups \ (Sources(adminGroups, g) \X {g})
           = WithoutTarget(adminGroups, g)
        /\ WithoutTarget(userGroups, g) = userGroups
    BY <1>1, <1>2, UnlistAll, UnlistTarget, UnusedTarget, Z3
  <1>4. /\ Connects(WithoutSources(groupFolders, {g}), groups \ {g}, folders)
        /\ Connects(WithoutTarget(adminGroups, g), admins, groups \ {g})
        /\ Connects(WithoutTarget(userGroups, g), users, groups \ {g})
    BY <1>1, <1>2, <1>3, SourcesConnects, TargetConnects, Z3
  <1>6. ListsAgree'
    BY <1>3 DEF Inv, ListsAgree, deleteGroup, removeRelationFromFolderMapping,
       removeGroupFromAdminMapping, userVars, adminVars, groupVars,
       folderVars, roleVars, keyVars, shareVars, eventVars
  <1>7. ReferencesExist'
    BY <1>3, <1>4 DEF Inv, ReferencesExist, ListsAgree, deleteGroup,
       removeRelationFromFolderMapping, removeGroupFromAdminMapping, userVars,
       adminVars, groupVars, folderVars, roleVars, keyVars, shareVars,
       eventVars
  <1>8. Abstract!DeleteGroup(g)
    BY <1>3, <1>2, SameOps DEF Inv, ListsAgree, deleteGroup,
       removeRelationFromFolderMapping, removeGroupFromAdminMapping,
       Abstract!DeleteGroup, Abstract!userVars, Abstract!adminVars,
       Abstract!groupVars, Abstract!keyVars, Abstract!shareVars,
       Abstract!ruleVars, userVars, adminVars, groupVars, folderVars,
       roleVars, keyVars, shareVars, eventVars
  <1> QED  BY <1>6, <1>7, <1>8 DEF Inv

\* addFolder: the lists of the new folder are empty
LEMMA AddFolderStep ==
    ASSUME Inv, NEW f \in Folders, addFolder(f)
    PROVE  Inv' /\ Abstract!AddFolder(f)
  <1>1. /\ Connects(userFolders, users, folders)
        /\ Connects(groupFolders, groups, folders)
    BY DEF Inv, ReferencesExist
  <1>2. f \notin folders
    BY DEF addFolder
  <1>3. /\ WithoutTarget(userFolders, f) = userFolders
        /\ WithoutTarget(groupFolders, f) = groupFolders
    BY <1>1, <1>2, NewTarget, Z3
  <1>5. /\ Connects(userFolders, users, folders \cup {f})
        /\ Connects(groupFolders, groups, folders \cup {f})
    BY <1>1 DEF Connects
  <1>6. ListsAgree'
    BY <1>3 DEF Inv, ListsAgree, addFolder, userVars, adminVars, groupVars,
       folderVars, roleVars, keyVars, shareVars, eventVars
  <1>7. ReferencesExist'
    BY <1>5 DEF Inv, ReferencesExist, addFolder, userVars, adminVars,
       groupVars, folderVars, roleVars, keyVars, shareVars, eventVars
  <1>8. Abstract!AddFolder(f)
    BY <1>2 DEF addFolder, Abstract!AddFolder, Abstract!userVars,
       Abstract!adminVars, Abstract!groupVars, Abstract!keyVars,
       Abstract!shareVars, Abstract!ruleVars, userVars, adminVars, groupVars,
       folderVars, roleVars, keyVars, shareVars, eventVars
  <1> QED  BY <1>6, <1>7, <1>8 DEF Inv

\* deleteFolder: its lists tell which users and groups lose it
LEMMA DeleteFolderStep ==
    ASSUME Inv, NEW f \in Folders, deleteFolder(f)
    PROVE  Inv' /\ Abstract!DeleteFolder(f)
  <1>1. /\ Connects(userFolders, users, folders)
        /\ Connects(groupFolders, groups, folders)
    BY DEF Inv, ReferencesExist
  <1>3. /\ userFolders \ (Sources(userFolders, f) \X {f})
           = WithoutTarget(userFolders, f)
        /\ groupFolders \ (Sources(groupFolders, f) \X {f})
           = WithoutTarget(groupFolders, f)
    BY <1>1, UnlistTarget, Z3
  <1>4. /\ Connects(WithoutTarget(userFolders, f), users, folders \ {f})
        /\ Connects(WithoutTarget(groupFolders, f), groups, folders \ {f})
    BY <1>1, TargetConnects, Z3
  <1>6. ListsAgree'
    BY <1>3 DEF Inv, ListsAgree, deleteFolder, deleteFolderMappings, userVars,
       adminVars, groupVars, folderVars, roleVars, keyVars, shareVars,
       eventVars
  <1>7. ReferencesExist'
    BY <1>3, <1>4 DEF Inv, ReferencesExist, ListsAgree, deleteFolder,
       deleteFolderMappings, userVars, adminVars, groupVars, folderVars,
       roleVars, keyVars, shareVars, eventVars
  <1>8. Abstract!DeleteFolder(f)
    BY <1>3, SameOps DEF Inv, ListsAgree, deleteFolder, deleteFolderMappings,
       Abstract!DeleteFolder, Abstract!userVars, Abstract!adminVars,
       Abstract!groupVars, Abstract!keyVars, Abstract!shareVars,
       Abstract!ruleVars, userVars, adminVars, groupVars, folderVars,
       roleVars, keyVars, shareVars, eventVars
  <1> QED  BY <1>6, <1>7, <1>8 DEF Inv

\* addRole: the lists of the new role are empty
LEMMA AddRoleStep ==
    ASSUME Inv, NEW r \in Roles, addRole(r)
    PROVE  Inv' /\ Abstract!AddRole(r)
  <1>1. /\ Connects(userRole, users, roles)
        /\ Connects(adminRole, admins, roles)
    BY DEF Inv, ReferencesExist
  <1>2. r \notin roles
    BY DEF addRole
  <1>3. /\ WithoutTarget(userRole, r) = userRole
        /\ WithoutTarget(adminRole, r) = adminRole
    BY <1>1, <1>2, NewTarget, Z3
  <1>5. /\ Connects(userRole, users, roles \cup {r})
        /\ Connects(adminRole, admins, roles \cup {r})
    BY <1>1 DEF Connects
  <1>6. ListsAgree'
    BY <1>3 DEF Inv, ListsAgree, addRole, userVars, adminVars, groupVars,
       folderVars, roleVars, keyVars, shareVars, eventVars
  <1>7. ReferencesExist'
    BY <1>5 DEF Inv, ReferencesExist, addRole, userVars, adminVars, groupVars,
       folderVars, roleVars, keyVars, shareVars, eventVars
  <1>8. Abstract!AddRole(r)
    BY <1>2 DEF addRole, Abstract!AddRole, Abstract!userVars,
       Abstract!adminVars, Abstract!groupVars, Abstract!keyVars,
       Abstract!shareVars, Abstract!ruleVars, userVars, adminVars, groupVars,
       folderVars, roleVars, keyVars, shareVars, eventVars
  <1> QED  BY <1>6, <1>7, <1>8 DEF Inv

\* deleteRole: refused by the list of the admins, the list of the users
\* tells which users lose the role
LEMMA DeleteRoleStep ==
    ASSUME Inv, NEW r \in Roles, deleteRole(r)
    PROVE  Inv' /\ Abstract!DeleteRole(r)
  <1>1. /\ Connects(userRole, users, roles)
        /\ Connects(adminRole, admins, roles)
    BY DEF Inv, ReferencesExist
  <1>2. Sources(adminRole, r) = {}
    BY DEF Inv, ListsAgree, deleteRole
  <1>3. /\ userRole \ (Sources(userRole, r) \X {r})
           = WithoutTarget(userRole, r)
        /\ WithoutTarget(adminRole, r) = adminRole
    BY <1>1, <1>2, UnlistTarget, UnusedTarget, Z3
  <1>4. /\ Connects(WithoutTarget(userRole, r), users, roles \ {r})
        /\ Connects(WithoutTarget(adminRole, r), admins, roles \ {r})
    BY <1>1, <1>2, <1>3, TargetConnects, Z3
  <1>6. ListsAgree'
    BY <1>3 DEF Inv, ListsAgree, deleteRole, removeRoleFromUser, userVars,
       adminVars, groupVars, folderVars, roleVars, keyVars, shareVars,
       eventVars
  <1>7. ReferencesExist'
    BY <1>3, <1>4 DEF Inv, ReferencesExist, ListsAgree, deleteRole,
       removeRoleFromUser, userVars, adminVars, groupVars, folderVars,
       roleVars, keyVars, shareVars, eventVars
  <1>8. Abstract!DeleteRole(r)
    BY <1>3, <1>2, SameOps DEF Inv, ListsAgree, deleteRole,
       removeRoleFromUser, Abstract!DeleteRole, Abstract!userVars,
       Abstract!adminVars, Abstract!groupVars, Abstract!keyVars,
       Abstract!shareVars, Abstract!ruleVars, userVars, adminVars, groupVars,
       folderVars, roleVars, keyVars, shareVars, eventVars
  <1> QED  BY <1>6, <1>7, <1>8 DEF Inv

-------------------------------------------------------------------------------
\* addAPIKey: the user or the admin of the key exists
LEMMA AddAPIKeyStep ==
    ASSUME Inv, NEW k \in APIKeys, NEW us, NEW ads, addAPIKey(k, us, ads)
    PROVE  Inv' /\ Abstract!AddAPIKey(k, us, ads)
  <1>1. /\ Connects(keyUser, apiKeys, users)
        /\ Connects(keyAdmin, apiKeys, admins)
    BY DEF Inv, ReferencesExist
  <1>2. /\ us \in SUBSET users
        /\ ads \in SUBSET admins
    BY DEF addAPIKey
  <1>4. /\ Connects(Refer(keyUser, k, us), apiKeys \cup {k}, users)
        /\ Connects(Refer(keyAdmin, k, ads), apiKeys \cup {k}, admins)
    BY <1>1, <1>2, ReferConnects, Z3
  <1>6. ListsAgree'
    BY DEF Inv, ListsAgree, addAPIKey, userVars, adminVars, groupVars,
       folderVars, roleVars, keyVars, shareVars, eventVars
  <1>7. ReferencesExist'
    BY <1>4 DEF Inv, ReferencesExist, addAPIKey, userVars, adminVars,
       groupVars, folderVars, roleVars, keyVars, shareVars, eventVars
  <1>8. Abstract!AddAPIKey(k, us, ads)
    BY <1>2, SameOps DEF addAPIKey, Abstract!AddAPIKey, Abstract!StoreAPIKey,
       Abstract!userVars, Abstract!adminVars, Abstract!groupVars,
       Abstract!keyVars, Abstract!shareVars, Abstract!ruleVars, userVars,
       adminVars, groupVars, folderVars, roleVars, keyVars, shareVars,
       eventVars
  <1> QED  BY <1>6, <1>7, <1>8 DEF Inv

\* updateAPIKey: the new user or admin of the key exists
LEMMA UpdateAPIKeyStep ==
    ASSUME Inv, NEW k \in APIKeys, NEW us, NEW ads,
           updateAPIKey(k, us, ads)
    PROVE  Inv' /\ Abstract!UpdateAPIKey(k, us, ads)
  <1>1. /\ Connects(keyUser, apiKeys, users)
        /\ Connects(keyAdmin, apiKeys, admins)
    BY DEF Inv, ReferencesExist
  <1>2. /\ apiKeys \cup {k} = apiKeys
        /\ us \in SUBSET users
        /\ ads \in SUBSET admins
    BY DEF updateAPIKey
  <1>4. /\ Connects(Refer(keyUser, k, us), apiKeys \cup {k}, users)
        /\ Connects(Refer(keyAdmin, k, ads), apiKeys \cup {k}, admins)
    BY <1>1, <1>2, ReferConnects, Z3
  <1>6. ListsAgree'
    BY DEF Inv, ListsAgree, updateAPIKey, userVars, adminVars, groupVars,
       folderVars, roleVars, keyVars, shareVars, eventVars
  <1>7. ReferencesExist'
    BY <1>2, <1>4 DEF Inv, ReferencesExist, updateAPIKey, userVars, adminVars,
       groupVars, folderVars, roleVars, keyVars, shareVars, eventVars
  <1>8. Abstract!UpdateAPIKey(k, us, ads)
    BY <1>2, SameOps DEF updateAPIKey, Abstract!UpdateAPIKey,
       Abstract!StoreAPIKey, Abstract!userVars, Abstract!adminVars,
       Abstract!groupVars, Abstract!keyVars, Abstract!shareVars,
       Abstract!ruleVars, userVars, adminVars, groupVars, folderVars,
       roleVars, keyVars, shareVars, eventVars
  <1> QED  BY <1>6, <1>7, <1>8 DEF Inv

\* deleteAPIKey removes the references of the key with it
LEMMA DeleteAPIKeyStep ==
    ASSUME Inv, NEW k \in APIKeys, deleteAPIKey(k)
    PROVE  Inv' /\ Abstract!DeleteAPIKey(k)
  <1>1. /\ Connects(keyUser, apiKeys, users)
        /\ Connects(keyAdmin, apiKeys, admins)
    BY DEF Inv, ReferencesExist
  <1>4. /\ Connects(WithoutSources(keyUser, {k}), apiKeys \ {k}, users)
        /\ Connects(WithoutSources(keyAdmin, {k}), apiKeys \ {k}, admins)
    BY <1>1, SourcesConnects, Z3
  <1>6. ListsAgree'
    BY DEF Inv, ListsAgree, deleteAPIKey, deleteRelatedAPIKey, userVars,
       adminVars, groupVars, folderVars, roleVars, keyVars, shareVars,
       eventVars
  <1>7. ReferencesExist'
    BY <1>4 DEF Inv, ReferencesExist, deleteAPIKey, deleteRelatedAPIKey,
       userVars, adminVars, groupVars, folderVars, roleVars, keyVars,
       shareVars, eventVars
  <1>8. Abstract!DeleteAPIKey(k)
    BY SameOps DEF deleteAPIKey, deleteRelatedAPIKey, Abstract!DeleteAPIKey,
       Abstract!userVars, Abstract!adminVars, Abstract!groupVars,
       Abstract!keyVars, Abstract!shareVars, Abstract!ruleVars, userVars,
       adminVars, groupVars, folderVars, roleVars, keyVars, shareVars,
       eventVars
  <1> QED  BY <1>6, <1>7, <1>8 DEF Inv

\* addShare: the user of the share exists
LEMMA AddShareStep ==
    ASSUME Inv, NEW s \in Shares, NEW u \in Users, addShare(s, u)
    PROVE  Inv' /\ Abstract!AddShare(s, u)
  <1>1. Connects(shareUser, shares, users)
    BY DEF Inv, ReferencesExist
  <1>2. {u} \in SUBSET users
    BY DEF addShare
  <1>4. Connects(Refer(shareUser, s, {u}), shares \cup {s}, users)
    BY <1>1, <1>2, ReferConnects, Z3
  <1>6. ListsAgree'
    BY DEF Inv, ListsAgree, addShare, userVars, adminVars, groupVars,
       folderVars, roleVars, keyVars, shareVars, eventVars
  <1>7. ReferencesExist'
    BY <1>4 DEF Inv, ReferencesExist, addShare, userVars, adminVars,
       groupVars, folderVars, roleVars, keyVars, shareVars, eventVars
  <1>8. Abstract!AddShare(s, u)
    BY <1>2, SameOps DEF addShare, Abstract!AddShare, Abstract!StoreShare, Abstract!userVars,
       Abstract!adminVars, Abstract!groupVars, Abstract!keyVars,
       Abstract!shareVars, Abstract!ruleVars, userVars, adminVars, groupVars,
       folderVars, roleVars, keyVars, shareVars, eventVars
  <1> QED  BY <1>6, <1>7, <1>8 DEF Inv

\* deleteShare: the share of a user is one of the shares
LEMMA DeleteShareStep ==
    ASSUME Inv, NEW s \in Shares, NEW u \in Users, deleteShare(s, u)
    PROVE  Inv' /\ Abstract!DeleteShare(s)
  <1>1. Connects(shareUser, shares, users)
    BY DEF Inv, ReferencesExist
  <1>2. <<s, u>> \in shareUser
    BY DEF deleteShare
  <1>3. s \in shares
    BY <1>1, <1>2 DEF Connects
  <1>4. Connects(WithoutSources(shareUser, {s}), shares \ {s}, users)
    BY <1>1, <1>2, SourcesConnects, Z3
  <1>6. ListsAgree'
    BY DEF Inv, ListsAgree, deleteShare, userVars, adminVars, groupVars,
       folderVars, roleVars, keyVars, shareVars, eventVars
  <1>7. ReferencesExist'
    BY <1>4 DEF Inv, ReferencesExist, deleteShare, userVars, adminVars,
       groupVars, folderVars, roleVars, keyVars, shareVars, eventVars
  <1>8. Abstract!DeleteShare(s)
    BY <1>3, SameOps DEF deleteShare, Abstract!DeleteShare, Abstract!userVars,
       Abstract!adminVars, Abstract!groupVars, Abstract!keyVars,
       Abstract!shareVars, Abstract!ruleVars, userVars, adminVars, groupVars,
       folderVars, roleVars, keyVars, shareVars, eventVars
  <1> QED  BY <1>6, <1>7, <1>8 DEF Inv

-------------------------------------------------------------------------------
\* addEventAction: the list of the new action is empty
LEMMA AddEventActionStep ==
    ASSUME Inv, NEW a \in EventActions, addEventAction(a)
    PROVE  Inv' /\ Abstract!AddEventAction(a)
  <1>1. Connects(ruleActions, eventRules, eventActions)
    BY DEF Inv, ReferencesExist
  <1>2. a \notin eventActions
    BY DEF addEventAction
  <1>3. WithoutTarget(ruleActions, a) = ruleActions
    BY <1>1, <1>2, NewTarget, Z3
  <1>5. Connects(ruleActions, eventRules, eventActions \cup {a})
    BY <1>1 DEF Connects
  <1>6. ListsAgree'
    BY <1>3 DEF Inv, ListsAgree, addEventAction, userVars, adminVars,
       groupVars, folderVars, roleVars, keyVars, shareVars, eventVars
  <1>7. ReferencesExist'
    BY <1>5 DEF Inv, ReferencesExist, addEventAction, userVars, adminVars,
       groupVars, folderVars, roleVars, keyVars, shareVars, eventVars
  <1>8. Abstract!AddEventAction(a)
    BY <1>2 DEF addEventAction, Abstract!AddEventAction, Abstract!userVars,
       Abstract!adminVars, Abstract!groupVars, Abstract!keyVars,
       Abstract!shareVars, Abstract!ruleVars, userVars, adminVars, groupVars,
       folderVars, roleVars, keyVars, shareVars, eventVars
  <1> QED  BY <1>6, <1>7, <1>8 DEF Inv

\* updateEventAction drops no rule from the list: the rules it names exist
LEMMA UpdateEventActionStep ==
    ASSUME Inv, NEW a \in EventActions, updateEventAction(a)
    PROVE  UNCHANGED vars
  <1>1. /\ actionRules = ruleActions
        /\ Connects(ruleActions, eventRules, eventActions)
    BY DEF Inv, ListsAgree, ReferencesExist
  <1>2. {p \in actionRules : p[2] = a => p[1] \in eventRules} = actionRules
    BY <1>1 DEF Connects
  <1> QED  BY <1>2 DEF updateEventAction, vars, eventVars

\* deleteEventAction: refused by the list of the rules
LEMMA DeleteEventActionStep ==
    ASSUME Inv, NEW a \in EventActions, deleteEventAction(a)
    PROVE  Inv' /\ Abstract!DeleteEventAction(a)
  <1>1. Connects(ruleActions, eventRules, eventActions)
    BY DEF Inv, ReferencesExist
  <1>2. Sources(ruleActions, a) = {}
    BY DEF Inv, ListsAgree, deleteEventAction
  <1>3. WithoutTarget(ruleActions, a) = ruleActions
    BY <1>1, <1>2, UnusedTarget, Z3
  <1>4. Connects(WithoutTarget(ruleActions, a),
                    eventRules, eventActions \ {a})
    BY <1>1, <1>2, <1>3, TargetConnects, Z3
  <1>6. ListsAgree'
    BY <1>3 DEF Inv, ListsAgree, deleteEventAction, userVars, adminVars,
       groupVars, folderVars, roleVars, keyVars, shareVars, eventVars
  <1>7. ReferencesExist'
    BY <1>3, <1>4 DEF Inv, ReferencesExist, deleteEventAction, userVars,
       adminVars, groupVars, folderVars, roleVars, keyVars, shareVars,
       eventVars
  <1>8. Abstract!DeleteEventAction(a)
    BY <1>2, SameOps DEF Inv, ListsAgree, deleteEventAction,
       Abstract!DeleteEventAction, Abstract!userVars, Abstract!adminVars,
       Abstract!groupVars, Abstract!keyVars, Abstract!shareVars,
       Abstract!ruleVars, userVars, adminVars, groupVars, folderVars,
       roleVars, keyVars, shareVars, eventVars
  <1> QED  BY <1>6, <1>7, <1>8 DEF Inv

\* addEventRule: the lists of the actions get the name
LEMMA AddEventRuleStep ==
    ASSUME Inv, NEW r \in EventRules, NEW acs, addEventRule(r, acs)
    PROVE  Inv' /\ Abstract!AddEventRule(r, acs)
  <1>1. Connects(ruleActions, eventRules, eventActions)
    BY DEF Inv, ReferencesExist
  <1>2. /\ r \notin eventRules
        /\ acs \in SUBSET eventActions
    BY DEF addEventRule
  <1>3. ruleActions \cup ({r} \X acs) = Refer(ruleActions, r, acs)
    BY <1>1, <1>2, ListNew, Z3
  <1>4. Connects(Refer(ruleActions, r, acs),
                    eventRules \cup {r}, eventActions)
    BY <1>1, <1>2, ReferConnects, Z3
  <1>6. ListsAgree'
    BY <1>3 DEF Inv, ListsAgree, addEventRule, addRuleToActionMapping,
       userVars, adminVars, groupVars, folderVars, roleVars, keyVars,
       shareVars, eventVars
  <1>7. ReferencesExist'
    BY <1>4 DEF Inv, ReferencesExist, addEventRule, userVars, adminVars,
       groupVars, folderVars, roleVars, keyVars, shareVars, eventVars
  <1>8. Abstract!AddEventRule(r, acs)
    BY <1>2, SameOps DEF addEventRule, Abstract!AddEventRule,
       Abstract!StoreEventRule, Abstract!userVars, Abstract!adminVars,
       Abstract!groupVars, Abstract!keyVars, Abstract!shareVars,
       Abstract!ruleVars, userVars, adminVars, groupVars, folderVars,
       roleVars, keyVars, shareVars, eventVars
  <1> QED  BY <1>6, <1>7, <1>8 DEF Inv

\* updateEventRule: the old actions lose the name before the new ones get it
LEMMA UpdateEventRuleStep ==
    ASSUME Inv, NEW r \in EventRules, NEW acs, updateEventRule(r, acs)
    PROVE  Inv' /\ Abstract!UpdateEventRule(r, acs)
  <1>1. Connects(ruleActions, eventRules, eventActions)
    BY DEF Inv, ReferencesExist
  <1>2. /\ eventRules \cup {r} = eventRules
        /\ acs \in SUBSET eventActions
    BY DEF updateEventRule
  <1>3. (ruleActions \ ({r} \X Targets(ruleActions, r))) \cup ({r} \X acs)
           = Refer(ruleActions, r, acs)
    BY <1>1, <1>2, RelistSource, Z3
  <1>4. Connects(Refer(ruleActions, r, acs),
                    eventRules \cup {r}, eventActions)
    BY <1>1, <1>2, ReferConnects, Z3
  <1>6. ListsAgree'
    BY <1>3 DEF Inv, ListsAgree, updateEventRule, addRuleToActionMapping,
       removeRuleFromActionMapping, userVars, adminVars, groupVars,
       folderVars, roleVars, keyVars, shareVars, eventVars
  <1>7. ReferencesExist'
    BY <1>2, <1>4 DEF Inv, ReferencesExist, updateEventRule, userVars, adminVars,
       groupVars, folderVars, roleVars, keyVars, shareVars, eventVars
  <1>8. Abstract!UpdateEventRule(r, acs)
    BY <1>2, SameOps DEF updateEventRule, Abstract!UpdateEventRule,
       Abstract!StoreEventRule, Abstract!userVars, Abstract!adminVars,
       Abstract!groupVars, Abstract!keyVars, Abstract!shareVars,
       Abstract!ruleVars, userVars, adminVars, groupVars, folderVars,
       roleVars, keyVars, shareVars, eventVars
  <1> QED  BY <1>6, <1>7, <1>8 DEF Inv

\* deleteEventRule: the actions of the rule lose the name
LEMMA DeleteEventRuleStep ==
    ASSUME Inv, NEW r \in EventRules, deleteEventRule(r)
    PROVE  Inv' /\ Abstract!DeleteEventRule(r)
  <1>1. Connects(ruleActions, eventRules, eventActions)
    BY DEF Inv, ReferencesExist
  <1>3. ruleActions \ ({r} \X Targets(ruleActions, r))
           = WithoutSources(ruleActions, {r})
    BY <1>1, UnlistAll, Z3
  <1>4. Connects(WithoutSources(ruleActions, {r}),
                    eventRules \ {r}, eventActions)
    BY <1>1, SourcesConnects, Z3
  <1>6. ListsAgree'
    BY <1>3 DEF Inv, ListsAgree, deleteEventRule, removeRuleFromActionMapping,
       userVars, adminVars, groupVars, folderVars, roleVars, keyVars,
       shareVars, eventVars
  <1>7. ReferencesExist'
    BY <1>4 DEF Inv, ReferencesExist, deleteEventRule, userVars, adminVars,
       groupVars, folderVars, roleVars, keyVars, shareVars, eventVars
  <1>8. Abstract!DeleteEventRule(r)
    BY SameOps DEF deleteEventRule, Abstract!DeleteEventRule,
       Abstract!userVars, Abstract!adminVars, Abstract!groupVars,
       Abstract!keyVars, Abstract!shareVars, Abstract!ruleVars, userVars,
       adminVars, groupVars, folderVars, roleVars, keyVars, shareVars,
       eventVars
  <1> QED  BY <1>6, <1>7, <1>8 DEF Inv

-------------------------------------------------------------------------------
(* The transactions together                                               *)

\* A step that changes nothing keeps the invariant and is abstract stuttering
LEMMA Stutter ==
    ASSUME Inv, UNCHANGED vars
    PROVE  Inv' /\ UNCHANGED Abstract!vars
  BY DEF Inv, ListsAgree, ReferencesExist, vars, userVars, adminVars,
     groupVars, folderVars, roleVars, keyVars, shareVars, eventVars,
     Abstract!vars, Abstract!userVars, Abstract!adminVars,
     Abstract!groupVars, Abstract!keyVars, Abstract!shareVars,
     Abstract!ruleVars

\* The empty database agrees and is the abstract one
LEMMA Start == Init => Inv /\ Abstract!Init
  BY DEF Init, Inv, ListsAgree, ReferencesExist, Connects, Abstract!Init

\* Every transaction keeps the invariant and is an abstract operation or,
\* when it changes no reference, stutters
LEMMA Step ==
    ASSUME Inv, [Next]_vars
    PROVE  Inv' /\ [Abstract!Next]_(Abstract!vars)
  <1>1. CASE UserNext
    BY <1>1, AddUserStep, UpdateUserStep, DeleteUserStep
       DEF UserNext, Abstract!UserNext, Abstract!Next, AtMostOne,
           Abstract!AtMostOne
  <1>2. CASE AdminNext
    BY <1>2, AddAdminStep, UpdateAdminStep, DeleteAdminStep
       DEF AdminNext, Abstract!AdminNext, Abstract!Next, AtMostOne,
           Abstract!AtMostOne
  <1>3. CASE GroupNext
    BY <1>3, AddGroupStep, UpdateGroupStep, DeleteGroupStep
       DEF GroupNext, Abstract!GroupNext, Abstract!Next
  <1>4. CASE FolderNext
    BY <1>4, AddFolderStep, DeleteFolderStep, Stutter
       DEF FolderNext, Abstract!FolderNext, Abstract!Next, updateFolder
  <1>5. CASE RoleNext
    BY <1>5, AddRoleStep, DeleteRoleStep, Stutter
       DEF RoleNext, Abstract!RoleNext, Abstract!Next, updateRole
  <1>6. CASE APIKeyNext
    BY <1>6, AddAPIKeyStep, UpdateAPIKeyStep, DeleteAPIKeyStep
       DEF APIKeyNext, Abstract!APIKeyNext, Abstract!Next, AtMostOne,
           Abstract!AtMostOne
  <1>7. CASE ShareNext
    BY <1>7, AddShareStep, DeleteShareStep, Stutter
       DEF ShareNext, Abstract!ShareNext, Abstract!Next, updateShare
  <1>8. CASE EventNext
    BY <1>8, AddEventActionStep, UpdateEventActionStep,
       DeleteEventActionStep, AddEventRuleStep, UpdateEventRuleStep,
       DeleteEventRuleStep, Stutter
       DEF EventNext, Abstract!EventNext, Abstract!Next
  <1>9. CASE UNCHANGED vars
    BY <1>9, Stutter
  <1> QED
    BY <1>1, <1>2, <1>3, <1>4, <1>5, <1>6, <1>7, <1>8, <1>9 DEF Next

\* The invariant holds in every state
LEMMA Invariance == Spec => []Inv
  BY Start, Step, PTL DEF Spec

\* The lists of the groups, folders, roles and actions of bolt.go always say
\* exactly who refers to them, whatever the number of objects
THEOREM ListsCorrect == Spec => []ListsAgree
  BY Invariance, PTL DEF Inv

\* No object stored by bolt.go ever refers to one that does not exist
THEOREM ReferencesCorrect == Spec => []ReferencesExist
  BY Invariance, PTL DEF Inv

\* The bolt provider implements what every provider promises
THEOREM BoltImplements == Spec => ImplementsProvider
  <1>1. Inv /\ [Next]_vars => [Abstract!Next]_(Abstract!vars)
    BY Step
  <1> QED
    BY Start, Invariance, <1>1, PTL DEF Spec, ImplementsProvider,
       Abstract!Spec
================================================================================
