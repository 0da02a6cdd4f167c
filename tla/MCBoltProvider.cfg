SPECIFICATION Spec
CONSTANTS
    u1 = u1
    u2 = u2
    g1 = g1
    g2 = g2
    e1 = e1
    e2 = e2
    Users <- MC_Users
    Admins = {a1}
    Groups <- MC_Groups
    Folders = {f1}
    Roles = {r1}
    APIKeys = {k1}
    Shares = {s1}
    EventActions <- MC_EventActions
    EventRules = {q1}
    MaxObjects = 6
CONSTRAINT Small
SYMMETRY Symmetry
INVARIANTS ListsAgree ReferencesExist
PROPERTY ImplementsProvider
