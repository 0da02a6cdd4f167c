SPECIFICATION SmallSpec
CONSTANTS
    Users = {u1, u2}
    Admins = {a1}
    Groups = {g1}
    Folders = {f1}
    Roles = {r1}
    APIKeys = {k1}
    Shares = {s1}
    EventActions = {e1}
    EventRules = {q1}
    MaxObjects = 4
PROPERTIES  MarkedPurged
