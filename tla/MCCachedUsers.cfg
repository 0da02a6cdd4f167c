SPECIFICATION Spec
CONSTANTS
    Users = {u1}
    Requests = {r1, r2}
    Values = {v1, v2}
    password <- MCPassword
    fs <- MCFs
    maxSize = 1
    Slack = 2
    Delay = 1
    MaxTime = 4
INVARIANT StaleWillBeSeen
SYMMETRY Symmetry
