SPECIFICATION Spec
CONSTANTS
    j1 = j1
    j2 = j2
    j3 = j3
    Jobs <- MC_Jobs
    Skew <- MC_Skew
    updateInterval = 2
    ReadDelay = 1
    BeatDelay = 2
    MaxSkew = 1
    MaxTime = 10
SYMMETRY Symmetry
INVARIANTS TypeOK SingleExecution
PROPERTY OncePerSchedule
CHECK_DEADLOCK FALSE
