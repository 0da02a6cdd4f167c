SPECIFICATION Spec
CONSTANTS
    ip1 = ip1
    ip2 = ip2
    ip3 = ip3
    ip4 = ip4
    c1 = c1
    IPs <- MC_FourIPs
    Callers <- MC_Callers
    Scores = {1, 2}
    Threshold = 3
    ObservationTime = 2
    BanTime = 2
    BanTimeIncrement = 50
    EntriesSoftLimit = 1
    EntriesHardLimit = 2
    MaxTime = 4
SYMMETRY Symmetry
INVARIANTS
    TypeOK
    HostsWithinHardLimit
    
    
