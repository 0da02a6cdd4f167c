CONSTANTS
    f1 = f1
    c1 = c1
    s1 = s1
    s2 = s2
    u1 = u1
    u2 = u2
    NoUser = NoUser
    FTPIDs <- MC_FTPIDs
    ChannelIDs <- MC_ChannelIDs
    SSHIDs <- MC_SSHIDs
    sshOf <- MC_sshOf
    Usernames <- MC_Usernames
    SessionLimits = {1}
SPECIFICATION FairSpec
INVARIANTS TypeOK MappingInverse SessionCount SessionsWithinLimit
PROPERTIES IdleReaped CloseRemoves
