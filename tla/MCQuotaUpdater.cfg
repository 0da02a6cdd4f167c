SPECIFICATION FairSpec
CONSTANTS
    user = user
    folder = folder
    p1 = p1
    p2 = p2
    UserKeys <- MC_Users
    FolderKeys <- MC_Folders
    TransferKeys = {}
    Differences <- MC_Differences
    Totals <- MC_Totals
    Resets <- MC_Resets
    MaxUpdates = 2
INVARIANTS
    TypeOK
    UserResetsApart
PROPERTIES
    UpdatesAccounted
    PendingStored
