SPECIFICATION FairSpec
CONSTANTS
    Slots = {s1, s2}
    NumUrls = 2
    Sessions = {"open", "other"}
    Session <- MCSession
    Open = "open"
    Secret = {3}
    RunEvents = {2}
    BodyLimit = 2
    Faults = {"write", "restart", "quota", "reload"}
    MaxEvents = 3
    MaxFaults = 1
    MaxSyncs = 3
INVARIANTS
    TypeOK
    NothingIsLost
    WaitingIsShown
PROPERTIES
    SyncsEnd
CHECK_DEADLOCK FALSE
