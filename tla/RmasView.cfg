SPECIFICATION FairSpec
CONSTANTS
    Runs = {r1, r2}
    NoRun = NoRun
    MaxConcurrent = 1
    MaxSteps = 1
    Faults = {"write", "net", "restart"}
    MaxPolls = 1
    MaxClicks = 1
    MaxFaults = 1
INVARIANTS
    TypeOK
    FeedIsFaithful
    RecordIsOfRun
PROPERTIES
    EndIsShown
CHECK_DEADLOCK FALSE
