CONSTANTS
    e1 = e1  e2 = e2  e3 = e3  s1 = s1  s2 = s2
    plain = plain  other = other  secret = secret
    NoEvent = NoEvent  Torn = Torn
    Ids <- MCIds
    Sessions <- MCSessions
    Bodies <- MCBodies
    SecretBodies <- MCSecretBodies
    Requests <- MCRequests
    MaxLines = 1
    KeepSegments = 1
    Faults = {"stat", "rename", "unlink", "write", "crash"}
    MaxPushes = 3
    MaxRestarts = 2
SPECIFICATION FairSpec
INVARIANT AcceptedIsDurable
PROPERTY EveryPushEnds
CHECK_DEADLOCK FALSE
