CONSTANTS
    e1 = e1  e2 = e2  e3 = e3  s1 = s1  s2 = s2
    plain = plain  other = other  secret = secret
    NoEvent = NoEvent  Torn = Torn
    Ids <- MCIds
    Sessions <- MCSessions
    Bodies <- MCBodies
    SecretBodies <- MCSecretBodies
    Requests <- MCRequests
    MaxLines = 2
    KeepSegments = 1
    Faults = {"stat", "rename", "unlink", "write", "tear", "crash"}
    MaxPushes = 5
    MaxRestarts = 1
SPECIFICATION Spec
INVARIANTS TypeOK RevisionsAreUnique DiskWithinMemory AnswersAgree
PROPERTY ImplementsEventLog
CHECK_DEADLOCK FALSE
