CONSTANTS
    Runs = {r1, r2}
    MaxConcurrent = 1
    MaxIterations = 2
    MaxTotalTokens = 1
    Faults = {"write", "secret", "crash", "throw"}
    MaxRestarts = 1
SPECIFICATION FairSpec
INVARIANTS TypeOK CapacityIsRespected CompletedIsJudged AcceptedIsNoZombie
PROPERTIES EndingIsFinal StopIsObeyed RunsEnd
CHECK_DEADLOCK FALSE
