CONSTANTS
    Clients = {c1, c2}
    Ids = {i1}
    Commands = {ls, rm}
    NoCommand = NoCommand
    Faults = {"write", "secret", "crash"}
    MaxRequests = 5
    MaxRestarts = 1
SPECIFICATION FairSpec
INVARIANTS TypeOK ToldIsKept SentIsOnRecord
PROPERTIES OneDecision RejectedIsNotSent RequestsEnd
CHECK_DEADLOCK FALSE
