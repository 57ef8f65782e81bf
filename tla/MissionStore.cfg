CONSTANTS
    c1 = c1  c2 = c2  verifier = verifier  reviewer = reviewer
    a1 = a1  m1 = m1  E1 = E1  E2 = E2  NoAgent = NoAgent  NoItem = NoItem  NoError = NoError
    Agents = {verifier}
    Verifiers = {verifier}
    Correctors = {verifier}
    Teams <- MCTeam
    ClientClosings = {"cancelled"}
    Signatures = {E1, E2}
    MaxAttempts = 1
    RunResults <- MCTwoResults
    GitResults = {"merged", "conflict"}
    Clients = {c1, c2}
    Artifacts = {a1}
    Items = {m1}
    ClientReports <- MCReports
    ClientStatuses = {"queued", "merged"}
    Faults = {"write", "crash"}
    MaxOps = 3
    MaxRestarts = 1
    MaxClock = 2
SPECIFICATION Spec
SYMMETRY MCSymmetry
INVARIANTS TypeOK AnsweredIsStored MergesArePassed MergedIsReal RetriesAreBounded
PROPERTY VerdictsAreFinal
CHECK_DEADLOCK FALSE
