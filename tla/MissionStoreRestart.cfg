CONSTANTS
    c1 = c1  c2 = c2  verifier = verifier  reviewer = reviewer
    a1 = a1  m1 = m1  E1 = E1  E2 = E2  NoAgent = NoAgent  NoItem = NoItem  NoError = NoError
    Agents = {verifier, reviewer}
    Verifiers = {verifier}
    Correctors = {verifier}
    Teams <- MCTeam
    ClientClosings = {"cancelled"}
    Signatures = {E1, E2}
    MaxAttempts = 2
    RunResults <- MCTwoResults
    GitResults = {"merged", "conflict"}
    Clients = {c1}
    Artifacts = {a1}
    Items = {m1}
    ClientReports <- MCPlainReports
    ClientStatuses = {"queued"}
    Faults = {"crash"}
    MaxOps = 3
    MaxRestarts = 1
    MaxClock = 2
SPECIFICATION Spec
INVARIANT VerifyIsShownAlways
CHECK_DEADLOCK FALSE
