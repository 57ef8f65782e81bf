SPECIFICATION Spec
CONSTANTS
    Callers = {c1, c2}
    Plans = {p1, p2}
    NoPlan = NoPlan
    Groups = {{"comment"}, {"text", "labels"}, {"branch", "pr"}, {"file", "pr", "commit"}}
    Faults = {"error", "lost", "restart"}
    MaxChanges = 1
    MaxCalls = 3
    MaxFaults = 1
SYMMETRY Symmetric
INVARIANTS
    TypeOK
    OncePerPlan
    ObservedIsWritten
    ClaimsEnd
PROPERTIES
    RepeatsNeedUndoing
    NothingOverwritten
CHECK_DEADLOCK FALSE
