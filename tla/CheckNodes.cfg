SPECIFICATION Spec
CONSTANTS
    Nodes = {n1, n2}
    MaxPolls = 3
INVARIANTS
    VerdictMatchesHistory
    EndsInTime
    MetricsAgree
PROPERTY
    CheckEnds
