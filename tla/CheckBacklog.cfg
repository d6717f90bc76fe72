SPECIFICATION Spec
CONSTANTS
    Thresholds = {0, 1}
    Backlogs = {0, 1, 2}
    MaxPolls = 3
INVARIANTS
    VerdictMatchesHistory
    EndsInTime
PROPERTY
    CheckEnds
