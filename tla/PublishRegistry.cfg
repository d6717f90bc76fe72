SPECIFICATION RegistrySpec
CONSTANTS
    k1 = k1
    k2 = k2
    Keys = {k1, k2}
    Targets = {t1, t2}
    MaxTargets = 1
    Retention = 1
    MaxTime = 2
    MaxWait = 1
    StepOf <- MCStepOf
    Prepares = 2
SYMMETRY Symmetry
INVARIANTS
    AdmittedWithinLimit
    ExchangeLoadLimited
    StopEndsPublishing
    OnlyReplacedPoolsStay
PROPERTY RejectionSticks
