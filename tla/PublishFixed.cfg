SPECIFICATION FairSpec
CONSTANTS
    Workers = {w1, w2}
    Stops = {1, 2}
    Kind = "fixed"
    NumberOfMessages = 2
    MaxRequests = 0
    FurtherStopsAt = {"returned"}
    MaxRunning = 1
    SuccessRate = 50
INVARIANTS
    NoPanic
    OvershootBounded
    JoinedVerdictIsFinal
    NoEntryAfterStop
PROPERTIES
    ImplementsPublishing
    ConnectedFixedCompletes
    StopEndsEverything
