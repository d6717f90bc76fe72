SPECIFICATION DiscoverySpec
CONSTANTS
    Names = {1, 2, 3, 4, 5}
    PageSize = 2
    MaxRetries = 2
    MaxChanges = 2
    Endpoints = 2
    Hidden = {3}
INVARIANTS
    NothingMissedWithoutDeletes
    NothingTwiceWithoutCreates
    FailuresAreRetried
PROPERTY
    ImplementsDiscovery
