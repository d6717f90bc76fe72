SPECIFICATION Spec
CONSTANT Messages = 3
INVARIANTS
    TypeOK
    DeliveredWasRouted
    FailedWasNotRouted
    StreamInSync
PROPERTIES
    EveryJobEnds
    WorkerImplementsPublishing
