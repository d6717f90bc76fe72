SPECIFICATION Spec
CONSTANTS
    Nodes = {n1}
    MaxPolls = 3
INVARIANT
    EveryPollDetects
