SPECIFICATION Spec
CONSTANTS
    Attacks = {a1, a2, a3}
    Foreign = {"high", "pcre", "other"}
    Priority <- MCPriority
    Matching <- MCAllMatching
    Readable <- MCGoMatching
    Lossy = TRUE
SYMMETRY MCSymmetry
INVARIANTS
    LimitInForce
    StopOfStartedRemovesPolicy
