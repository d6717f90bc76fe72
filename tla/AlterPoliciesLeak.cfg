SPECIFICATION Spec
CONSTANTS
    Attacks = {a1, a2}
    Foreign = {"high"}
    Priority <- MCPriority
    Matching <- MCAllMatching
    Readable <- MCGoMatching
    Lossy = TRUE
INVARIANT
    StopRemovesPolicy
