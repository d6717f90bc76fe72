SPECIFICATION Spec
CONSTANTS
    Attacks = {a1, a2}
    Foreign = {"low"}
    Priority <- MCPriority
    Matching <- MCAllMatching
    Readable <- MCGoMatching
    Lossy = TRUE
PROPERTY
    PutOutranksExisting
