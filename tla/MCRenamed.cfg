SPECIFICATION Spec
CONSTANTS
    a = a
    b = b
    Names = {a, b}
    NoName = NoName
    Paths <- MCPaths
    MaxNodes = 3
    MaxMoving = 1
    Asserts = TRUE
INVARIANTS CachedIsStored
CONSTRAINT Focus
CHECK_DEADLOCK FALSE
