SPECIFICATION Spec
CONSTANTS
    MaxTokens = 8
    MAX_BREAKS = 2
INVARIANT ReturnsAlways
CHECK_DEADLOCK FALSE
