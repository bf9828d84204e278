SPECIFICATION Spec
CONSTANTS
    MaxTokens = 8
    MAX_BREAKS = 2
INVARIANT InStep
INVARIANT Returns
INVARIANT RejectedRightly
CHECK_DEADLOCK FALSE
