SPECIFICATION Spec
CONSTANTS
    Block = {b1, b2, b3, b4}
    NULL = NULL
    JUNK = JUNK
    Initial <- SmallInitial
    Growth <- SmallGrowth
SYMMETRY BlockSymmetry
INVARIANT OneOwner
INVARIANT FreeSlotsExact
PROPERTY ImplementsOwnership
CHECK_DEADLOCK FALSE
