SPECIFICATION Spec
CONSTANTS
    Obj = {o1, o2, o3}
    FRAME_LIMIT = 3
    Limit = 1
    MaxTraces = 2
SYMMETRY ObjSymmetry
INVARIANT TableExact
INVARIANT StructAccounting
INVARIANT FlaggedAlive
INVARIANT NoStrayFlag
INVARIANT MarkClosed
PROPERTY ExitsClean
CHECK_DEADLOCK FALSE
