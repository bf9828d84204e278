SPECIFICATION ProgramSpec
CONSTANTS
    Obj = {o1, o2, o3}
    FRAME_LIMIT = 3
    Limit = 1
    MaxTraces = 3
    MaxVars <- VarBound
    FeatureSets <- Programs
SYMMETRY ObjSymmetry
INVARIANT NoDangling
INVARIANT SupertraceKeepsAlive
INVARIANT AnalysisSound
CHECK_DEADLOCK FALSE
