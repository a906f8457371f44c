CONSTANTS
    Ours = {o1}
    Surfaces = {f1}
    MaxCalls = 2
    MaxTurns = 2
SPECIFICATION RunSpec
INVARIANTS SurfaceIsAsked
CHECK_DEADLOCK FALSE
