CONSTANTS
    Requests = {r1}
    Ports = {4101}
    Callers = {c1}
    Signals = {g1}
    Browsers = {1}
    MaxBreaks = 0
    None = None
    SignIns = {i1}
    Users <- Alike
    Products <- TwoProducts
    MaxFaults = 0
SPECIFICATION MCSpec
INVARIANTS SpriteOfOnesOwn
CHECK_DEADLOCK FALSE
