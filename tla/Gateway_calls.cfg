CONSTANTS
    Calls = {c1, c2}
    Handovers = {h1}
    MaxEvents = 3
    Elements <- MCElements
    Contexts <- MCContexts
    Unknown = "unknown"
    Policies <- MCPolicies
    MaxGen = 2
    MaxLives = 1
    MaxCrashes = 1
    MaxBusy = 2
    AuditMayFail = TRUE
    Admins = {a1, a2}
    Configured <- MCConfigured
    Writable <- MCPolicies
    NoRow = NoRow
    MayLoseReplies = TRUE
    Slots = {s1, s2}
    Refs = {r1}
    NoSecret = NoSecret
    MaxSince = 1
    MaxSnapshots = 2
    MaxDoc = 2
    MaxBrowser = 1
SPECIFICATION MCSpec
INVARIANTS NothingActsUnrecorded DecidedOnWhatItTouchesAlone TrailIsTrue MemoryIsTheRecord ListedStillNewestAlone
SYMMETRY Symmetry
CHECK_DEADLOCK FALSE
