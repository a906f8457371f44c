CONSTANTS
    Calls = {c1}
    Handovers = {}
    Elements <- MCElements
    Contexts <- MCContexts
    Unknown = "unknown"
    Policies <- MCPolicies
    MaxGen = 3
    MaxLives = 0
    MaxEvents = 1
    MaxCrashes = 0
    MaxBusy = 3
    AuditMayFail = FALSE
    Admins = {a1}
    Configured <- MCConfigured
    Writable <- MCPolicies
    NoRow = NoRow
    MayLoseReplies = FALSE
    Slots = {}
    Refs = {r1}
    NoSecret = NoSecret
    MaxSince = 0
    MaxSnapshots = 0
    MaxDoc = 1
    MaxBrowser = 1
SPECIFICATION MCSpec
INVARIANTS DecidedOnWhatItTouches
CHECK_DEADLOCK FALSE
