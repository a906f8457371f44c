CONSTANTS
    Calls = {}
    Handovers = {}
    MaxEvents = 0
    Elements <- MCElements
    Contexts <- MCContexts
    Unknown = "unknown"
    Policies <- MCPolicies
    MaxGen = 0
    MaxLives = 0
    MaxCrashes = 0
    MaxBusy = 0
    AuditMayFail = TRUE
    Admins = {a1}
    Configured <- MCConfigured
    Writable <- MCWritable
    NoRow = NoRow
    MayLoseReplies = FALSE
    Slots = {s1, s2}
    Refs = {r1}
    NoSecret = NoSecret
    MaxSince = 2
    MaxSnapshots = 1
    MaxDoc = 2
    MaxBrowser = 2
SPECIFICATION MCSpec
INVARIANTS OnlyLateRequestsTrespass
PROPERTIES TighterPermitsNoMore TakenOverSettles
CHECK_DEADLOCK FALSE
