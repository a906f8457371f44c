CONSTANTS
    MaxTyped = 3
    MaxAsks = 1
    Streams = {s1, s2}
    StallMs = 2
    MayStop = TRUE
    Ours = {o1}
    Surfaces = {f1}
    MaxCalls = 2
    MaxTurns = 2
    MaxMessage = 5
    Sockets = {k1, k2}
    MaxCasts = 5
    MaxPages = 2
    Attaches = {1, 2}
SPECIFICATION MCSpec
INVARIANTS ConversationTypeOK OnceInTheOrderTyped RunIsTold
PROPERTIES WaitsItsTurn ImplementsWatchedTurn SilentTurnEnds RosterSettles ViewersAreServed
CHECK_DEADLOCK FALSE
