CONSTANTS
    Refs = {r1}
    NoSecret = NoSecret
    Waiters = {w1}
    MaxSince = 2
SPECIFICATION AskingSpec
INVARIANTS BotIsToldTheTruth
CHECK_DEADLOCK FALSE
