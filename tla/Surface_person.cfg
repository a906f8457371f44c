CONSTANTS
    Refs = {r1}
    NoSecret = NoSecret
    Waiters = {w1, w2}
    MaxSince = 2
    MaxSaid = 1
    MaxMade = 3
SPECIFICATION MCSpec
INVARIANTS SurfaceTypeOK ToldOnlyAfterAnAnswer CallsAnsweredOnce
PROPERTIES ViewSettles FirstMessageIsKept
CHECK_DEADLOCK FALSE
