CONSTANTS
    Agents = {1, 2}
    Founding = {1}
    MaxRequests = 3
    Pool = 2
    Servers = {s1, s2}
    Packages <- MCPackages
    KeyIds = {k1}
    DriveKey = k2
    Clerks = {c1, c2}
    MaxSecrets = 3
SPECIFICATION MCSpec
INVARIANTS RowsTypeOK VaultIsKept
PROPERTIES TombstonesAreFinal LinksAreLive EveryRequestEnds PackagesAreWhole
CHECK_DEADLOCK FALSE
