CONSTANTS
    Requests = {r1, r2, r3}
    Ports = {4101, 4102}
    Callers = {c1, c2}
    Signals = {g1}
    Browsers = {1, 2, 3}
    MaxBreaks = 1
    None = None
    SignIns = {i1, i2}
    Users <- Alone
    Products <- TwoProducts
    MaxFaults = 2
SPECIFICATION MCSpec
INVARIANTS MachinesTypeOK UndisturbedAnswersAreTrue OneBrowserPerProfile
PROPERTIES StrangersAreSpared EveryoneIsAnswered SpritesAreServed
CHECK_DEADLOCK FALSE
