CONSTANTS
    Callers = {c1, c2}
    Signals = {}
    Browsers = {1, 2, 3}
    MaxBreaks = 1
    None = None
SPECIFICATION PagesSpec
INVARIANTS OneLaunch
