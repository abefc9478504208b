SPECIFICATION Spec
CONSTANTS
    a = a
    b = b
    Item = {1, 2}
    Existing = {1, 2}
    Device = {a, b}
    Session = {a, b}
    Synced = {a, b}
    Limit = 2
    Deployments <- OpenSaves
    MaxSaves = 1
    MaxClock = 8
    NoSession = NoSession
INVARIANT PositionPromise
CHECK_DEADLOCK FALSE
