SPECIFICATION Spec
CONSTANTS
    a = a
    b = b
    Item = {1, 2}
    Existing = {1}
    Device = {a, b}
    Session = {a, b}
    Synced = {b}
    Limit = 1
    Deployments <- DevicesAndTabs
    MaxSaves = 1
    MaxClock = 7
    NoSession = NoSession
INVARIANT TypeOK
INVARIANT PositionHonest
INVARIANT CursorHonest
INVARIANT SkipHonest
PROPERTY NoLostUpdate
CHECK_DEADLOCK FALSE
