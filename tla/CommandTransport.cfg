SPECIFICATION FairSpec
CONSTANTS
    w1 = w1
    w2 = w2
    c1 = c1
    c2 = c2
    Worker = {w1, w2}
    Home <- MCHome
    None = None
    Command = {c1}
    MaxRows = 3
    Faults = {"run", "nolane", "dial", "oversize", "refuse", "busy", "timeout", "kill", "socket", "http", "freeze", "crash", "revoke", "unavailable", "stale", "persist"}
    MaxMishaps = 2
INVARIANT TypeOK
INVARIANT AppliedIsRemembered
INVARIANT RefusedNeverApplies
INVARIANT QuarantineHolds
PROPERTY RecordResolves
CHECK_DEADLOCK FALSE
