SPECIFICATION Spec
CONSTANTS
    w1 = w1
    w2 = w2
    c1 = c1
    c2 = c2
    Worker = {w1, w2}
    Home <- MCHome
    None = None
    Command = {c1, c2}
    MaxRows = 1
    Faults = {"stale", "freeze", "crash", "kill"}
    MaxMishaps = 2
INVARIANT OneTabAsks
SYMMETRY Alike
CHECK_DEADLOCK FALSE
