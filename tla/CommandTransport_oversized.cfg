SPECIFICATION FairSpec
CONSTANTS
    w1 = w1
    w2 = w2
    c1 = c1
    c2 = c2
    Worker = {w1, w2}
    Home <- MCHome
    None = None
    Command = {c1}
    MaxRows = 1
    Faults = {"oversizelive"}
    MaxMishaps = 0
PROPERTY LargeResultArrives
CHECK_DEADLOCK FALSE
