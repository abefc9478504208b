SPECIFICATION FairSpec
CONSTANTS
    Session = {d1, e1}
    Ephemeral = {e1}
    Handler = {h1}
    MaxPair = 4
    MaxResets = 1
    MaxMishaps = 1
    Closed = {"overlap", "crash", "twice"}
INVARIANT NoneOutlivesReset
INVARIANT NeverLockedOut
PROPERTY EndedStaysEnded
PROPERTY RetiredStaysRetired
PROPERTY LostAnswerRecovers
CHECK_DEADLOCK FALSE
