SPECIFICATION FairDeliverySpec
CONSTANTS
    c1 = c1
    d1 = d1
    Command = {c1}
    Digest = {d1}
    Executor = {e1}
    CmdOf <- MCCmdOf
    DigestOf <- MCDigestOf
    Query = {}
    AskOf <- MCAskOf
    AskDigests <- MCAskDigests
    Part = {p1}
    MaxAttempts = 1
    MaxRows = 2
    NoRow = NoRow
    Nobody = Nobody
    Dispatcher = {s1, s2}
    MaxDispatch = 2
    MaxMishaps = 1
    None = None
INVARIANT EventIffEffect
INVARIANT NoEventLost
PROPERTY SettledOnceByOwner
PROPERTY EffectAnnounced
CHECK_DEADLOCK FALSE
