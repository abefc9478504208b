SPECIFICATION FairSpec
CONSTANTS
    c1 = c1
    d1 = d1
    d2 = d2
    Command = {c1}
    Digest = {d1, d2}
    Executor = {e1, e2}
    CmdOf <- MCCmdOf
    DigestOf <- MCDigestOf
    Query = {q1}
    AskOf <- MCAskOf
    AskDigests <- MCAskDigests
    Part = {p1, p2}
    MaxAttempts = 2
    MaxRows = 2
    NoRow = NoRow
    Nobody = Nobody
INVARIANT AtMostOnce
INVARIANT JournalInv
PROPERTY UnknownIsFinal
PROPERTY ImplementsLedger
PROPERTY CallsEnd
PROPERTY AcceptedResolves
