SPECIFICATION FairSpec
CONSTANTS
    a = a
    b = b
    r1 = r1
    r2 = r2
    Editor = {a, b}
    Replica = {r1, r2}
    Home <- MCHome
    Epoch = {1, 2, 3, 4, 5, 6}
    Sec = {1, 2}
    InitialOf <- MCInitialOf
    NoEpoch = 0
    Events = {"again", "leave", "late", "lapse", "beat", "lost", "ended", "expire", "slow", "drop", "unsubscribe", "crash", "loseState", "loseMembers", "restart"}
    MaxTurns = 3
    MaxSent = 2
INVARIANT OneLineage
INVARIANT ElectedOnce
INVARIANT ActiveLeaseTracked
PROPERTY RevokedForGood
PROPERTY RelayReopens
CHECK_DEADLOCK FALSE
