SPECIFICATION FairSpec
CONSTANTS
    Edit = {1, 2}
    PeerWrite = {11}
    Deletions = 1
    MaxMishaps = 1
    Closed = {"snapshot", "zero", "removal", "recovery", "rollback"}
INVARIANT TypeOK
INVARIANT NothingLost
INVARIANT CleanMeansUploaded
INVARIANT SavedSurvivesReload
INVARIANT TokenHonest
PROPERTY Converges
CHECK_DEADLOCK FALSE
