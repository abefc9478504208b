SPECIFICATION Spec
CONSTANTS
    Edit = {1, 2}
    PeerWrite = {11}
    Deletions = 0
    MaxMishaps = 0
    Closed = {"zero", "removal", "recovery", "rollback"}
INVARIANT DirtiedLaterSyncsAgain
CHECK_DEADLOCK FALSE
