SPECIFICATION FairSpec
CONSTANTS
    l1 = l1
    l2 = l2
    w1 = w1
    Room = {1, 2}
    Lease = {l1}
    DeviceOf <- OwnDevices
    Writer = {w1}
    MaxTokens = 2
    MaxRevision = 1
    Nobody = Nobody
INVARIANT GrantExact
PROPERTY OnlyHolderSaves
PROPERTY SavesEnd
