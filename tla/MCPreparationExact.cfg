SPECIFICATION Spec
CONSTANTS
    l1 = l1  l2 = l2  ours = ours  theirs = theirs
    Precision = 12
    Decimals = 2
    PriceScale = 100
    Refused = Refused
    Buckets = {ours, theirs}
    bucketName = ours
    Hashes <- AllHashes
    Launches = {l1}
    Offers <- OneLaunch
    HashOf <- MCHash
    OwnEndpoint = "global"
    Elsewhere <- OthersPairs
    Readers = {}
    None = None
CHECK_DEADLOCK FALSE
INVARIANT
    FormatMultiplies
