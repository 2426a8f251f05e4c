\* Two keys, of which one is important; one has contents of one length and a longer one.
\* The program may end.
CONSTANTS
    v1 = v1
    v2 = v2
    v3 = v3
    k1 = k1
    k2 = k2
    Keys = {k1, k2}
    Values = {v1, v2, v3}
    Contents <- MCContents
    Size <- MCSize
    Ages = {0}
    Important = {k1}
    MaxSize = 2
    MaxTime = 1
    MaxQueue = 2
    MaxPuts = 2
    MaxFaults = 2
    MaxBoots = 3
    None = None
    Partial = Partial
    Corrupt = Corrupt
CHECK_DEADLOCK FALSE
SPECIFICATION FairSpec
INVARIANTS
    BlobInv
    CleanIndexIsSaved
    UndisturbedRead
PROPERTIES
    ContractSpec
    PutReachesIndex
