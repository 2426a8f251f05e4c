SPECIFICATION Spec
CONSTANTS
    NumPieces = 2
    Objs = {o1, o2, o3, o4}
    Readers = {r1}
    Blocks = {b1}
    MaxActive = 2
    MaxBad = 1
    CacheFull = FALSE
    NoOne = NoOne
INVARIANT ReaderGetsVerifiedData
