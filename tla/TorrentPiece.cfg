\* A full cache that evicts pieces, corrupt blocks, threads that time out.
SPECIFICATION Spec
CONSTANTS
    NumPieces = 2
    Objs = {o1, o2, o3, o4}
    Readers = {r1}
    Blocks = {b1, b2}
    MaxActive = 1
    MaxBad = 1
    CacheFull = TRUE
    NoOne = NoOne
SYMMETRY Symm
\* The disk thread's assertion may fail in a full cache, and a thread that has timed
\* out may be missed by a wakeup: then the system stands still.
CHECK_DEADLOCK FALSE
INVARIANTS
    IInv
    RefcountExact
    ReaderPieceKept
    VerifiedIntact
    NoLimbo
PROPERTY
    StableWhileHashed
