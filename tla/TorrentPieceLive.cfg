SPECIFICATION FairSpec
CONSTANTS
    NumPieces = 1
    Objs = {o1, o2, o3}
    Readers = {r1, r2}
    Blocks = {b1}
    MaxActive = 0
    MaxBad = 1
    CacheFull = FALSE
    NoOne = NoOne
\* A state with every reader asleep for ever is for ReaderServed to find;
\* WorkNotForgotten looks for threads asleep with work to do.
CHECK_DEADLOCK FALSE
INVARIANTS
    WorkNotForgotten
PROPERTIES
    ReaderServed
