\* Two torrents at a time, a pool of two threads, of which one may idle.
CONSTANTS
    MaxThreads = 2
    MaxIdle = 1
    TTs = {x1, x2}
    Reqs = {q1, q2, q3}
    MaxOther = 1
    MaxCancelled = 1
    MaxPipe = 1
    Other = Other
    None = None
SPECIFICATION FairSpec
INVARIANTS
    NoTaskStranded
    RequestOwned
    InTouch
PROPERTY
    AnnounceAnswered
