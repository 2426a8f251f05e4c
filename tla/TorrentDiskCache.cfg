\* More room than the torrent needs once the other files are gone, failed file
\* operations and kills.
CONSTANTS
    NumPieces = 4
    Limit = 6
    MaxInactive = 2
    MaxFaults = 2
    UnlinkFails = TRUE
SPECIFICATION Spec
INVARIANTS
    
    CachedIsThere
    
    StaleBounded
