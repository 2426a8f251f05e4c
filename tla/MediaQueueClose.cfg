\* The user pauses, continues and closes the video.  All threads end.
CONSTANTS
    LastPts = 2
    Keyframes = {1}
    Hardware = {1}
    VideoSize = 1
    AudioSize = 1
    Limit = 3
    MinPackets = 1
    MaxSeeks = 0
    MaxHolds = 2
    MayClose = TRUE
    None = None
CHECK_DEADLOCK FALSE
SPECIFICATION FairSpec
INVARIANTS
    OneUnblockPerRefusal
PROPERTIES
    PlayerGoesOn
    CloseCompletes
