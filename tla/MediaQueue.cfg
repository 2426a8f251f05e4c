\* Two seeks while a file of two time stamps plays; at its end all threads may rest.
CONSTANTS
    LastPts = 2
    Keyframes = {1}
    Hardware = {2}
    VideoSize = 1
    AudioSize = 2
    Limit = 4
    MinPackets = 1
    MaxSeeks = 2
    MaxHolds = 0
    MayClose = FALSE
    None = None
CHECK_DEADLOCK FALSE
SPECIFICATION Spec
INVARIANTS
    MediaInv
    StreamContinuous
    OneStalePacket
