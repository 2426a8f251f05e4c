\* Two torrents, two packets under way.
CONSTANTS
    TTs = {x1, x2}
    MaxNet = 2
    MaxAttempt = 2
    Conn = Conn
SPECIFICATION FairSpec
INVARIANTS
    TrackerInv
PROPERTIES
    EndsByItsOwnAnswer
    AnnouncedInTheEnd
    StoppedIsFreed
