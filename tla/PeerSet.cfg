\* Two torrents share three connections; each may have two.  All of them may be closed in the end.
CONSTANTS
    Torrents = {t1, t2}
    Addrs = {a1, a2, a3}
    MaxTorrent = 2
    MaxGlobal = 3
    GiveUp = 2
    MaxOpens = 2
CHECK_DEADLOCK FALSE
SYMMETRY Symm
SPECIFICATION Spec
INVARIANTS
    PeerSetInv
    NoSlotLeaks
    NoSlotWasted
    AtMostOneStranded
