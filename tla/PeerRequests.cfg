\* A piece of two blocks and one of a single block against a queue of two, so that a
\* queue can be full, and a reader's new piece can come in the middle of
\* torrent_io_do_requests and take the address of a block just freed.
CONSTANTS
    Peers = {p1, p2}
    Pieces = {1, 2}
    Names <- TwoPieces
    Addrs = {a1, a2, a3}
    MaxQ = 2
    MaxDelay = 1
    Null = Null
SPECIFICATION Spec
SYMMETRY Symm
INVARIANTS
    RequestsInv
    NoDangling
    NoIdleSwarm
