\* The assertion of check_active_requests, with the address of a freed block taken
\* by the block of another piece.
CONSTANTS
    Peers = {p1, p2}
    Pieces = {1, 2}
    Names <- TwoPieces
    Addrs = {a1, a2, a3}
    MaxQ = 2
    MaxDelay = 1
    Null = Null
SPECIFICATION Spec
SYMMETRY Symm
INVARIANT
    SentBlockHasRequest
