--------------------------- MODULE MCPeerRequests ---------------------------
(* PeerRequests for TLC: peers and addresses are interchangeable.            *)
EXTENDS PeerRequests, TLC

\* A piece of two blocks and a last one of one block.
TwoPieces == {<<1, 0>>, <<1, 1>>, <<2, 0>>}

Symm == Permutations(Peers) \cup Permutations(Addrs)
=============================================================================
