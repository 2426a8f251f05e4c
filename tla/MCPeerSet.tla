------------------------------ MODULE MCPeerSet ------------------------------
(* PeerSet for TLC.  Torrents and addresses are interchangeable.             *)
EXTENDS PeerSet, TLC
Symm == Permutations(Torrents) \cup Permutations(Addrs)
=============================================================================
