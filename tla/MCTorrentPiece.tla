--------------------------- MODULE MCTorrentPiece ---------------------------
EXTENDS TorrentPiece, TLC

\* Readers, blocks and addresses are interchangeable.
Symm == Permutations(Readers) \cup Permutations(Objs) \cup Permutations(Blocks)
=============================================================================
