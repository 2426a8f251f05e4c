------------------------- MODULE MCTorrentDiskCache -------------------------
(* TorrentDiskCache for TLC.                                                 *)
EXTENDS TorrentDiskCache
=============================================================================
