---------------------------- MODULE MCTrackerUdp ----------------------------
(* TrackerUdp for TLC.  The configuration has everything: its properties are *)
(* temporal too, so the torrents are not declared symmetric.                 *)
EXTENDS TrackerUdp
=============================================================================
