---------------------------- MODULE MCMediaQueue ----------------------------
(* MediaQueue for TLC.                                                       *)
EXTENDS MediaQueue
=============================================================================
