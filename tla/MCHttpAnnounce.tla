--------------------------- MODULE MCHttpAnnounce ---------------------------
(* HttpAnnounce on a small instance; see HttpAnnounce.cfg. *)
EXTENDS HttpAnnounce
=============================================================================
