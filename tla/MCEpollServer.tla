--------------------------- MODULE MCEpollServer ---------------------------
(* EpollServer for TLC: the clients are model values. *)
EXTENDS EpollServer
=============================================================================
