--------------------------- MODULE MCPosixRwLock ---------------------------
(* PosixRwLock for TLC: the constants are model values, see the configuration. *)
EXTENDS PosixRwLock
=============================================================================
