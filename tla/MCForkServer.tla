----------------------------- MODULE MCForkServer -----------------------------
(* ForkServer for TLC. *)
EXTENDS ForkServer
=============================================================================
