----------------------------- MODULE MCMsgQueue -----------------------------
(* MsgQueue for TLC, both tasks at once. *)
EXTENDS MsgQueue
=============================================================================
