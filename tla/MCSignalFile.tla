----------------------------- MODULE MCSignalFile -----------------------------
(* SignalFile for TLC. *)
EXTENDS SignalFile
=============================================================================
