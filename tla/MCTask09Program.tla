-------------------------- MODULE MCTask09Program --------------------------
(* Task09Program for TLC, with the processes as model values. *)
EXTENDS Task09Program
=============================================================================
