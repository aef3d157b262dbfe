-------------------------- MODULE MCTask11Program --------------------------
(* Task11Program for TLC, with the processes as model values. *)
EXTENDS Task11Program
=============================================================================
