--------------------------- MODULE MCFileSemaphore ---------------------------
(* FileSemaphore for TLC: the runs are model values. *)
EXTENDS FileSemaphore
=============================================================================
