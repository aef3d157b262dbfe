-------------------------- MODULE MCSeriesExtrema --------------------------
(* SeriesExtrema for TLC, with an int of a few values. *)
EXTENDS SeriesExtrema

MinusOne == -1
=============================================================================
