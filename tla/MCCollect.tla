----------------------------- MODULE MCCollect -----------------------------
(* Three overlapping windows.                                              *)
EXTENDS Collect
=============================================================================
