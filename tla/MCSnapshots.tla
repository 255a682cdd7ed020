---------------------------- MODULE MCSnapshots ----------------------------
(* A state and two copies, with two contents.                              *)
EXTENDS Snapshots
=============================================================================
