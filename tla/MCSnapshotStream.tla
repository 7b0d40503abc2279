-------------------------- MODULE MCSnapshotStream --------------------------
(* SnapshotStream for TLC. *)
EXTENDS SnapshotStream
=============================================================================
