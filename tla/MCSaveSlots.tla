---------------------------- MODULE MCSaveSlots ----------------------------
(* SaveSlots for TLC. *)
EXTENDS SaveSlots, TLC

CONSTANTS default, career, garage, results

FileSymmetry == Permutations(Files)
=============================================================================
