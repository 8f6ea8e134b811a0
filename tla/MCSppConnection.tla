--------------------------- MODULE MCSppConnection ---------------------------
(* Small instances of SppConnection for TLC. *)
EXTENDS SppConnection, TLC

Symmetry == Permutations(Calls)
=============================================================================
