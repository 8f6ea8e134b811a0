----------------------------- MODULE MCDataSync -----------------------------
(* Small instances of DataSync for TLC: a table of two records. *)
EXTENDS DataSync
=============================================================================
