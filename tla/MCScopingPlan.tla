--------------------------- MODULE MCScopingPlan ---------------------------
(* All graphs on a few tables, of which one may refer to itself. *)
EXTENDS ScopingPlan

CONSTANT a

OneSelfReference == {p \in Tables \X Tables : p[1] # p[2] \/ p[1] = a}
=============================================================================
