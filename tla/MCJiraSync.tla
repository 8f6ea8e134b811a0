----------------------------- MODULE MCJiraSync -----------------------------
(* A parent and a child, for TLC. *)
EXTENDS JiraSync, TLC

CONSTANTS a, c

MCParentOf == a :> None @@ c :> a
=============================================================================
