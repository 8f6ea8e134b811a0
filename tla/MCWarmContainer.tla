-------------------------- MODULE MCWarmContainer --------------------------
(***************************************************************************)
(* A small company: its projects, and the time entries that refer to them. *)
(* Its second config leaves the time entries unscoped, and its third drops *)
(* them.                                                                   *)
(***************************************************************************)
EXTENDS WarmContainer

CONSTANTS projects, entries

AllTables == {projects, entries}
ThreeConfigs == <<{projects, entries}, {projects, entries}, {projects}>>
ThreePlans == <<{projects, entries}, {projects}, {projects}>>
EntriesReferToProjects == [t \in AllTables |-> {projects} \ {t}]
=============================================================================
