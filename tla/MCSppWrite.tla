----------------------------- MODULE MCSppWrite -----------------------------
(***************************************************************************)
(* Small instances of SppWrite for TLC: one table of time entries, one     *)
(* existing entry and two people who both propose and execute.             *)
(***************************************************************************)
EXTENDS SppWrite, FiniteSets, TLC

CONSTANTS me, other, entry, timeEntries, none, c1

MCTables == {timeEntries}
MCRecords == {me, other, entry}
MCUsers == {me, other}
TwoPeople == [c \in Calls |-> IF c = c1 THEN me ELSE other]
OnePerson == [c \in Calls |-> me]

create == [table |-> timeEntries, action |-> "create", email |-> me,
           record |-> none, refs |-> {other}]
update == [table |-> timeEntries, action |-> "update", email |-> other,
           record |-> entry, refs |-> {me}]
delete == [table |-> timeEntries, action |-> "delete", email |-> me,
           record |-> entry, refs |-> {}]

AllDrafts == {create, update, delete}
CreateUpdate == {create, update}
NoneRestricted == {}

\* The other one may lose and regain the right to create, which is to execute
\* what somebody else has proposed, and the sight of the entry.
CreateMayChange == {<<other, <<timeEntries, "create">>>>}
EntryMayHide == {<<other, entry>>}
NothingChanges == {}

\* The calls of one person are interchangeable.
CallSymmetry == Permutations(Calls)
=============================================================================
