------------------------------ MODULE MoveTime ------------------------------
(***************************************************************************)
(* The Lambda that moves hours of time entries to other projects           *)
(* (TRITON-move-time). A page exports the time entries; what a person      *)
(* wants moved comes back as rows that carry the hours of the export. A    *)
(* row that moves all of an entry re-points the entry; one that moves a    *)
(* part creates an entry for that part and then shrinks the original.      *)
(*                                                                         *)
(* Where the hours are is left out: the model counts the hours of an entry *)
(* and those of the entries that were split off it.                        *)
(***************************************************************************)
EXTENDS Naturals

CONSTANTS
  Entries,    \* time entries
  Batches,    \* pages, each with an export and one request at a time
  MaxHours,   \* bound: hours of an entry
  MaxEdits,   \* bound: edits of entries by their owners
  MaxMoveFaults   \* bound: failed calls and killed requests

Hours == 1 .. MaxHours

\* How the date of a row is written: as the export has it (M/D/YYYY, say), or
\* YYYY-MM-DD; a row without a date is as good as one of the latter.
Dates == {"exported", "iso"}
Results == {"none", "full", "partial", "error"}

VARIABLES
  worked,   \* worked[e]: the hours the person has entered
  kept,     \* kept[e]: decimal_hours of the entry
  moved,    \* moved[e]: the hours of all entries split off it
  at,       \* at[b]: the next step of a request
  export,   \* export[b]: the hours of the entries as the page shows them
  move,     \* move[b]: timeToMove of each of its rows, 0 where there is none
  date,     \* date[b]: how the date of each of its rows is written
  result,   \* result[b]: what has become of each of its rows
  row,      \* row[b]: the entry of the row it is working on
  refusals,  \* entries for which SPP refused a new entry
  edited,   \* entries that were edited when an export had them
  edits, moveFaults

spp == <<worked, kept, moved>>
request == <<at, export, move, date, result, row>>
moveGhosts == <<refusals, edited>>
moveVars == <<spp, request, moveGhosts, edits, moveFaults>>

MoveInit ==
  /\ worked \in [Entries -> Hours]
  /\ kept = worked
  /\ moved = [e \in Entries |-> 0]
  /\ at = [b \in Batches |-> "closed"]
  /\ export = [b \in Batches |-> worked]
  /\ move = [b \in Batches |-> [e \in Entries |-> 0]]
  /\ date = [b \in Batches |-> [e \in Entries |-> "exported"]]
  /\ result = [b \in Batches |-> [e \in Entries |-> "none"]]
  /\ row \in [Batches -> Entries]
  /\ refusals = {} /\ edited = {}
  /\ edits = 0 /\ moveFaults = 0

MoveFault == moveFaults < MaxMoveFaults /\ moveFaults' = moveFaults + 1
Go(b, step) == at' = [at EXCEPT ![b] = step]
Fine == UNCHANGED <<moveGhosts, edits, moveFaults>>

-----------------------------------------------------------------------------
(* The page.                                                                *)

Export(b) ==
  /\ at[b] \in {"closed", "shown"}
  /\ export' = [export EXCEPT ![b] = kept]
  /\ move' = [move EXCEPT ![b] = [e \in Entries |-> 0]]
  /\ result' = [result EXCEPT ![b] = [e \in Entries |-> "none"]]
  /\ Go(b, "shown")
  /\ UNCHANGED <<spp, date, row>> /\ Fine

\* At most one row for an entry.
Submit(b) ==
  /\ at[b] = "shown"
  /\ \E m \in [Entries -> 0 .. MaxHours] : move' = [move EXCEPT ![b] = m]
  /\ \E d \in [Entries -> Dates] : date' = [date EXCEPT ![b] = d]
  /\ result' = [result EXCEPT ![b] = [e \in Entries |-> "none"]]
  /\ Go(b, "next")
  /\ UNCHANGED <<spp, export, row>> /\ Fine

\* The owner changes an entry, whoever has it on a page.
Edit(e, h) ==
  /\ edits < MaxEdits
  /\ edits' = edits + 1
  /\ worked' = [worked EXCEPT ![e] = h + moved[e]]
  /\ kept' = [kept EXCEPT ![e] = h]
  /\ edited' = IF \E b \in Batches : at[b] # "closed" THEN edited \union {e} ELSE edited
  /\ UNCHANGED <<moved, request, refusals, moveFaults>>

-----------------------------------------------------------------------------
(* The handler: one row after the other, an error of one does not stop it.  *)

Ends(b, e, how) == result' = [result EXCEPT ![b][e] = how]
Next1(b, how) == Go(b, "next") /\ Ends(b, row[b], how)
Todo(b, e) == move[b][e] > 0 /\ result[b][e] = "none"

\* processMovement up to its first write: the hours to move are checked
\* against the hours of the export. A row that moves them all is a full move.
Start(b, e) ==
  /\ at[b] = "next"
  /\ Todo(b, e)
  /\ row' = [row EXCEPT ![b] = e]
  /\ \/ move[b][e] > export[b][e] /\ Ends(b, e, "error") /\ UNCHANGED at
     \/ move[b][e] = export[b][e] /\ Go(b, "repoint") /\ UNCHANGED result
     \/ move[b][e] < export[b][e] /\ Go(b, "create") /\ UNCHANGED result
  /\ UNCHANGED <<spp, export, move, date>> /\ Fine

\* A full move: the entry stays what it is, but for where it is.
Repoint(b) ==
  /\ at[b] = "repoint"
  /\ Next1(b, "full")
  /\ UNCHANGED <<spp, export, move, date, row>> /\ Fine

\* normalizeDateForSpp makes YYYY/MM/DD of the date of an export, and of that
\* putRecords makes no date: it throws before it has called SPP, three times.
Sendable(b) == date[b][row[b]] = "iso"

CreateThrows(b) ==
  /\ at[b] = "create"
  /\ ~Sendable(b)
  /\ Next1(b, "error")
  /\ UNCHANGED <<spp, export, move, date, row>> /\ Fine

Split(b, n) == moved' = [moved EXCEPT ![row[b]] = @ + n * move[b][row[b]]]

Create(b) ==
  /\ at[b] = "create"
  /\ Sendable(b)
  /\ Split(b, 1)
  /\ Go(b, "shrink")
  /\ UNCHANGED <<worked, kept, export, move, date, result, row>> /\ Fine

\* The remaining hours are those of the export less those that moved.
Shorten(b) ==
  kept' = [kept EXCEPT ![row[b]] = export[b][row[b]] - move[b][row[b]]]

Shrink(b) ==
  /\ at[b] = "shrink"
  /\ Shorten(b)
  /\ Next1(b, "partial")
  /\ UNCHANGED <<worked, moved, export, move, date, row>> /\ Fine

\* All rows are done; the results go back. The page still has its export.
Answer(b) ==
  /\ at[b] = "next"
  /\ \A e \in Entries : ~Todo(b, e)
  /\ Go(b, "shown")
  /\ UNCHANGED <<spp, export, move, date, result, row>> /\ Fine

-----------------------------------------------------------------------------
(* What can fail. SPP refuses records (the timesheet is approved, say) in an *)
(* answer that putRecords ends with 200 all the same.                        *)

FaultSame == UNCHANGED <<export, move, date, row, edited, edits>>

\* The Lambda does not look for the id of the new entry.
CreateRefused(b) ==
  /\ at[b] = "create"
  /\ Sendable(b)
  /\ MoveFault
  /\ refusals' = refusals \union {row[b]}
  /\ Go(b, "shrink")
  /\ UNCHANGED <<spp, result>> /\ FaultSame

\* The answer to a create is lost; callSharedUtil creates it again, and the row
\* goes on, or ends as an error.
CreateUnheard(b) ==
  /\ at[b] = "create"
  /\ Sendable(b)
  /\ MoveFault
  /\ \/ Split(b, 2) /\ Go(b, "shrink") /\ UNCHANGED result
     \/ Split(b, 1) /\ Next1(b, "error")
  /\ UNCHANGED <<worked, kept, refusals>> /\ FaultSame

\* SPP refuses the shorter entry, whose hours are then counted twice, or that
\* an entry is moved; the row is reported as done.
UpdateRefused(b) ==
  /\ MoveFault
  /\ \/ at[b] = "repoint" /\ Next1(b, "full")
     \/ at[b] = "shrink" /\ Next1(b, "partial")
  /\ UNCHANGED <<spp, refusals>> /\ FaultSame

\* callSharedUtil throws; an update may have been carried out.
RowFails(b) ==
  /\ at[b] \in {"repoint", "create", "shrink"}
  /\ MoveFault
  /\ Next1(b, "error")
  /\ UNCHANGED kept \/ (at[b] = "shrink" /\ Shorten(b))
  /\ UNCHANGED <<worked, moved, refusals>> /\ FaultSame

RequestDies(b) ==
  /\ at[b] \notin {"closed", "shown"}
  /\ MoveFault
  /\ Go(b, "shown")
  /\ UNCHANGED <<spp, result, refusals>> /\ FaultSame

-----------------------------------------------------------------------------
Request(b) ==
  \/ Export(b) \/ Submit(b) \/ (\E e \in Entries : Start(b, e))
  \/ Repoint(b) \/ CreateThrows(b) \/ Create(b) \/ Shrink(b) \/ Answer(b)

MoveMishap(b) ==
  \/ CreateRefused(b) \/ CreateUnheard(b) \/ UpdateRefused(b) \/ RowFails(b)
  \/ RequestDies(b)

MoveNext ==
  \/ \E b \in Batches : Request(b) \/ MoveMishap(b)
  \/ \E e \in Entries, h \in Hours : Edit(e, h)

MoveSpec == MoveInit /\ [][MoveNext]_moveVars

-----------------------------------------------------------------------------
(* Properties. *)

MoveTypeOK ==
  /\ worked \in [Entries -> Nat]
  /\ kept \in [Entries -> Nat]
  /\ moved \in [Entries -> Nat]
  /\ at \in [Batches -> {"closed", "shown", "next", "repoint", "create", "shrink"}]
  /\ export \in [Batches -> [Entries -> Nat]]
  /\ move \in [Batches -> [Entries -> 0 .. MaxHours]]
  /\ date \in [Batches -> [Entries -> Dates]]
  /\ result \in [Batches -> [Entries -> Results]]
  /\ row \in [Batches -> Entries]
  /\ refusals \subseteq Entries /\ edited \subseteq Entries
  /\ edits \in Nat /\ moveFaults \in Nat

\* What the header says of the body and of the answer ("date": "M/D/YYYY as
\* exported by SPP -- required for a partial move's new entry"; "status":
\* "partial"): as long as nothing fails, a row that asks for no more than the
\* export has is moved, and is not answered with an error.
RowsAreMoved ==
  moveFaults = 0 => \A b \in Batches, e \in Entries :
    result[b][e] = "error" => move[b][e] > export[b][e]

\* "A failure can never make hours disappear", as far as it goes: however
\* requests overlap, however old their exports are, and whatever call is lost,
\* repeated or cut off, the entry and those split off it have the hours the
\* person entered, unless SPP refused a new entry (of a row whose date it
\* got at all) or the owner edited an entry that was on a page.
HoursKept ==
  \A e \in Entries \ (edited \union refusals) : kept[e] + moved[e] >= worked[e]
=============================================================================
