------------------------------ MODULE DataSync ------------------------------
(***************************************************************************)
(* sppDataSync: keeps one CSV per SPP table in S3 by asking SPP, page by   *)
(* page, for what changed since the last completed sync.                   *)
(*                                                                         *)
(* One table is modelled. The Lambda has a reserved concurrency of one     *)
(* (spp-data-sync-infra.yaml:123), so there is one invocation at a time,   *)
(* but a sync may take several: each checkpoints its progress in           *)
(* sppSyncWatermarks and the deleted ids it collected in S3. Meanwhile     *)
(* people go on creating, changing and deleting records in SPP, whose      *)
(* "updated" filter may lag behind a change.                               *)
(*                                                                         *)
(* Time is counted in days: the watermark sent to SPP is a date.           *)
(***************************************************************************)
EXTENDS Integers, FiniteSets, Sequences, Functions

CONSTANTS
  Ids,         \* ids of the table's records; SPP lists records in this order
  Existing,    \* the records that are there before the first sync
  PageSize,    \* PAGE_SIZE
  BatchPages,  \* MERGE_BATCH_SIZE \div PAGE_SIZE: full pages that make a batch
  FilterLag,   \* days the "updated" filter of SPP may lag behind a change
  MaxDay,      \* bound: the last day
  MaxChanges,  \* bound: what people do to the records
  MaxFaults,   \* bound: invocations that die, and pages that are an error
  NoTime,      \* lastSyncedAt of a table never synced
  NoBackfill,  \* no backfill in progress
  NoFile       \* the deleted-ids file does not exist

WATERMARK_OVERLAP_DAYS == 2
EPOCH_START == 0
NotIndexed == -(WATERMARK_OVERLAP_DAYS + 1)  \* before any watermark

\* Progress of a backfill, as it is stored in sppSyncWatermarks.
Backfill == [commitWatermark : Nat, deletedIdsOffset : Nat,
             deletedIdsDone : BOOLEAN, fieldOffset : Nat]

\* A row of the CSV: the version of the record it holds and its "deleted".
Row == [version : Nat, deleted : BOOLEAN]

ASSUME ConstantsAssumption ==
  /\ Ids \subseteq Nat
  /\ IsFiniteSet(Ids)
  /\ Existing \subseteq Ids
  /\ PageSize \in Nat \ {0}
  /\ BatchPages \in Nat \ {0}
  /\ FilterLag \in 0 .. WATERMARK_OVERLAP_DAYS
  /\ MaxDay \in Nat
  /\ MaxChanges \in Nat
  /\ MaxFaults \in Nat
  /\ NoTime \notin Nat
  /\ NoBackfill \notin Backfill
  /\ \A S \in SUBSET Ids : NoFile # S

VARIABLES
  today,
  changes,   \* how often people changed anything
  version,   \* version[r]: of the record in SPP, 0 while it does not exist
  deleted,   \* the records deleted in SPP (they can still be read)
  updated,   \* updated[r]: the day of the last change
  indexed,   \* indexed[r]: the "updated" that SPP's filter goes by
  last,      \* lastSyncedAt in sppSyncWatermarks
  backfill,  \* backfill in sppSyncWatermarks
  idsFile,   \* the deleted-ids file in S3
  csv,       \* csv[r]: the rows with id r of the table's CSV in S3
  pc,        \* what the invocation does next
  watermark, \* its "newer-than" date
  work,      \* its copy of the backfill
  ids,       \* its set of deleted ids
  batch,     \* batch[r]: the rows with id r of its pendingBatch
  pages,     \* pages fetched into pendingBatch
  snapshot,  \* existing_data, as mergeIntoS3Csv read it
  after,     \* where flush returns to
  faults,    \* how often something went wrong
  missed     \* records that an error hid since they were last changed (history)

sppVars   == <<today, changes, version, deleted, updated, indexed>>
stateVars == <<last, backfill>>
fileVars  == <<idsFile, csv>>
faultVars == <<faults, missed>>
runVars   == <<pc, watermark, work, ids, batch, pages, snapshot, after>>
vars == <<sppVars, stateVars, fileVars, runVars, faultVars>>

PCs == {"idle", "ids", "saveIds", "loadIds", "fields", "read", "write",
        "checkpoint", "complete"}

Nothing == [r \in Ids |-> <<>>]

\* The row that tells the truth about a record.
Truth(r) == [version |-> version[r], deleted |-> r \in deleted]
Holds(rows, r) == Range(rows[r]) = {Truth(r)}
Exists(r) == version[r] > 0

TypeOK ==
  /\ today \in Nat
  /\ changes \in Nat
  /\ version \in [Ids -> Nat]
  /\ deleted \subseteq Ids
  /\ updated \in [Ids -> Nat]
  /\ indexed \in [Ids -> Nat \union {NotIndexed}]
  /\ last \in Nat \union {NoTime}
  /\ backfill \in Backfill \union {NoBackfill}
  /\ idsFile \in {NoFile} \union SUBSET Ids
  /\ csv \in [Ids -> Seq(Row)]
  /\ pc \in PCs
  /\ watermark \in Int
  /\ work \in Backfill
  /\ ids \subseteq Ids
  /\ batch \in [Ids -> Seq(Row)]
  /\ pages \in Nat
  /\ snapshot \in [Ids -> Seq(Row)]
  /\ after \in {"fields", "checkpoint", "complete"}
  /\ faults \in Nat
  /\ missed \subseteq Ids

StartedOn(day) == [commitWatermark |-> day, deletedIdsOffset |-> 0,
                   deletedIdsDone |-> FALSE, fieldOffset |-> 0]

Init ==
  /\ today = 0
  /\ changes = 0
  /\ version = [r \in Ids |-> IF r \in Existing THEN 1 ELSE 0]
  /\ deleted = {}
  /\ updated = [r \in Ids |-> 0]
  /\ indexed = [r \in Ids |-> IF r \in Existing THEN 0 ELSE NotIndexed]
  /\ last = NoTime
  /\ backfill = NoBackfill
  /\ idsFile = NoFile
  /\ csv = Nothing
  /\ pc = "idle"
  /\ watermark = EPOCH_START
  /\ work = StartedOn(0)
  /\ ids = {}
  /\ batch = Nothing
  /\ pages = 0
  /\ snapshot = Nothing
  /\ after = "fields"
  /\ faults = 0
  /\ missed = {}

-----------------------------------------------------------------------------
(* SPP: what people do to the records, and the lag of the filter. *)

SppChanges(r) ==
  /\ changes < MaxChanges
  /\ changes' = changes + 1
  /\ updated' = [updated EXCEPT ![r] = today]
  /\ missed' = missed \ {r}
  /\ UNCHANGED <<today, indexed, stateVars, fileVars, runVars, faults>>

\* SPP numbers records in the order of their creation.
Create(r) ==
  /\ ~Exists(r)
  /\ \A s \in Ids : s < r => Exists(s)
  /\ version' = [version EXCEPT ![r] = 1]
  /\ UNCHANGED deleted
  /\ SppChanges(r)

Change(r) ==
  /\ Exists(r)
  /\ r \notin deleted
  /\ version' = [version EXCEPT ![r] = @ + 1]
  /\ UNCHANGED deleted
  /\ SppChanges(r)

Delete(r) ==
  /\ Exists(r)
  /\ r \notin deleted
  /\ deleted' = deleted \union {r}
  /\ UNCHANGED version
  /\ SppChanges(r)

\* The filter takes notice of the last change of a record.
Index(r) ==
  /\ Exists(r)
  /\ indexed[r] # updated[r]
  /\ indexed' = [indexed EXCEPT ![r] = updated[r]]
  /\ UNCHANGED <<today, changes, version, deleted, updated,
                 stateVars, fileVars, runVars, faultVars>>

\* A day passes; no change stays unnoticed for longer than FilterLag.
Tick ==
  /\ today < MaxDay
  /\ \A r \in Ids :
       Exists(r) /\ indexed[r] # updated[r] => today + 1 - updated[r] <= FilterLag
  /\ today' = today + 1
  /\ UNCHANGED <<changes, version, deleted, updated, indexed,
                 stateVars, fileVars, runVars, faultVars>>

\* What a Read matches: filter "newer-than" on "updated". Deleted records are
\* matched like the others.
Matching(date) == {r \in Ids : Exists(r) /\ indexed[r] >= date}

\* fetchOnePage: limit="offset,PAGE_SIZE" of a listing of S.
Before(S, r) == Cardinality({s \in S : s < r})
Page(S, offset) ==
  {r \in S : offset <= Before(S, r) /\ Before(S, r) < offset + PageSize}
IsLastPage(S, offset) == Cardinality(S) < offset + PageSize

\* It looks at the HTTP status alone: an error that SPP embeds in a 200 has no
\* rows, and so passes for the last page. What the listing S still has from
\* this offset on is not read. (If it has nothing, the error changes nothing.)
Embedded(S, offset) ==
  LET hidden == {r \in S : offset <= Before(S, r)} IN
  /\ faults < MaxFaults
  /\ hidden # {}
  /\ faults' = faults + 1
  /\ missed' = missed \union hidden

-----------------------------------------------------------------------------
(* runTableSync. *)

WatermarkOf(time) ==
  IF time = NoTime THEN EPOCH_START ELSE time - WATERMARK_OVERLAP_DAYS

Loaded == IF idsFile = NoFile THEN {} ELSE idsFile

\* The invocation ends, and what it had in memory is gone.
Ends ==
  /\ pc' = "idle"
  /\ watermark' = EPOCH_START
  /\ work' = StartedOn(0)
  /\ ids' = {}
  /\ batch' = Nothing
  /\ pages' = 0
  /\ snapshot' = Nothing
  /\ after' = "fields"

\* getSyncState; the deleted ids collected so far are read back when there is
\* an offset to resume from.
Begin ==
  /\ pc = "idle"
  /\ watermark' = WatermarkOf(last)
  /\ work' = IF backfill = NoBackfill THEN StartedOn(today) ELSE backfill
  /\ pc' = IF work'.deletedIdsDone THEN "loadIds" ELSE "ids"
  /\ ids' = IF work'.deletedIdsOffset > 0 THEN Loaded ELSE {}
  /\ UNCHANGED <<batch, pages, snapshot, after,
                 sppVars, stateVars, fileVars, faultVars>>

\* Faulty variant of DeletedIdsPage: asks for deleted and other records.
DeletedModeBoth ==
  LET S == Matching(watermark)
      offset == work.deletedIdsOffset
      done == IsLastPage(S, offset)
  IN
  /\ pc = "ids"
  /\ ids' = ids \union Page(S, offset)
  /\ work' = [work EXCEPT !.deletedIdsOffset = offset + PageSize,
                          !.deletedIdsDone = done]
  /\ pc' = IF done THEN "saveIds" ELSE "ids"
  /\ UNCHANGED <<watermark, batch, pages, snapshot, after,
                 sppVars, stateVars, fileVars, faultVars>>

\* runDeletedIdsPhase: one page of the deleted records.
DeletedIdsPage ==
  LET S == Matching(watermark) \intersect deleted
      offset == work.deletedIdsOffset
      done == IsLastPage(S, offset)
  IN
  /\ pc = "ids"
  /\ ids' = ids \union Page(S, offset)
  /\ work' = [work EXCEPT !.deletedIdsOffset = offset + PageSize,
                          !.deletedIdsDone = done]
  /\ pc' = IF done THEN "saveIds" ELSE "ids"
  /\ UNCHANGED <<watermark, batch, pages, snapshot, after,
                 sppVars, stateVars, fileVars, faultVars>>

\* The page is an error in a 200: no ids, and the phase is done.
DeletedIdsError ==
  LET offset == work.deletedIdsOffset IN
  /\ pc = "ids"
  /\ Embedded(Matching(watermark) \intersect deleted, offset)
  /\ work' = [work EXCEPT !.deletedIdsOffset = offset + PageSize,
                          !.deletedIdsDone = TRUE]
  /\ pc' = "saveIds"
  /\ UNCHANGED <<watermark, ids, batch, pages, snapshot, after,
                 sppVars, stateVars, fileVars>>

\* Less than BACKFILL_TIME_BUDGET_MS remains.
DeletedIdsOutOfTime ==
  /\ pc = "ids"
  /\ pc' = "saveIds"
  /\ UNCHANGED <<watermark, work, ids, batch, pages, snapshot, after,
                 sppVars, stateVars, fileVars, faultVars>>

\* saveDeletedIdsToS3: an empty set is not written.
SaveDeletedIds ==
  /\ pc = "saveIds"
  /\ idsFile' = IF ids = {} THEN idsFile ELSE ids
  /\ pc' = IF work.deletedIdsDone THEN "loadIds" ELSE "checkpoint"
  /\ UNCHANGED <<watermark, work, ids, batch, pages, snapshot, after,
                 csv, sppVars, stateVars, faultVars>>

LoadDeletedIds ==
  /\ pc = "loadIds"
  /\ ids' = Loaded
  /\ pc' = "fields"
  /\ UNCHANGED <<watermark, work, batch, pages, snapshot, after,
                 sppVars, stateVars, fileVars, faultVars>>

NewRow(r) == [version |-> version[r], deleted |-> r \in ids]

\* runFieldDataPhase: one page of all the records; a row is marked deleted by
\* the ids that were loaded. The batch is merged when it is large enough, and
\* after the last page, unless it is empty.
FieldDataPage ==
  LET S == Matching(watermark)
      offset == work.fieldOffset
      done == IsLastPage(S, offset)
      fetched == Page(S, offset)
  IN
  /\ pc = "fields"
  /\ batch' = [r \in Ids |-> IF r \in fetched THEN Append(batch[r], NewRow(r))
                                              ELSE batch[r]]
  /\ pages' = pages + 1
  /\ work' = [work EXCEPT !.fieldOffset = offset + PageSize]
  /\ pc' = CASE done /\ batch' = Nothing -> "complete"
             [] done /\ batch' # Nothing -> "read"
             [] ~done -> IF pages' >= BatchPages THEN "read" ELSE "fields"
  /\ after' = IF done THEN "complete" ELSE "fields"
  /\ UNCHANGED <<watermark, ids, snapshot,
                 sppVars, stateVars, fileVars, faultVars>>

\* The page is an error in a 200: no rows, and the phase is done.
FieldDataError ==
  LET offset == work.fieldOffset IN
  /\ pc = "fields"
  /\ Embedded(Matching(watermark), offset)
  /\ pages' = pages + 1
  /\ work' = [work EXCEPT !.fieldOffset = offset + PageSize]
  /\ pc' = IF batch = Nothing THEN "complete" ELSE "read"
  /\ after' = "complete"
  /\ UNCHANGED <<watermark, ids, batch, snapshot,
                 sppVars, stateVars, fileVars>>

\* Faulty variant of FieldDataOutOfTime: the pending batch is forgotten.
StopWithoutFlush ==
  /\ pc = "fields"
  /\ pc' = "checkpoint"
  /\ after' = "checkpoint"
  /\ UNCHANGED <<watermark, work, ids, batch, pages, snapshot,
                 sppVars, stateVars, fileVars, faultVars>>

FieldDataOutOfTime ==
  /\ pc = "fields"
  /\ pc' = IF batch = Nothing THEN "checkpoint" ELSE "read"
  /\ after' = "checkpoint"
  /\ UNCHANGED <<watermark, work, ids, batch, pages, snapshot,
                 sppVars, stateVars, fileVars, faultVars>>

\* mergeIntoS3Csv reads the file, ...
MergeRead ==
  /\ pc = "read"
  /\ snapshot' = csv
  /\ pc' = "write"
  /\ UNCHANGED <<watermark, work, ids, batch, pages, after,
                 sppVars, stateVars, fileVars, faultVars>>

\* ... drops the rows whose id is in the batch, appends the batch and writes
\* the whole file.
MergeWrite ==
  /\ pc = "write"
  /\ csv' = [r \in Ids |-> IF batch[r] = <<>> THEN snapshot[r] ELSE batch[r]]
  /\ batch' = Nothing
  /\ pages' = 0
  /\ snapshot' = Nothing
  /\ pc' = after
  /\ UNCHANGED <<watermark, work, ids, after,
                 idsFile, sppVars, stateVars, faultVars>>

\* Faulty variant of Checkpoint: every invocation starts from scratch.
CheckpointNothing ==
  /\ pc = "checkpoint"
  /\ Ends
  /\ UNCHANGED <<stateVars, sppVars, fileVars, faultVars>>

\* saveBackfillProgress, and the invocation ends.
Checkpoint ==
  /\ pc = "checkpoint"
  /\ backfill' = work
  /\ Ends
  /\ UNCHANGED <<last, sppVars, fileVars, faultVars>>

\* Faulty variants of Complete: the watermark is the time the sync ends; the
\* overlap is taken off when it is stored.
CompleteAtEnd ==
  /\ pc = "complete"
  /\ last' = today
  /\ backfill' = NoBackfill
  /\ Ends
  /\ UNCHANGED <<sppVars, fileVars, faultVars>>

\* completeBackfill, and the invocation ends.
Complete ==
  /\ pc = "complete"
  /\ last' = work.commitWatermark
  /\ backfill' = NoBackfill
  /\ Ends
  /\ UNCHANGED <<sppVars, fileVars, faultVars>>

\* A request to SPP, S3, DynamoDB or DuckDB fails, or the Lambda is killed.
Crash ==
  /\ pc # "idle"
  /\ faults < MaxFaults
  /\ faults' = faults + 1
  /\ Ends
  /\ UNCHANGED <<sppVars, stateVars, fileVars, missed>>

-----------------------------------------------------------------------------
Spp == Tick \/ \E r \in Ids : Create(r) \/ Change(r) \/ Delete(r) \/ Index(r)

Sync ==
  \/ Begin
  \/ DeletedIdsPage \/ DeletedIdsOutOfTime \/ SaveDeletedIds \/ LoadDeletedIds
  \/ FieldDataPage \/ FieldDataOutOfTime
  \/ MergeRead \/ MergeWrite
  \/ Checkpoint \/ Complete

Faults == DeletedIdsError \/ FieldDataError \/ Crash

Next == Spp \/ Sync \/ Faults

Spec == Init /\ [][Next]_vars

\* The schedule starts an invocation every 15 minutes; an invocation goes on;
\* it does not run out of time for ever before it has fetched a page; SPP's
\* filter notices every change. That faults are finite is their bound.
Fairness ==
  /\ WF_vars(Sync)
  /\ SF_vars(DeletedIdsPage \/ FieldDataPage)
  /\ WF_vars(\E r \in Ids : Index(r))

FairSpec == Spec /\ Fairness
-----------------------------------------------------------------------------
(* Properties. *)

\* The CSV does not tell the truth about this record.
Stale(r) == Exists(r) /\ ~Holds(csv, r)

\* No change is ever skipped, except by an error that SPP sends in a 200:
\* whatever else the CSV has wrong, through resumed, interrupted and
\* overlapping reads of a moving listing, was changed late enough for the next
\* completed sync to ask SPP for it.
StaleIsDue ==
  \A r \in Ids :
    Stale(r) => updated[r] >= WatermarkOf(last) \/ r \in missed

\* Changed too late for the backfill b to commit to it.
Recent(r, b) == updated[r] >= b.commitWatermark - FilterLag

\* A checkpoint claims no page that is not in S3: a record the resumed read
\* will pass over is right in the CSV, and a deleted one in the deleted-ids
\* file, unless it was changed too late for this backfill to commit to it or
\* an error hid it.
CheckpointIsDurable ==
  backfill # NoBackfill =>
    LET S == Matching(WatermarkOf(last))
        D == S \intersect deleted
    IN
    /\ \A r \in S :
         Before(S, r) < backfill.fieldOffset =>
           Holds(csv, r) \/ Recent(r, backfill) \/ r \in missed
    /\ \A r \in D :
         backfill.deletedIdsDone \/ Before(D, r) < backfill.deletedIdsOffset =>
           r \in Loaded \/ Recent(r, backfill) \/ r \in missed

\* Nobody is made to believe that a record is gone: a row marked deleted
\* belongs to a record that SPP has deleted.
NoFalseDeletion ==
  \A r \in Ids : \A row \in Range(csv[r]) : row.deleted => r \in deleted

\* Once people stop, the CSV comes to tell the truth and goes on doing so, but
\* for what an error hid until its change had aged out of the overlap.
CsvConverges ==
  <>[](\A r \in Ids :
         Stale(r) => r \in missed /\ updated[r] < WatermarkOf(last))

\* A statement of a comment that the code does not keep.

\* "mergeIntoS3Csv upserts by id": one row per id.
OneRowPerId == \A r \in Ids : Len(csv[r]) <= 1
=============================================================================
