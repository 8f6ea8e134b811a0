--------------------------- MODULE DataSyncProofs ---------------------------
(***************************************************************************)
(* Proofs about DataSync: type correctness, that no change is ever skipped *)
(* (StaleIsDue), that checkpoints are durable (CheckpointIsDurable) and    *)
(* that nothing is marked deleted that is not (NoFalseDeletion).           *)
(*                                                                         *)
(* The argument: while a sync runs, the listing it pages through can only  *)
(* grow, so a record can only move to a later offset, and a record that    *)
(* joins the listing after its start was changed at most FilterLag days    *)
(* before that start, which is the day the sync commits to. So every       *)
(* record the offset has passed is either right, in the CSV or in the      *)
(* batch that will replace its rows, or too recent to be committed to, or  *)
(* was hidden by an error that SPP sent in place of a page (missed).       *)
(***************************************************************************)
EXTENDS DataSync, FiniteSetTheorems, TLAPS

\* Not to be expected of the backfill b: r was changed too late for it to
\* commit to it, or an error hid r.
Excused(r, b) ==
  updated[r] >= b.commitWatermark - FilterLag \/ r \in missed

\* The CSV as it will be when the pending batch is merged.
View == [r \in Ids |-> IF batch[r] = <<>> THEN csv[r] ELSE batch[r]]

SppInv ==
  \A r \in Ids :
    /\ updated[r] <= today
    /\ indexed[r] <= updated[r]
    /\ Exists(r) /\ indexed[r] # updated[r] => updated[r] >= today - FilterLag
    /\ r \in deleted => Exists(r)

\* A backfill commits to a day between the last completed sync and today.
Committing(b) ==
  /\ b.commitWatermark <= today
  /\ last # NoTime => last <= b.commitWatermark

TimeInv ==
  /\ last # NoTime => last <= today
  /\ backfill # NoBackfill => Committing(backfill)
  /\ pc # "idle" =>
       /\ Committing(work)
       /\ watermark = WatermarkOf(last)
       /\ backfill # NoBackfill =>
            work.commitWatermark = backfill.commitWatermark

\* Nothing on record says of an existing record that it is deleted.
DeletedInv ==
  /\ ids \subseteq deleted
  /\ Loaded \subseteq deleted
  /\ \A r \in Ids \ deleted :
       \A row \in Range(csv[r]) \union Range(batch[r]) \union Range(snapshot[r]) :
         ~row.deleted

\* The deleted records that the first phase has passed are in S.
DeletedSeen(b, S) ==
  LET D == Matching(WatermarkOf(last)) \intersect deleted IN
  \A r \in D :
    b.deletedIdsDone \/ Before(D, r) < b.deletedIdsOffset =>
      r \in S \/ Excused(r, b)

IdsInv ==
  /\ backfill # NoBackfill => DeletedSeen(backfill, Loaded)
  /\ pc \in {"ids", "saveIds"} =>
       /\ DeletedSeen(work, ids)
       /\ backfill # NoBackfill =>
            /\ ~backfill.deletedIdsDone
            /\ backfill.deletedIdsOffset > 0 => Loaded \subseteq ids
  /\ pc \in {"loadIds", "fields", "read", "write", "checkpoint"} =>
       DeletedSeen(work, Loaded)
  /\ pc \in {"loadIds", "fields", "read", "write"} => work.deletedIdsDone
  /\ pc \in {"fields", "read", "write"} => ids = Loaded

\* The records that the second phase has passed are right in rows.
FieldsSeen(b, rows) ==
  LET M == Matching(WatermarkOf(last)) IN
  \A r \in M : Before(M, r) < b.fieldOffset => Holds(rows, r) \/ Excused(r, b)

FieldsInv ==
  /\ backfill # NoBackfill => FieldsSeen(backfill, csv)
  /\ pc # "idle" => FieldsSeen(work, View)
  /\ pc \notin {"fields", "read", "write"} => batch = Nothing
  /\ pc = "write" => snapshot = csv
  /\ pc # "idle" =>
       \A r \in Ids : batch[r] # <<>> => Holds(batch, r) \/ Excused(r, work)
  /\ pc = "complete" \/ (pc \in {"read", "write"} /\ after = "complete") =>
       \A r \in Matching(WatermarkOf(last)) : Holds(View, r) \/ Excused(r, work)

IInv ==
  /\ TypeOK
  /\ SppInv
  /\ TimeInv
  /\ DeletedInv
  /\ IdsInv
  /\ FieldsInv
  /\ StaleIsDue

-----------------------------------------------------------------------------
(* Sequences and listings. *)

\* The rows of an id after one more is appended.
LEMMA RangeOfAppend ==
  ASSUME NEW S, NEW s \in Seq(S), NEW e \in S
  PROVE  Range(Append(s, e)) = Range(s) \union {e}
  BY DEF Range

LEMMA RangeOfEmpty == Range(<<>>) = {}
  BY DEF Range

\* A record moves to a later offset when the listing grows.
LEMMA BeforeGrows ==
  ASSUME NEW T \in SUBSET Ids, NEW S \in SUBSET T, NEW r \in Ids
  PROVE  /\ Before(S, r) \in Nat
         /\ Before(T, r) \in Nat
         /\ Before(S, r) <= Before(T, r)
<1>1. IsFiniteSet({s \in T : s < r})
  BY ConstantsAssumption, FS_Subset
<1>2. {s \in S : s < r} \subseteq {s \in T : s < r}
  OBVIOUS
<1>. QED BY <1>1, <1>2, FS_Subset, FS_CardinalityType DEF Before

\* The last page reaches to the end of the listing.
LEMMA LastPageEnds ==
  ASSUME NEW S \in SUBSET Ids, NEW r \in S, NEW offset \in Nat,
         IsLastPage(S, offset)
  PROVE  Before(S, r) < offset + PageSize
<1>1. IsFiniteSet(S)
  BY ConstantsAssumption, FS_Subset
<1>2. {s \in S : s < r} \subseteq S /\ {s \in S : s < r} # S
  BY ConstantsAssumption
<1>3. Cardinality({s \in S : s < r}) < Cardinality(S)
  BY <1>1, <1>2, FS_Subset, FS_CardinalityType
<1>4. Cardinality({s \in S : s < r}) \in Nat /\ Cardinality(S) \in Nat
  BY <1>1, <1>2, FS_Subset, FS_CardinalityType
<1>. QED BY <1>3, <1>4, ConstantsAssumption DEF IsLastPage, Before

\* What one page of the first phase does to the backfill.
LEMMA DeletedIdsPageWork ==
  ASSUME TypeOK, DeletedIdsPage
  PROVE  /\ work' \in Backfill
         /\ work'.commitWatermark = work.commitWatermark
         /\ work'.fieldOffset = work.fieldOffset
         /\ work'.deletedIdsOffset = work.deletedIdsOffset + PageSize
         /\ work'.deletedIdsDone =
              IsLastPage(Matching(watermark) \intersect deleted,
                         work.deletedIdsOffset)
<1>. DEFINE d == IsLastPage(Matching(watermark) \intersect deleted,
                            work.deletedIdsOffset)
            o == work.deletedIdsOffset + PageSize
<1>1. work' = [work EXCEPT !.deletedIdsOffset = o, !.deletedIdsDone = d]
  BY Zenon DEF DeletedIdsPage
<1>2. o \in Nat /\ work \in Backfill
  BY ConstantsAssumption DEF TypeOK, Backfill
<1>3. d \in BOOLEAN
  BY DEF IsLastPage
<1>. HIDE DEF o, d
<1>4. /\ work' \in Backfill
      /\ work'.commitWatermark = work.commitWatermark
      /\ work'.fieldOffset = work.fieldOffset
      /\ work'.deletedIdsOffset = o
      /\ work'.deletedIdsDone = d
  BY <1>1, <1>2, <1>3 DEF Backfill
<1>. QED BY <1>4, Zenon DEF o, d

\* What one page of the second phase does.
LEMMA FieldDataPageWork ==
  ASSUME TypeOK, FieldDataPage
  PROVE  /\ work' \in Backfill
         /\ work'.commitWatermark = work.commitWatermark
         /\ work'.fieldOffset = work.fieldOffset + PageSize
         /\ work'.deletedIdsOffset = work.deletedIdsOffset
         /\ work'.deletedIdsDone = work.deletedIdsDone
         /\ batch' = [r \in Ids |->
                        IF r \in Page(Matching(watermark), work.fieldOffset)
                        THEN Append(batch[r], NewRow(r)) ELSE batch[r]]
         /\ batch' \in [Ids -> Seq(Row)]
         /\ \A r \in Ids : NewRow(r) \in Row
<1>. DEFINE o == work.fieldOffset + PageSize
<1>1. work' = [work EXCEPT !.fieldOffset = o]
  BY Zenon DEF FieldDataPage
<1>2. o \in Nat /\ work \in Backfill
  BY ConstantsAssumption DEF TypeOK, Backfill
<1>. HIDE DEF o
<1>3. /\ work' \in Backfill
      /\ work'.commitWatermark = work.commitWatermark
      /\ work'.fieldOffset = o
      /\ work'.deletedIdsOffset = work.deletedIdsOffset
      /\ work'.deletedIdsDone = work.deletedIdsDone
  BY <1>1, <1>2 DEF Backfill
<1>4. ASSUME NEW r \in Ids PROVE NewRow(r) \in Row
  <2>1. version[r] \in Nat /\ (r \in ids) \in BOOLEAN
    BY DEF TypeOK
  <2>. QED BY <2>1, Zenon DEF NewRow, Row
<1>5. batch' = [r \in Ids |->
                  IF r \in Page(Matching(watermark), work.fieldOffset)
                  THEN Append(batch[r], NewRow(r)) ELSE batch[r]]
  BY Zenon DEF FieldDataPage
<1>6. ASSUME NEW r \in Ids
      PROVE  batch[r] \in Seq(Row) /\ Append(batch[r], NewRow(r)) \in Seq(Row)
  BY <1>4 DEF TypeOK
<1>7. batch' \in [Ids -> Seq(Row)]
  BY <1>5, <1>6
<1>. QED BY <1>3, <1>4, <1>5, <1>7, Zenon DEF o

\* What an error in place of a page of the first phase does to the backfill.
LEMMA DeletedIdsErrorWork ==
  ASSUME TypeOK, DeletedIdsError
  PROVE  /\ work' \in Backfill
         /\ work'.commitWatermark = work.commitWatermark
         /\ work'.fieldOffset = work.fieldOffset
         /\ work'.deletedIdsDone
         /\ faults' \in Nat
         /\ missed' \subseteq Ids
         /\ missed \subseteq missed'
         /\ \A r \in Matching(watermark) \intersect deleted :
              \/ Before(Matching(watermark) \intersect deleted, r)
                   < work.deletedIdsOffset
              \/ r \in missed'
<1>. DEFINE o == work.deletedIdsOffset + PageSize
            D == Matching(watermark) \intersect deleted
<1>1. work' = [work EXCEPT !.deletedIdsOffset = o, !.deletedIdsDone = TRUE]
  BY Zenon DEF DeletedIdsError
<1>2. o \in Nat /\ work \in Backfill
  BY ConstantsAssumption DEF TypeOK, Backfill
<1>3. /\ faults' = faults + 1
      /\ missed' = missed
           \union {r \in D : work.deletedIdsOffset <= Before(D, r)}
  BY Zenon DEF DeletedIdsError, Embedded
<1>4. D \in SUBSET Ids
  BY DEF Matching
<1>5. \A r \in D : Before(D, r) \in Nat
  BY <1>4, BeforeGrows
<1>. HIDE DEF o, D
<1>6. /\ work' \in Backfill
      /\ work'.commitWatermark = work.commitWatermark
      /\ work'.fieldOffset = work.fieldOffset
      /\ work'.deletedIdsDone
  BY <1>1, <1>2 DEF Backfill
<1>7. missed' \subseteq Ids /\ missed \subseteq missed' /\ faults' \in Nat
  BY <1>3, <1>4 DEF TypeOK
<1>8. work.deletedIdsOffset \in Nat
  BY DEF TypeOK, Backfill
<1>9. \A r \in D : Before(D, r) < work.deletedIdsOffset \/ r \in missed'
  BY <1>3, <1>5, <1>8
<1>. QED BY <1>6, <1>7, <1>9 DEF D

\* What an error in place of a page of the second phase does.
LEMMA FieldDataErrorWork ==
  ASSUME TypeOK, FieldDataError
  PROVE  /\ work' \in Backfill
         /\ work'.commitWatermark = work.commitWatermark
         /\ work'.deletedIdsOffset = work.deletedIdsOffset
         /\ work'.deletedIdsDone = work.deletedIdsDone
         /\ faults' \in Nat
         /\ missed' \subseteq Ids
         /\ missed \subseteq missed'
         /\ \A r \in Matching(watermark) :
              \/ Before(Matching(watermark), r) < work.fieldOffset
              \/ r \in missed'
<1>. DEFINE o == work.fieldOffset + PageSize
            M == Matching(watermark)
<1>1. work' = [work EXCEPT !.fieldOffset = o]
  BY Zenon DEF FieldDataError
<1>2. o \in Nat /\ work \in Backfill
  BY ConstantsAssumption DEF TypeOK, Backfill
<1>3. /\ faults' = faults + 1
      /\ missed' = missed \union {r \in M : work.fieldOffset <= Before(M, r)}
  BY Zenon DEF FieldDataError, Embedded
<1>4. M \in SUBSET Ids
  BY DEF Matching
<1>5. \A r \in M : Before(M, r) \in Nat
  BY <1>4, BeforeGrows
<1>. HIDE DEF o, M
<1>6. /\ work' \in Backfill
      /\ work'.commitWatermark = work.commitWatermark
      /\ work'.deletedIdsOffset = work.deletedIdsOffset
      /\ work'.deletedIdsDone = work.deletedIdsDone
  BY <1>1, <1>2 DEF Backfill
<1>7. missed' \subseteq Ids /\ missed \subseteq missed' /\ faults' \in Nat
  BY <1>3, <1>4 DEF TypeOK
<1>8. work.fieldOffset \in Nat
  BY DEF TypeOK, Backfill
<1>9. \A r \in M : Before(M, r) < work.fieldOffset \/ r \in missed'
  BY <1>3, <1>5, <1>8
<1>. QED BY <1>6, <1>7, <1>9 DEF M

-----------------------------------------------------------------------------
(* Type correctness. *)

LEMMA InitTyped == Init => TypeOK
  BY ConstantsAssumption
  DEF Init, TypeOK, StartedOn, Backfill, Nothing, PCs, EPOCH_START, NotIndexed

LEMMA EndsTyped ==
  ASSUME Ends
  PROVE  /\ pc' \in PCs
         /\ watermark' \in Int
         /\ work' \in Backfill
         /\ ids' \subseteq Ids
         /\ batch' \in [Ids -> Seq(Row)]
         /\ pages' \in Nat
         /\ snapshot' \in [Ids -> Seq(Row)]
         /\ after' \in {"fields", "checkpoint", "complete"}
  BY DEF Ends, PCs, EPOCH_START, StartedOn, Backfill, Nothing

LEMMA SppChangesTyped ==
  ASSUME TypeOK, NEW r \in Ids, SppChanges(r)
  PROVE  /\ changes' \in Nat
         /\ updated' \in [Ids -> Nat]
         /\ missed' \subseteq Ids
         /\ UNCHANGED <<today, indexed, stateVars, fileVars, runVars, faults>>
<1>1. missed' = missed \ {r} /\ missed \subseteq Ids
  BY DEF SppChanges, TypeOK
<1>2. changes' \in Nat /\ updated' \in [Ids -> Nat]
  BY DEF SppChanges, TypeOK
<1>3. UNCHANGED <<today, indexed, stateVars, fileVars, runVars, faults>>
  BY DEF SppChanges
<1>. QED BY <1>1, <1>2, <1>3

LEMMA NextTyped == TypeOK /\ [Next]_vars => TypeOK'
<1>. SUFFICES ASSUME TypeOK, [Next]_vars PROVE TypeOK'
  OBVIOUS
<1>. USE ConstantsAssumption
<1>1. CASE UNCHANGED vars
  BY <1>1 DEF vars, sppVars, stateVars, fileVars, runVars, faultVars, TypeOK
<1>2. CASE Spp
  <2>1. CASE Tick
    BY <2>1 DEF Tick, TypeOK, stateVars, fileVars, runVars, faultVars
  <2>2. ASSUME NEW r \in Ids, Create(r) PROVE TypeOK'
    BY <2>2, SppChangesTyped DEF Create, TypeOK, stateVars, fileVars, runVars
  <2>3. ASSUME NEW r \in Ids, Change(r) PROVE TypeOK'
    <3>1. version' \in [Ids -> Nat] /\ deleted' = deleted /\ SppChanges(r)
      BY <2>3 DEF Change, TypeOK
    <3>. QED BY <3>1, SppChangesTyped DEF TypeOK, stateVars, fileVars, runVars
  <2>4. ASSUME NEW r \in Ids, Delete(r) PROVE TypeOK'
    BY <2>4, SppChangesTyped DEF Delete, TypeOK, stateVars, fileVars, runVars
  <2>5. ASSUME NEW r \in Ids, Index(r) PROVE TypeOK'
    BY <2>5 DEF Index, TypeOK, stateVars, fileVars, runVars, faultVars
  <2>. QED BY <1>2, <2>1, <2>2, <2>3, <2>4, <2>5 DEF Spp
<1>3. CASE Begin
  <2>1. work' \in Backfill
    BY <1>3 DEF Begin, TypeOK, StartedOn, Backfill
  <2>2. ids' \subseteq Ids
    BY <1>3, <2>1 DEF Begin, TypeOK, Loaded
  <2>3. watermark' \in Int
    BY <1>3 DEF Begin, TypeOK, WatermarkOf, EPOCH_START, WATERMARK_OVERLAP_DAYS
  <2>. QED BY <1>3, <2>1, <2>2, <2>3
           DEF Begin, TypeOK, PCs, sppVars, stateVars, fileVars, faultVars
<1>4. CASE DeletedIdsPage
  <2>1. work' \in Backfill
    BY <1>4, DeletedIdsPageWork
  <2>2. ids' \subseteq Ids
    BY <1>4 DEF DeletedIdsPage, TypeOK, Page, Matching
  <2>. QED BY <1>4, <2>1, <2>2
           DEF DeletedIdsPage, TypeOK, PCs,
           sppVars, stateVars, fileVars, faultVars
<1>5. CASE DeletedIdsOutOfTime
  BY <1>5 DEF DeletedIdsOutOfTime, TypeOK, PCs,
           sppVars, stateVars, fileVars, faultVars
<1>6. CASE SaveDeletedIds
  BY <1>6 DEF SaveDeletedIds, TypeOK, PCs, sppVars, stateVars, faultVars
<1>7. CASE LoadDeletedIds
  BY <1>7 DEF LoadDeletedIds, TypeOK, Loaded, PCs,
           sppVars, stateVars, fileVars, faultVars
<1>8. CASE FieldDataPage
  <2>1. batch' \in [Ids -> Seq(Row)]
    BY <1>8, FieldDataPageWork
  <2>2. work' \in Backfill
    BY <1>8, FieldDataPageWork
  <2>3. pc' \in PCs
    BY <1>8 DEF FieldDataPage, TypeOK, PCs, IsLastPage
  <2>4. pages' \in Nat /\ after' \in {"fields", "checkpoint", "complete"}
    BY <1>8 DEF FieldDataPage, TypeOK
  <2>5. UNCHANGED <<watermark, ids, snapshot,
                    sppVars, stateVars, fileVars, faultVars>>
    BY <1>8 DEF FieldDataPage
  <2>. QED BY <2>1, <2>2, <2>3, <2>4, <2>5
           DEF TypeOK, sppVars, stateVars, fileVars, faultVars
<1>9. CASE FieldDataOutOfTime
  BY <1>9 DEF FieldDataOutOfTime, TypeOK, PCs,
           sppVars, stateVars, fileVars, faultVars
<1>10. CASE MergeRead
  BY <1>10 DEF MergeRead, TypeOK, PCs, sppVars, stateVars, fileVars, faultVars
<1>11. CASE MergeWrite
  <2>1. csv' \in [Ids -> Seq(Row)]
    BY <1>11 DEF MergeWrite, TypeOK
  <2>. QED BY <1>11, <2>1
           DEF MergeWrite, TypeOK, PCs, Nothing, sppVars, stateVars, faultVars
<1>12. CASE Checkpoint
  BY <1>12, EndsTyped DEF Checkpoint, TypeOK, sppVars, fileVars, faultVars
<1>13. CASE Complete
  BY <1>13, EndsTyped DEF Complete, TypeOK, Backfill,
           sppVars, fileVars, faultVars
<1>14. CASE Crash
  BY <1>14, EndsTyped DEF Crash, TypeOK, sppVars, stateVars, fileVars
<1>15. CASE DeletedIdsError
  <2>1. work' \in Backfill /\ missed' \subseteq Ids /\ faults' \in Nat
    BY <1>15, DeletedIdsErrorWork
  <2>2. pc' \in PCs
    BY <1>15 DEF DeletedIdsError, PCs
  <2>3. UNCHANGED <<watermark, ids, batch, pages, snapshot, after,
                    sppVars, stateVars, fileVars>>
    BY <1>15 DEF DeletedIdsError
  <2>. QED BY <2>1, <2>2, <2>3 DEF TypeOK, sppVars, stateVars, fileVars
<1>16. CASE FieldDataError
  <2>1. work' \in Backfill /\ missed' \subseteq Ids /\ faults' \in Nat
    BY <1>16, FieldDataErrorWork
  <2>2. /\ pc' \in PCs /\ pages' \in Nat
        /\ after' \in {"fields", "checkpoint", "complete"}
    BY <1>16 DEF FieldDataError, TypeOK, PCs
  <2>3. UNCHANGED <<watermark, ids, batch, snapshot,
                    sppVars, stateVars, fileVars>>
    BY <1>16 DEF FieldDataError
  <2>. QED BY <2>1, <2>2, <2>3 DEF TypeOK, sppVars, stateVars, fileVars
<1>. QED BY <1>1, <1>2, <1>3, <1>4, <1>5, <1>6, <1>7, <1>8, <1>9, <1>10, <1>11,
            <1>12, <1>13, <1>14, <1>15, <1>16 DEF Next, Sync, Faults

\* Every reachable state of the sync has its type.
THEOREM TypeCorrect == Spec => []TypeOK
  BY InitTyped, NextTyped, PTL DEF Spec

-----------------------------------------------------------------------------
(* The inductive invariant holds initially. *)

LEMMA InitIInv == Init => IInv
<1>. SUFFICES ASSUME Init PROVE IInv
  OBVIOUS
<1>. USE ConstantsAssumption
<1>1. TypeOK
  BY InitTyped
<1>2. SppInv
  BY DEF Init, SppInv, Exists, NotIndexed, WATERMARK_OVERLAP_DAYS
<1>3. TimeInv
  BY DEF Init, TimeInv
<1>4. DeletedInv
  BY RangeOfEmpty DEF Init, DeletedInv, Loaded, Nothing
<1>5. IdsInv
  BY DEF Init, IdsInv
<1>6. FieldsInv
  BY DEF Init, FieldsInv
<1>7. StaleIsDue
  BY DEF Init, StaleIsDue, WatermarkOf, EPOCH_START
<1>. QED BY <1>1, <1>2, <1>3, <1>4, <1>5, <1>6, <1>7 DEF IInv

-----------------------------------------------------------------------------
(* What people do to the records, as far as a running sync is concerned. *)

\* Nothing about r changes but, perhaps, what the filter knows of it.
Untouched(r) ==
  /\ updated'[r] = updated[r]
  /\ version'[r] = version[r]
  /\ r \in deleted' <=> r \in deleted
  /\ r \in missed' <=> r \in missed

LEMMA UntouchedTruth ==
  ASSUME NEW r \in Ids, Untouched(r)
  PROVE  Truth(r)' = Truth(r) /\ Exists(r)' = Exists(r)
<1>1. (r \in deleted') = (r \in deleted)
  BY DEF Untouched
<1>2. version'[r] = version[r]
  BY DEF Untouched
<1>. QED BY <1>1, <1>2, Zenon DEF Truth, Exists

\* Each step touches at most one record, today.
LEMMA SppTouches ==
  ASSUME TypeOK, SppInv, Spp
  PROVE  /\ UNCHANGED <<stateVars, fileVars, runVars>>
         /\ today <= today'
         /\ deleted \subseteq deleted'
         /\ \A r \in Ids :
              \/ Untouched(r) /\ indexed'[r] = indexed[r]
              \/ /\ Untouched(r)
                 /\ updated[r] >= today - FilterLag
                 /\ indexed[r] <= updated[r]
                 /\ indexed'[r] = updated[r]
                 /\ today' = today
              \/ /\ updated'[r] = today
                 /\ today' = today
                 /\ version'[r] > 0
                 /\ indexed'[r] = indexed[r]
         /\ \A r \in Ids :
              Exists(r) /\ indexed'[r] # updated[r] /\ today' # today =>
                today' - updated[r] <= FilterLag
<1>. USE ConstantsAssumption
<1>1. CASE Tick
  BY <1>1 DEF Tick, TypeOK, Untouched, faultVars
<1>2. ASSUME NEW q \in Ids, Create(q) \/ Change(q) \/ Delete(q)
      PROVE  /\ UNCHANGED <<today, indexed, stateVars, fileVars, runVars>>
             /\ updated' = [updated EXCEPT ![q] = today]
             /\ deleted \subseteq deleted'
             /\ \A r \in Ids \ {q} : r \in deleted' <=> r \in deleted
             /\ \A r \in Ids \ {q} : r \in missed' <=> r \in missed
  BY <1>2 DEF Create, Change, Delete, SppChanges
<1>3. ASSUME NEW q \in Ids, Create(q) \/ Change(q) \/ Delete(q)
      PROVE  /\ version'[q] > 0
             /\ \A r \in Ids \ {q} : version'[r] = version[r]
  BY <1>3 DEF Create, Change, Delete, Exists, TypeOK
<1>4. ASSUME NEW q \in Ids, Create(q) \/ Change(q) \/ Delete(q),
             NEW r \in Ids
      PROVE  \/ Untouched(r) /\ indexed'[r] = indexed[r]
             \/ /\ updated'[r] = today
                /\ today' = today
                /\ version'[r] > 0
                /\ indexed'[r] = indexed[r]
  BY <1>2, <1>3, <1>4 DEF TypeOK, Untouched
<1>5. ASSUME NEW q \in Ids, Index(q)
      PROVE  /\ UNCHANGED <<today, version, deleted, updated, missed>>
             /\ UNCHANGED <<stateVars, fileVars, runVars>>
             /\ indexed' = [indexed EXCEPT ![q] = updated[q]]
             /\ updated[q] >= today - FilterLag
             /\ indexed[q] <= updated[q]
  BY <1>5 DEF Index, SppInv, faultVars
<1>6. ASSUME NEW q \in Ids, Index(q), NEW r \in Ids
      PROVE  \/ Untouched(r) /\ indexed'[r] = indexed[r]
             \/ /\ Untouched(r)
                /\ updated[r] >= today - FilterLag
                /\ indexed[r] <= updated[r]
                /\ indexed'[r] = updated[r]
                /\ today' = today
  BY <1>5, <1>6 DEF TypeOK, Untouched
<1>7. today \in Int
  BY DEF TypeOK
<1>8. CASE \E q \in Ids : Create(q) \/ Change(q) \/ Delete(q)
  BY <1>2, <1>4, <1>7, <1>8
<1>9. CASE \E q \in Ids : Index(q)
  BY <1>5, <1>6, <1>7, <1>9
<1>. QED BY <1>1, <1>8, <1>9, Zenon DEF Spp

\* The times are integers.
LEMMA TimesAreInts ==
  ASSUME TypeOK
  PROVE  /\ today \in Nat
         /\ \A r \in Ids : updated[r] \in Nat
         /\ \A r \in Ids : indexed[r] \in Int
         /\ \A r \in Ids : version[r] \in Nat
         /\ FilterLag \in Nat
<1>1. NotIndexed \in Int /\ Nat \subseteq Int /\ FilterLag \in Nat
  BY ConstantsAssumption DEF NotIndexed, WATERMARK_OVERLAP_DAYS
<1>2. indexed \in [Ids -> Nat \union {NotIndexed}]
  BY DEF TypeOK
<1>3. \A r \in Ids : indexed[r] \in Int
  BY <1>1, <1>2
<1>. QED BY <1>1, <1>3 DEF TypeOK

LEMMA TimesStayInts ==
  ASSUME TypeOK'
  PROVE  /\ today' \in Nat
         /\ \A r \in Ids : updated'[r] \in Nat
         /\ \A r \in Ids : indexed'[r] \in Int
         /\ \A r \in Ids : version'[r] \in Nat
<1>1. NotIndexed \in Int /\ Nat \subseteq Int
  BY DEF NotIndexed, WATERMARK_OVERLAP_DAYS
<1>2. indexed' \in [Ids -> Nat \union {NotIndexed}]
  BY DEF TypeOK
<1>3. \A r \in Ids : indexed'[r] \in Int
  BY <1>1, <1>2
<1>. QED BY <1>1, <1>3 DEF TypeOK

\* The state of SPP stays consistent.
LEMMA SppInvKept ==
  ASSUME TypeOK, SppInv, Spp, TypeOK'
  PROVE  SppInv'
<1>1. ASSUME NEW r \in Ids
      PROVE  /\ updated'[r] <= today'
             /\ indexed'[r] <= updated'[r]
             /\ version'[r] > 0 /\ indexed'[r] # updated'[r] =>
                  updated'[r] >= today' - FilterLag
  <2>1. /\ updated[r] <= today
        /\ indexed[r] <= updated[r]
        /\ version[r] > 0 /\ indexed[r] # updated[r] =>
             updated[r] >= today - FilterLag
    BY DEF SppInv, Exists
  <2>2. version[r] > 0 /\ indexed'[r] # updated[r] /\ today' # today =>
          today' - updated[r] <= FilterLag
    BY SppTouches DEF Exists
  <2>3. CASE Untouched(r) /\ indexed'[r] = indexed[r]
    BY <2>1, <2>2, <2>3, SppTouches, TimesAreInts, TimesStayInts DEF Untouched
  <2>4. CASE Untouched(r) /\ indexed'[r] = updated[r] /\ today' = today
    BY <2>1, <2>4, TimesAreInts DEF Untouched
  <2>5. CASE updated'[r] = today /\ today' = today /\ indexed'[r] = indexed[r]
    BY <2>1, <2>5, TimesAreInts
  <2>. QED BY <2>3, <2>4, <2>5, SppTouches
<1>2. ASSUME NEW r \in Ids, r \in deleted'
      PROVE  version'[r] > 0
  BY <1>2, SppTouches DEF SppInv, Exists, Untouched
<1>. QED BY <1>1, <1>2 DEF SppInv, Exists

\* A record that is changed is changed today.
LEMMA SppChangesToday ==
  ASSUME TypeOK, SppInv, Spp, TypeOK', NEW r \in Ids
  PROVE  /\ updated[r] <= updated'[r]
         /\ Exists(r) => Exists(r)'
         /\ \/ updated'[r] = today'
            \/ /\ updated'[r] = updated[r]
               /\ Truth(r)' = Truth(r)
               /\ Exists(r)' = Exists(r)
               /\ r \in missed' <=> r \in missed
<1>1. Untouched(r) \/ /\ updated'[r] = today /\ today' = today
                      /\ version'[r] > 0
  BY SppTouches
<1>2. updated[r] <= today /\ updated[r] \in Nat
  BY TimesAreInts DEF SppInv
<1>3. CASE Untouched(r)
  <2>1. updated'[r] = updated[r]
    BY <1>3 DEF Untouched
  <2>2. Truth(r)' = Truth(r) /\ Exists(r)' = Exists(r)
    BY <1>3, UntouchedTruth
  <2>3. updated[r] <= updated'[r]
    BY <1>2, <2>1
  <2>4. r \in missed' <=> r \in missed
    BY <1>3 DEF Untouched
  <2>. QED BY <2>1, <2>2, <2>3, <2>4, Zenon
<1>4. CASE updated'[r] = today /\ today' = today /\ version'[r] > 0
  <2>1. updated[r] <= updated'[r] /\ updated'[r] = today'
    BY <1>2, <1>4
  <2>2. Exists(r) => Exists(r)'
    BY <1>4 DEF Exists
  <2>3. updated[r] <= updated'[r]
    BY <2>1
  <2>4. updated'[r] = today'
    BY <2>1
  <2>. QED BY <2>2, <2>3, <2>4, Zenon
<1>. QED BY <1>1, <1>3, <1>4, Zenon

\* A listing only grows, and by what was changed lately.
LEMMA SppListing ==
  ASSUME TypeOK, SppInv, Spp, TypeOK', NEW d \in Int
  PROVE  /\ Matching(d) \subseteq Matching(d)'
         /\ \A r \in Matching(d)' :
              /\ r \in Matching(d) \/ updated'[r] >= today' - FilterLag
              /\ r \in deleted' =>
                   r \in deleted \/ updated'[r] >= today' - FilterLag
<1>1. ASSUME NEW r \in Ids, version[r] > 0, indexed[r] >= d
      PROVE  version'[r] > 0 /\ indexed'[r] >= d
  <2>1. \/ version'[r] = version[r] /\ indexed'[r] = indexed[r]
        \/ /\ version'[r] = version[r]
           /\ indexed[r] <= updated[r] /\ indexed'[r] = updated[r]
        \/ version'[r] > 0 /\ indexed'[r] = indexed[r]
    BY SppTouches DEF Untouched
  <2>. QED BY <1>1, <2>1, TimesAreInts
<1>2. ASSUME NEW r \in Ids
      PROVE  \/ /\ version'[r] = version[r] /\ indexed'[r] = indexed[r]
                /\ r \in deleted' <=> r \in deleted
             \/ /\ updated'[r] >= today' - FilterLag
                /\ r \in deleted' <=> r \in deleted
             \/ updated'[r] >= today' - FilterLag
  <2>1. CASE Untouched(r) /\ indexed'[r] = indexed[r]
    BY <2>1 DEF Untouched
  <2>2. CASE Untouched(r) /\ updated[r] >= today - FilterLag /\ today' = today
    BY <2>2 DEF Untouched
  <2>3. CASE updated'[r] = today /\ today' = today
    BY <2>3, TimesAreInts
  <2>. QED BY <2>1, <2>2, <2>3, SppTouches
<1>. QED BY <1>1, <1>2 DEF Matching, Exists

\* The listing the sync pages through, and its deleted part.
Listing == Matching(WatermarkOf(last))
DeletedListing == Listing \intersect deleted

LEMMA WatermarkIsInt ==
  ASSUME TypeOK
  PROVE  /\ WatermarkOf(last) \in Int
         /\ last \in Nat => WatermarkOf(last) = last - 2
         /\ last = NoTime => WatermarkOf(last) = 0
         /\ last \in Nat <=> last # NoTime
  BY ConstantsAssumption
  DEF TypeOK, WatermarkOf, EPOCH_START, WATERMARK_OVERLAP_DAYS

LEMMA ListingsAreIds ==
  /\ Listing \subseteq Ids /\ Listing' \subseteq Ids
  /\ DeletedListing \subseteq Listing /\ DeletedListing' \subseteq Listing'
  BY DEF Listing, DeletedListing, Matching

\* What the listing is, once people have done something.
LEMMA SppListings ==
  ASSUME TypeOK, SppInv, Spp, TypeOK'
  PROVE  /\ Listing \subseteq Listing'
         /\ DeletedListing \subseteq DeletedListing'
         /\ \A r \in Listing' :
              r \in Listing \/ updated'[r] >= today' - FilterLag
         /\ \A r \in DeletedListing' :
              r \in DeletedListing \/ updated'[r] >= today' - FilterLag
<1>1. last' = last
  BY SppTouches DEF stateVars
<1>2. PICK d \in Int : d = WatermarkOf(last)
  BY WatermarkIsInt
<1>3. d = WatermarkOf(last)'
  BY <1>1, <1>2 DEF WatermarkOf
<1>4. Listing = Matching(d) /\ Listing' = Matching(d)'
  BY <1>2, <1>3 DEF Listing, Matching
<1>5. deleted \subseteq deleted'
  BY SppTouches
<1>. QED BY <1>4, <1>5, SppListing DEF DeletedListing

\* What the first phase has seen stays seen.
LEMMA SppDeletedSeen ==
  ASSUME TypeOK, SppInv, Spp, TypeOK',
         NEW b \in Backfill, NEW S, b.commitWatermark <= today, DeletedSeen(b, S)
  PROVE  \A r \in DeletedListing' :
           b.deletedIdsDone \/ Before(DeletedListing', r) < b.deletedIdsOffset =>
             \/ r \in S
             \/ updated'[r] >= b.commitWatermark - FilterLag
             \/ r \in missed'
<1>. SUFFICES ASSUME NEW r \in DeletedListing',
                     b.deletedIdsDone
                       \/ Before(DeletedListing', r) < b.deletedIdsOffset
              PROVE  \/ r \in S
                     \/ updated'[r] >= b.commitWatermark - FilterLag
                     \/ r \in missed'
  OBVIOUS
<1>1. r \in Ids
  BY ListingsAreIds
<1>2. b.commitWatermark \in Nat /\ b.deletedIdsOffset \in Nat
  BY DEF Backfill
<1>3. today <= today' /\ updated[r] <= updated'[r]
  BY <1>1, SppTouches, SppChangesToday
<1>4. CASE updated'[r] >= today' - FilterLag
  BY <1>1, <1>2, <1>3, <1>4, TimesAreInts, TimesStayInts
<1>5. CASE r \in DeletedListing
  <2>1. Before(DeletedListing, r) <= Before(DeletedListing', r)
        /\ Before(DeletedListing, r) \in Nat /\ Before(DeletedListing', r) \in Nat
    BY <1>1, ListingsAreIds, SppListings, BeforeGrows
  <2>2. b.deletedIdsDone \/ Before(DeletedListing, r) < b.deletedIdsOffset
    BY <1>2, <2>1
  <2>3. \/ r \in S
        \/ updated[r] >= b.commitWatermark - FilterLag
        \/ r \in missed
    BY <1>5, <2>2 DEF DeletedSeen, DeletedListing, Listing, Excused
  <2>4. CASE updated'[r] = today'
    BY <1>1, <1>2, <1>3, <2>4, TimesAreInts, TimesStayInts
  <2>5. CASE r \in missed' <=> r \in missed
    BY <1>1, <1>2, <1>3, <2>3, <2>5, TimesAreInts, TimesStayInts
  <2>. QED BY <1>1, <2>4, <2>5, SppChangesToday
<1>. QED BY <1>4, <1>5, SppListings

\* What is right of the second phase stays right, or was changed today.
LEMMA SppHolds ==
  ASSUME TypeOK, SppInv, Spp, TypeOK', NEW r \in Ids,
         NEW b \in Backfill, NEW rows, b.commitWatermark <= today,
         Holds(rows, r) \/ Excused(r, b)
  PROVE  \/ Range(rows[r]) = {Truth(r)'}
         \/ updated'[r] >= b.commitWatermark - FilterLag
         \/ r \in missed'
<1>1. today <= today' /\ updated[r] <= updated'[r]
  BY SppTouches, SppChangesToday
<1>2. b.commitWatermark \in Nat
  BY DEF Backfill
<1>3. CASE Excused(r, b) /\ (r \in missed' <=> r \in missed)
  BY <1>1, <1>2, <1>3, TimesAreInts, TimesStayInts DEF Excused
<1>4. CASE updated'[r] = today'
  BY <1>1, <1>2, <1>4, TimesAreInts, TimesStayInts
<1>5. CASE Holds(rows, r) /\ Truth(r)' = Truth(r)
  BY <1>5 DEF Holds
<1>. QED BY <1>3, <1>4, <1>5, SppChangesToday

LEMMA SppFieldsSeen ==
  ASSUME TypeOK, SppInv, Spp, TypeOK',
         NEW b \in Backfill, NEW rows, b.commitWatermark <= today,
         FieldsSeen(b, rows)
  PROVE  \A r \in Listing' :
           Before(Listing', r) < b.fieldOffset =>
             \/ Range(rows[r]) = {Truth(r)'}
             \/ updated'[r] >= b.commitWatermark - FilterLag
             \/ r \in missed'
<1>. SUFFICES ASSUME NEW r \in Listing',
                     Before(Listing', r) < b.fieldOffset
              PROVE  \/ Range(rows[r]) = {Truth(r)'}
                     \/ updated'[r] >= b.commitWatermark - FilterLag
                     \/ r \in missed'
  OBVIOUS
<1>1. r \in Ids
  BY ListingsAreIds
<1>2. b.commitWatermark \in Nat /\ b.fieldOffset \in Nat /\ today <= today'
  BY SppTouches DEF Backfill
<1>3. CASE updated'[r] >= today' - FilterLag
  BY <1>1, <1>2, <1>3, TimesAreInts, TimesStayInts
<1>4. CASE r \in Listing
  <2>1. Before(Listing, r) <= Before(Listing', r)
        /\ Before(Listing, r) \in Nat /\ Before(Listing', r) \in Nat
    BY <1>1, ListingsAreIds, SppListings, BeforeGrows
  <2>2. Before(Listing, r) < b.fieldOffset
    BY <1>2, <2>1
  <2>3. Holds(rows, r) \/ Excused(r, b)
    BY <1>4, <2>2 DEF FieldsSeen, Listing
  <2>. QED BY <1>1, <2>3, SppHolds
<1>. QED BY <1>3, <1>4, SppListings

-----------------------------------------------------------------------------
(* The steps of the sync leave SPP alone. *)

LEMMA RunLeavesSpp ==
  ASSUME Sync \/ Faults
  PROVE  UNCHANGED sppVars
  BY DEF Sync, Faults, Crash, Begin, DeletedIdsPage, DeletedIdsOutOfTime,
         SaveDeletedIds, LoadDeletedIds, FieldDataPage, FieldDataOutOfTime,
         MergeRead, MergeWrite, Checkpoint, Complete, DeletedIdsError,
         FieldDataError

\* What an error hid stays on record.
LEMMA MissedGrows ==
  ASSUME Sync \/ Faults
  PROVE  missed \subseteq missed'
<1>1. CASE DeletedIdsError \/ FieldDataError
  BY <1>1, Zenon DEF DeletedIdsError, FieldDataError, Embedded
<1>2. CASE Sync \/ Crash
  <2>1. missed' = missed
    BY <1>2
    DEF Sync, Crash, Begin, DeletedIdsPage, DeletedIdsOutOfTime,
        SaveDeletedIds, LoadDeletedIds, FieldDataPage, FieldDataOutOfTime,
        MergeRead, MergeWrite, Checkpoint, Complete, faultVars
  <2>. QED BY <2>1
<1>. QED BY <1>1, <1>2 DEF Faults

LEMMA SameSpp ==
  ASSUME UNCHANGED sppVars
  PROVE  /\ SppInv => SppInv'
         /\ \A r : Truth(r)' = Truth(r)
         /\ \A r : Exists(r)' = Exists(r)
         /\ \A d : Matching(d)' = Matching(d)
         /\ updated' = updated /\ deleted' = deleted /\ today' = today
<1>1. /\ today' = today /\ version' = version /\ deleted' = deleted
      /\ updated' = updated /\ indexed' = indexed
  BY DEF sppVars
<1>2. \A r : Truth(r)' = Truth(r)
  BY <1>1, Zenon DEF Truth
<1>3. \A r : Exists(r)' = Exists(r)
  BY <1>1, Zenon DEF Exists
<1>4. \A d : Matching(d)' = Matching(d)
  BY <1>1, <1>3, Zenon DEF Matching
<1>5. SppInv => SppInv'
  BY <1>1, <1>3 DEF SppInv
<1>. QED BY <1>1, <1>2, <1>3, <1>4, <1>5

\* Only the first step of an invocation and its end touch the two days.
LEMMA SameDays ==
  ASSUME TypeOK,
         \/ DeletedIdsPage \/ DeletedIdsOutOfTime \/ SaveDeletedIds
         \/ LoadDeletedIds \/ FieldDataPage \/ FieldDataOutOfTime
         \/ MergeRead \/ MergeWrite \/ DeletedIdsError \/ FieldDataError
  PROVE  /\ pc # "idle"
         /\ last' = last /\ backfill' = backfill /\ watermark' = watermark
         /\ work'.commitWatermark = work.commitWatermark
<1>1. CASE DeletedIdsPage
  BY <1>1, DeletedIdsPageWork DEF DeletedIdsPage, stateVars
<1>2. CASE FieldDataPage
  BY <1>2, FieldDataPageWork DEF FieldDataPage, stateVars
<1>3. CASE DeletedIdsError
  BY <1>3, DeletedIdsErrorWork DEF DeletedIdsError, stateVars
<1>4. CASE FieldDataError
  BY <1>4, FieldDataErrorWork DEF FieldDataError, stateVars
<1>. QED BY <1>1, <1>2, <1>3, <1>4
         DEF DeletedIdsOutOfTime, SaveDeletedIds, LoadDeletedIds,
             FieldDataOutOfTime, MergeRead, MergeWrite, stateVars

-----------------------------------------------------------------------------
(* The days a sync starts from and commits to. *)

LEMMA TimeInvKept ==
  ASSUME TypeOK, TimeInv, SppInv, Next, TypeOK'
  PROVE  TimeInv'
<1>. USE ConstantsAssumption
<1>1. CASE Spp
  <2>1. UNCHANGED <<last, backfill, pc, work, watermark>> /\ today <= today'
    BY <1>1, SppTouches DEF stateVars, runVars
  <2>2. today \in Nat /\ today' \in Nat
    BY TimesAreInts, TimesStayInts
  <2>3. /\ last # NoTime => last \in Nat
        /\ work.commitWatermark \in Nat
        /\ backfill # NoBackfill => backfill.commitWatermark \in Nat
    BY DEF TypeOK, Backfill
  <2>. QED BY <2>1, <2>2, <2>3 DEF TimeInv, Committing, WatermarkOf
<1>2. CASE Begin
  <2>1. UNCHANGED <<last, backfill, today>> /\ watermark' = WatermarkOf(last)
    BY <1>2 DEF Begin, stateVars, sppVars
  <2>2. CASE backfill = NoBackfill
    <3>1. work'.commitWatermark = today
      BY <1>2, <2>2 DEF Begin, StartedOn
    <3>. QED BY <2>1, <2>2, <3>1, TimesAreInts
             DEF TimeInv, Committing, WatermarkOf
  <2>3. CASE backfill # NoBackfill
    <3>1. work' = backfill
      BY <1>2, <2>3 DEF Begin
    <3>. QED BY <2>1, <2>3, <3>1 DEF TimeInv, Committing, WatermarkOf
  <2>. QED BY <2>2, <2>3
<1>3. CASE Checkpoint
  BY <1>3 DEF Checkpoint, Ends, TimeInv, Committing, sppVars
<1>4. CASE Complete
  BY <1>4 DEF Complete, Ends, TimeInv, Committing, sppVars
<1>5. CASE Crash
  BY <1>5 DEF Crash, Ends, TimeInv, Committing, sppVars, stateVars
<1>6. CASE \/ DeletedIdsPage \/ DeletedIdsOutOfTime \/ SaveDeletedIds
           \/ LoadDeletedIds \/ FieldDataPage \/ FieldDataOutOfTime
           \/ MergeRead \/ MergeWrite \/ DeletedIdsError \/ FieldDataError
  <2>1. today' = today
    BY <1>6, RunLeavesSpp DEF Sync, Faults, sppVars
  <2>. QED BY <1>6, <2>1, SameDays DEF TimeInv, Committing, WatermarkOf
<1>. QED BY <1>1, <1>2, <1>3, <1>4, <1>5, <1>6 DEF Next, Sync, Faults

-----------------------------------------------------------------------------
(* Nothing is said to be deleted that is not. *)

LEMMA DeletedInvKept ==
  ASSUME TypeOK, DeletedInv, SppInv, Next, TypeOK'
  PROVE  DeletedInv'
<1>. DEFINE Fine(rows) == \A r \in Ids \ deleted :
                            \A row \in Range(rows[r]) : ~row.deleted
<1>1. Fine(csv) /\ Fine(batch) /\ Fine(snapshot)
  BY DEF DeletedInv
<1>2. Fine(Nothing)
  BY RangeOfEmpty DEF Nothing
<1>3. SUFFICES /\ ids' \subseteq deleted'
               /\ Loaded' \subseteq deleted'
               /\ Fine(csv') /\ Fine(batch') /\ Fine(snapshot')
               /\ deleted \subseteq deleted'
  BY DEF DeletedInv
<1>. HIDE DEF Fine
<1>4. CASE Spp
  <2>1. UNCHANGED <<ids, idsFile, csv, batch, snapshot>>
        /\ deleted \subseteq deleted'
    BY <1>4, SppTouches DEF fileVars, runVars
  <2>. QED BY <1>1, <2>1 DEF DeletedInv, Loaded
<1>5. ASSUME Sync \/ Faults PROVE deleted' = deleted
  BY <1>5, RunLeavesSpp DEF sppVars
<1>6. CASE Begin
  BY <1>1, <1>5, <1>6 DEF Begin, DeletedInv, Loaded, fileVars, Sync
<1>7. CASE DeletedIdsPage
  <2>1. Page(Matching(watermark) \intersect deleted, work.deletedIdsOffset)
          \subseteq deleted
    BY DEF Page
  <2>. QED BY <1>1, <1>5, <1>7, <2>1
           DEF DeletedIdsPage, DeletedInv, Loaded, fileVars, Sync
<1>8. CASE SaveDeletedIds
  BY <1>1, <1>5, <1>8 DEF SaveDeletedIds, DeletedInv, Loaded, Sync
<1>9. CASE LoadDeletedIds
  BY <1>1, <1>5, <1>9 DEF LoadDeletedIds, DeletedInv, Loaded, fileVars, Sync
<1>10. CASE FieldDataPage
  <2>1. /\ batch' = [r \in Ids |->
                       IF r \in Page(Matching(watermark), work.fieldOffset)
                       THEN Append(batch[r], NewRow(r)) ELSE batch[r]]
        /\ \A r \in Ids : NewRow(r) \in Row /\ batch[r] \in Seq(Row)
    BY <1>10, FieldDataPageWork DEF TypeOK
  <2>2. ASSUME NEW r \in Ids \ deleted PROVE ~NewRow(r).deleted
    BY DEF NewRow, DeletedInv
  <2>3. ASSUME NEW r \in Ids \ deleted, NEW row \in Range(batch'[r])
        PROVE  ~row.deleted
    <3>1. row \in Range(batch[r]) \union {NewRow(r)}
      BY <2>1, <2>3, RangeOfAppend
    <3>2. CASE row \in Range(batch[r])
      BY <1>1, <3>2 DEF Fine
    <3>. QED BY <2>2, <3>1, <3>2
  <2>4. Fine(batch')
    BY <2>3 DEF Fine
  <2>5. UNCHANGED <<ids, idsFile, csv, snapshot>>
    BY <1>10 DEF FieldDataPage, fileVars
  <2>. QED BY <1>1, <1>5, <1>10, <2>4, <2>5 DEF DeletedInv, Loaded, Sync
<1>11. CASE DeletedIdsOutOfTime \/ FieldDataOutOfTime \/ MergeRead
  BY <1>1, <1>5, <1>11
  DEF DeletedIdsOutOfTime, FieldDataOutOfTime, MergeRead, DeletedInv, Loaded,
      fileVars, Sync
<1>12. CASE MergeWrite
  <2>1. csv' = [r \in Ids |-> IF batch[r] = <<>> THEN snapshot[r] ELSE batch[r]]
    BY <1>12 DEF MergeWrite
  <2>2. Fine(csv')
    BY <1>1, <2>1 DEF Fine
  <2>. QED BY <1>1, <1>2, <1>5, <1>12, <2>2
           DEF MergeWrite, DeletedInv, Loaded, Sync
<1>13. CASE Checkpoint \/ Complete \/ Crash
  BY <1>1, <1>2, <1>5, <1>13
  DEF Checkpoint, Complete, Crash, Ends, DeletedInv, Loaded, fileVars, Sync,
      Faults
<1>14. CASE DeletedIdsError \/ FieldDataError
  <2>1. UNCHANGED <<ids, batch, snapshot, fileVars>>
    BY <1>14 DEF DeletedIdsError, FieldDataError
  <2>. QED BY <1>1, <1>5, <1>14, <2>1 DEF DeletedInv, Loaded, fileVars, Faults
<1>. QED BY <1>4, <1>6, <1>7, <1>8, <1>9, <1>10, <1>11, <1>12, <1>13, <1>14
         DEF Next, Sync, Faults

-----------------------------------------------------------------------------
(* The deleted ids that are collected. *)

\* Every step of the sync leaves the listing alone, unless it completes.
LEMMA SameListing ==
  ASSUME Sync \/ Faults, last' = last
  PROVE  /\ Listing' = Listing /\ DeletedListing' = DeletedListing
         /\ updated' = updated /\ missed \subseteq missed'
<1>1. UNCHANGED sppVars
  BY RunLeavesSpp
<1>2. WatermarkOf(last)' = WatermarkOf(last)
  BY DEF WatermarkOf
<1>3. Listing' = Listing
  BY <1>1, <1>2, SameSpp, Zenon DEF Listing, Matching, Exists, sppVars
<1>4. deleted' = deleted /\ updated' = updated
  BY <1>1, SameSpp
<1>5. DeletedListing' = DeletedListing
  BY <1>3, <1>4, Zenon DEF DeletedListing
<1>. QED BY <1>3, <1>4, <1>5, MissedGrows

\* The invariant, unfolded once.
LEMMA DeletedSeenIs ==
  /\ \A b, S : DeletedSeen(b, S) <=>
       \A r \in DeletedListing :
         b.deletedIdsDone \/ Before(DeletedListing, r) < b.deletedIdsOffset =>
           \/ r \in S
           \/ updated[r] >= b.commitWatermark - FilterLag
           \/ r \in missed
  BY DEF DeletedSeen, DeletedListing, Listing, Excused

\* Whoever has seen more has seen enough.
LEMMA DeletedSeenMore ==
  ASSUME NEW b, NEW S, NEW T, S \subseteq T, DeletedSeen(b, S)
  PROVE  DeletedSeen(b, T)
  BY DeletedSeenIs

\* Who has passed nothing has seen enough.
LEMMA DeletedSeenNone ==
  ASSUME TypeOK, NEW b, NEW S, b.deletedIdsOffset = 0, ~b.deletedIdsDone
  PROVE  DeletedSeen(b, S)
<1>1. ASSUME NEW r \in DeletedListing
      PROVE  ~(Before(DeletedListing, r) < b.deletedIdsOffset)
  <2>1. Before(DeletedListing, r) \in Nat
    BY ListingsAreIds, BeforeGrows
  <2>. QED BY <2>1
<1>. QED BY <1>1, DeletedSeenIs

\* A page of the first phase adds what it passes.
LEMMA DeletedIdsPageSees ==
  ASSUME TypeOK, TimeInv, DeletedIdsPage, DeletedSeen(work, ids)
  PROVE  /\ DeletedListing = Matching(watermark) \intersect deleted
         /\ \A r \in DeletedListing :
              work'.deletedIdsDone
                \/ Before(DeletedListing, r) < work'.deletedIdsOffset =>
                  \/ r \in ids'
                  \/ updated[r] >= work.commitWatermark - FilterLag
                  \/ r \in missed
<1>1. DeletedListing = Matching(watermark) \intersect deleted
  BY DEF DeletedIdsPage, TimeInv, DeletedListing, Listing
<1>2. /\ ids' = ids \union Page(DeletedListing, work.deletedIdsOffset)
      /\ work'.deletedIdsOffset = work.deletedIdsOffset + PageSize
      /\ work'.deletedIdsDone = IsLastPage(DeletedListing, work.deletedIdsOffset)
  BY <1>1, DeletedIdsPageWork DEF DeletedIdsPage
<1>3. work.deletedIdsOffset \in Nat /\ PageSize \in Nat
  BY ConstantsAssumption DEF TypeOK, Backfill
<1>4. ASSUME NEW r \in DeletedListing,
             work'.deletedIdsDone
               \/ Before(DeletedListing, r) < work'.deletedIdsOffset
      PROVE  \/ r \in ids'
             \/ updated[r] >= work.commitWatermark - FilterLag
             \/ r \in missed
  <2>1. Before(DeletedListing, r) \in Nat
    BY ListingsAreIds, BeforeGrows
  <2>2. Before(DeletedListing, r) < work.deletedIdsOffset + PageSize
    <3>1. CASE work'.deletedIdsDone
      <4>1. DeletedListing \in SUBSET Ids
        BY ListingsAreIds
      <4>. QED BY <1>2, <1>3, <3>1, <4>1, LastPageEnds
    <3>. QED BY <1>2, <1>4, <3>1
  <2>3. CASE Before(DeletedListing, r) < work.deletedIdsOffset
    BY <1>2, <2>3, DeletedSeenIs
  <2>4. CASE work.deletedIdsOffset <= Before(DeletedListing, r)
    BY <1>2, <2>2, <2>4 DEF Page
  <2>. QED BY <1>3, <2>1, <2>3, <2>4
<1>. QED BY <1>1, <1>4

LEMMA IdsInvKept ==
  ASSUME TypeOK, TimeInv, SppInv, IdsInv, Next, TypeOK'
  PROVE  IdsInv'
<1>. USE ConstantsAssumption
<1>1. CASE Spp
  <2>1. /\ backfill' = backfill /\ pc' = pc /\ work' = work
        /\ ids' = ids /\ idsFile' = idsFile
    BY <1>1, SppTouches DEF stateVars, fileVars, runVars
  <2>2. Loaded' = Loaded
    BY <2>1 DEF Loaded
  <2>3. ASSUME backfill # NoBackfill PROVE DeletedSeen(backfill, Loaded)'
    <3>1. backfill \in Backfill /\ backfill.commitWatermark <= today
          /\ DeletedSeen(backfill, Loaded)
      BY <2>3 DEF TypeOK, TimeInv, Committing, IdsInv
    <3>. QED BY <1>1, <2>1, <2>2, <3>1, SppDeletedSeen
             DEF DeletedSeen, DeletedListing, Listing, Excused
  <2>4. ASSUME pc \in {"ids", "saveIds"} PROVE DeletedSeen(work, ids)'
    <3>1. work \in Backfill /\ work.commitWatermark <= today
          /\ DeletedSeen(work, ids)
      BY <2>4 DEF TypeOK, TimeInv, Committing, IdsInv
    <3>. QED BY <1>1, <2>1, <3>1, SppDeletedSeen
             DEF DeletedSeen, DeletedListing, Listing, Excused
  <2>5. ASSUME pc \in {"loadIds", "fields", "read", "write", "checkpoint"}
        PROVE  DeletedSeen(work, Loaded)'
    <3>1. work \in Backfill /\ work.commitWatermark <= today
          /\ DeletedSeen(work, Loaded)
      BY <2>5 DEF TypeOK, TimeInv, Committing, IdsInv
    <3>. QED BY <1>1, <2>1, <2>2, <3>1, SppDeletedSeen
             DEF DeletedSeen, DeletedListing, Listing, Excused
  <2>. QED BY <2>1, <2>2, <2>3, <2>4, <2>5 DEF IdsInv
<1>2. CASE Begin
  <2>1. /\ last' = last /\ backfill' = backfill /\ idsFile' = idsFile
        /\ work' = IF backfill = NoBackfill THEN StartedOn(today) ELSE backfill
        /\ pc' = IF work'.deletedIdsDone THEN "loadIds" ELSE "ids"
        /\ ids' = IF work'.deletedIdsOffset > 0 THEN Loaded ELSE {}
    BY <1>2 DEF Begin, stateVars, fileVars
  <2>2. Loaded' = Loaded
    BY <2>1 DEF Loaded
  <2>3. DeletedListing' = DeletedListing /\ updated' = updated
        /\ missed \subseteq missed'
    BY <1>2, <2>1, SameListing DEF Sync
  <2>4. backfill # NoBackfill => DeletedSeen(backfill, Loaded)
    BY DEF IdsInv
  <2>5. (backfill # NoBackfill => DeletedSeen(backfill, Loaded))'
    BY <2>1, <2>2, <2>3, <2>4
    DEF DeletedSeen, DeletedListing, Listing, Excused
  <2>6. CASE backfill = NoBackfill
    <3>1. work'.deletedIdsOffset = 0 /\ ~work'.deletedIdsDone
      BY <2>1, <2>6 DEF StartedOn
    <3>2. DeletedSeen(work', ids')
      BY <3>1, DeletedSeenNone
    <3>3. DeletedSeen(work, ids)'
      BY <2>3, <3>2 DEF DeletedSeen, DeletedListing, Listing, Excused
    <3>. QED BY <2>1, <2>5, <2>6, <3>1, <3>3 DEF IdsInv
  <2>7. CASE backfill # NoBackfill /\ backfill.deletedIdsDone
    <3>1. DeletedSeen(work, Loaded)'
      BY <2>1, <2>2, <2>3, <2>4, <2>7
      DEF DeletedSeen, DeletedListing, Listing, Excused
    <3>. QED BY <2>1, <2>5, <2>7, <3>1 DEF IdsInv
  <2>8. CASE backfill # NoBackfill /\ ~backfill.deletedIdsDone
    <3>1. work' = backfill /\ backfill.deletedIdsOffset \in Nat
      BY <2>1, <2>8 DEF TypeOK, Backfill
    <3>2. DeletedSeen(backfill, ids')
      <4>1. CASE backfill.deletedIdsOffset > 0
        BY <2>1, <2>4, <2>8, <3>1, <4>1
      <4>2. CASE backfill.deletedIdsOffset = 0
        BY <2>8, <4>2, DeletedSeenNone
      <4>. QED BY <3>1, <4>1, <4>2
    <3>3. DeletedSeen(work, ids)'
      BY <2>3, <3>1, <3>2 DEF DeletedSeen, DeletedListing, Listing, Excused
    <3>4. backfill.deletedIdsOffset > 0 => Loaded' \subseteq ids'
      BY <2>1, <2>2, <3>1
    <3>. QED BY <2>1, <2>5, <2>8, <3>1, <3>3, <3>4 DEF IdsInv
  <2>. QED BY <2>6, <2>7, <2>8
<1>3. CASE DeletedIdsPage
  <2>1. /\ last' = last /\ backfill' = backfill /\ idsFile' = idsFile
        /\ pc = "ids" /\ pc' \in {"ids", "saveIds"} /\ ids \subseteq ids'
    BY <1>3 DEF DeletedIdsPage, stateVars, fileVars
  <2>2. Loaded' = Loaded
    BY <2>1 DEF Loaded
  <2>3. DeletedListing' = DeletedListing /\ updated' = updated
        /\ missed \subseteq missed'
    BY <1>3, <2>1, SameListing DEF Sync
  <2>4. (backfill # NoBackfill => DeletedSeen(backfill, Loaded))'
    BY <2>1, <2>2, <2>3
    DEF IdsInv, DeletedSeen, DeletedListing, Listing, Excused
  <2>5. DeletedSeen(work, ids)
    BY <2>1 DEF IdsInv
  <2>6. work'.commitWatermark = work.commitWatermark
    BY <1>3, DeletedIdsPageWork
  <2>7. DeletedSeen(work, ids)'
    BY <1>3, <2>3, <2>5, <2>6, DeletedIdsPageSees
    DEF DeletedSeen, DeletedListing, Listing, Excused
  <2>. QED BY <2>1, <2>2, <2>4, <2>7 DEF IdsInv
<1>4. CASE SaveDeletedIds
  <2>1. /\ last' = last /\ backfill' = backfill /\ work' = work /\ ids' = ids
        /\ idsFile' = IF ids = {} THEN idsFile ELSE ids
        /\ pc = "saveIds"
        /\ pc' = IF work.deletedIdsDone THEN "loadIds" ELSE "checkpoint"
    BY <1>4 DEF SaveDeletedIds, stateVars
  <2>2. DeletedListing' = DeletedListing /\ updated' = updated
        /\ missed \subseteq missed'
    BY <1>4, <2>1, SameListing DEF Sync
  <2>3. ids # {} => Loaded' = ids
    <3>1. ids # NoFile
      BY DEF TypeOK
    <3>. QED BY <2>1, <3>1 DEF Loaded
  <2>4. ids = {} => Loaded' = Loaded
    BY <2>1 DEF Loaded
  <2>5. ids \subseteq Loaded'
    BY <2>3, <2>4
  <2>6. DeletedSeen(work, Loaded')
    BY <2>1, <2>5, DeletedSeenMore DEF IdsInv
  <2>7. ASSUME backfill # NoBackfill PROVE DeletedSeen(backfill, Loaded')
    <3>1. /\ DeletedSeen(backfill, Loaded) /\ ~backfill.deletedIdsDone
          /\ backfill.deletedIdsOffset > 0 => Loaded \subseteq ids
          /\ backfill.deletedIdsOffset \in Nat
      BY <2>1, <2>7 DEF IdsInv, TypeOK, Backfill
    <3>2. CASE backfill.deletedIdsOffset = 0
      BY <3>1, <3>2, DeletedSeenNone
    <3>3. CASE backfill.deletedIdsOffset > 0
      BY <2>3, <2>4, <3>1, <3>3, DeletedSeenMore
    <3>. QED BY <3>1, <3>2, <3>3
  <2>8. DeletedSeen(work, Loaded)'
    BY <2>1, <2>2, <2>6 DEF DeletedSeen, DeletedListing, Listing, Excused
  <2>9. (backfill # NoBackfill => DeletedSeen(backfill, Loaded))'
    BY <2>1, <2>2, <2>7 DEF DeletedSeen, DeletedListing, Listing, Excused
  <2>. QED BY <2>1, <2>8, <2>9 DEF IdsInv
<1>5. CASE \/ DeletedIdsOutOfTime \/ LoadDeletedIds \/ FieldDataPage
           \/ FieldDataOutOfTime \/ MergeRead \/ MergeWrite
           \/ FieldDataError
  <2>1. /\ last' = last /\ backfill' = backfill /\ idsFile' = idsFile
        /\ work'.commitWatermark = work.commitWatermark
    BY <1>5, SameDays
    DEF DeletedIdsOutOfTime, LoadDeletedIds, FieldDataPage, FieldDataOutOfTime,
        MergeRead, MergeWrite, FieldDataError, fileVars
  <2>2. /\ work'.deletedIdsDone = work.deletedIdsDone
        /\ work'.deletedIdsOffset = work.deletedIdsOffset
    BY <1>5, FieldDataPageWork, FieldDataErrorWork
    DEF DeletedIdsOutOfTime, LoadDeletedIds, FieldDataOutOfTime,
        MergeRead, MergeWrite
  <2>3. Loaded' = Loaded
    BY <2>1 DEF Loaded
  <2>4. DeletedListing' = DeletedListing /\ updated' = updated
        /\ missed \subseteq missed'
    BY <1>5, <2>1, SameListing DEF Sync, Faults
  <2>5. (backfill # NoBackfill => DeletedSeen(backfill, Loaded))'
    BY <2>1, <2>3, <2>4
    DEF IdsInv, DeletedSeen, DeletedListing, Listing, Excused
  <2>6. ASSUME DeletedSeen(work, Loaded) PROVE DeletedSeen(work, Loaded)'
    BY <2>1, <2>2, <2>3, <2>4, <2>6
    DEF DeletedSeen, DeletedListing, Listing, Excused
  <2>7. CASE DeletedIdsOutOfTime
    <3>1. pc = "ids" /\ pc' = "saveIds" /\ ids' = ids
      BY <2>7 DEF DeletedIdsOutOfTime
    <3>2. DeletedSeen(work, ids)
      BY <3>1 DEF IdsInv
    <3>3. DeletedSeen(work, ids)'
      BY <2>1, <2>2, <2>4, <3>1, <3>2
      DEF DeletedSeen, DeletedListing, Listing, Excused
    <3>. QED BY <2>1, <2>3, <2>5, <3>1, <3>3 DEF IdsInv
  <2>8. CASE ~DeletedIdsOutOfTime
    <3>1. /\ pc \in {"loadIds", "fields", "read", "write"}
          /\ pc' \in {"fields", "read", "write", "checkpoint", "complete"}
          /\ pc' \in {"fields", "read", "write"} => ids' = Loaded
      BY <1>5, <2>8
      DEF LoadDeletedIds, FieldDataPage, FieldDataOutOfTime, MergeRead,
          MergeWrite, FieldDataError, IdsInv, TypeOK
    <3>2. DeletedSeen(work, Loaded) /\ work.deletedIdsDone
      BY <3>1 DEF IdsInv
    <3>. QED BY <2>2, <2>3, <2>5, <2>6, <3>1, <3>2 DEF IdsInv
  <2>. QED BY <2>7, <2>8
<1>6. CASE Checkpoint
  <2>1. /\ last' = last /\ backfill' = work /\ idsFile' = idsFile /\ pc' = "idle"
        /\ pc = "checkpoint"
    BY <1>6 DEF Checkpoint, Ends, fileVars
  <2>2. Loaded' = Loaded
    BY <2>1 DEF Loaded
  <2>3. DeletedListing' = DeletedListing /\ updated' = updated
        /\ missed \subseteq missed'
    BY <1>6, <2>1, SameListing DEF Sync
  <2>4. DeletedSeen(backfill, Loaded)'
    BY <2>1, <2>2, <2>3 DEF IdsInv, DeletedSeen, DeletedListing, Listing, Excused
  <2>. QED BY <2>1, <2>4 DEF IdsInv
<1>7. CASE Complete
  BY <1>7 DEF Complete, Ends, IdsInv
<1>8. CASE Crash
  <2>1. /\ last' = last /\ backfill' = backfill /\ idsFile' = idsFile
        /\ pc' = "idle"
    BY <1>8 DEF Crash, Ends, fileVars, stateVars
  <2>2. Loaded' = Loaded
    BY <2>1 DEF Loaded
  <2>3. DeletedListing' = DeletedListing /\ updated' = updated
        /\ missed \subseteq missed'
    BY <1>8, <2>1, SameListing DEF Faults
  <2>4. (backfill # NoBackfill => DeletedSeen(backfill, Loaded))'
    BY <2>1, <2>2, <2>3
    DEF IdsInv, DeletedSeen, DeletedListing, Listing, Excused
  <2>. QED BY <2>1, <2>4 DEF IdsInv
<1>9. CASE DeletedIdsError
  <2>1. /\ last' = last /\ backfill' = backfill /\ idsFile' = idsFile
        /\ pc = "ids" /\ pc' = "saveIds" /\ ids' = ids
    BY <1>9 DEF DeletedIdsError, stateVars, fileVars
  <2>2. Loaded' = Loaded
    BY <2>1 DEF Loaded
  <2>3. DeletedListing' = DeletedListing /\ updated' = updated
        /\ missed \subseteq missed'
    BY <1>9, <2>1, SameListing DEF Faults
  <2>4. (backfill # NoBackfill => DeletedSeen(backfill, Loaded))'
    BY <2>1, <2>2, <2>3
    DEF IdsInv, DeletedSeen, DeletedListing, Listing, Excused
  <2>5. DeletedSeen(work, ids)
    BY <2>1 DEF IdsInv
  <2>6. DeletedListing = Matching(watermark) \intersect deleted
    BY <2>1 DEF TimeInv, DeletedListing, Listing
  <2>7. /\ work'.commitWatermark = work.commitWatermark
        /\ \A r \in DeletedListing :
             Before(DeletedListing, r) < work.deletedIdsOffset \/ r \in missed'
    BY <1>9, <2>6, DeletedIdsErrorWork
  <2>8. \A r \in DeletedListing :
          \/ r \in ids
          \/ updated[r] >= work.commitWatermark - FilterLag
          \/ r \in missed'
    BY <2>3, <2>5, <2>7, DeletedSeenIs
  <2>9. DeletedSeen(work, ids)'
    BY <2>1, <2>3, <2>7, <2>8
    DEF DeletedSeen, DeletedListing, Listing, Excused
  <2>. QED BY <2>1, <2>2, <2>4, <2>9 DEF IdsInv
<1>. QED BY <1>1, <1>2, <1>3, <1>4, <1>5, <1>6, <1>7, <1>8, <1>9
         DEF Next, Sync, Faults

-----------------------------------------------------------------------------
(* The records that are fetched and merged. *)

\* The row of r is right in rows, or r was changed too late for b.
Settled(rows, b, r) == Holds(rows, r) \/ Excused(r, b)

LEMMA FieldsSeenIs ==
  \A b, rows : FieldsSeen(b, rows) <=>
    \A r \in Listing : Before(Listing, r) < b.fieldOffset => Settled(rows, b, r)
  BY DEF FieldsSeen, Listing, Settled

\* What a step of the sync leaves of these two.
LEMMA SameSettled ==
  ASSUME Sync \/ Faults, last' = last
  PROVE  /\ Listing' = Listing
         /\ \A r : Truth(r)' = Truth(r)
         /\ updated' = updated
         /\ missed \subseteq missed'
  BY SameListing, RunLeavesSpp, SameSpp

\* Only the rows and the day committed to matter.
LEMMA SettledSame ==
  ASSUME NEW rows, NEW rows2, NEW b, NEW b2, NEW r, Settled(rows, b, r),
         rows2[r] = rows[r], b2.commitWatermark = b.commitWatermark
  PROVE  Settled(rows2, b2, r)
  BY DEF Settled, Holds, Excused

\* Without a batch, the view is the file.
LEMMA ViewOfNothing ==
  ASSUME TypeOK
  PROVE  /\ batch = Nothing => View = csv
         /\ \A r \in Ids : batch[r] = <<>> => View[r] = csv[r]
         /\ \A r \in Ids : batch[r] # <<>> => View[r] = batch[r]
<1>1. csv = [r \in Ids |-> csv[r]]
  BY DEF TypeOK
<1>2. ASSUME batch = Nothing PROVE View = [r \in Ids |-> csv[r]]
  BY <1>2 DEF View, Nothing
<1>. QED BY <1>1, <1>2 DEF View

\* The rows of a fetched page are right, unless the record changed too late.
LEMMA PageSettled ==
  ASSUME TypeOK, TimeInv, DeletedInv, IdsInv, FieldsInv, FieldDataPage,
         NEW r \in Listing, r \in Page(Listing, work.fieldOffset)
  PROVE  Settled(batch', work, r)
<1>1. r \in Ids /\ Listing = Matching(watermark) /\ pc = "fields"
  BY ListingsAreIds DEF FieldDataPage, TimeInv, Listing
<1>2. batch'[r] = Append(batch[r], NewRow(r)) /\ NewRow(r) \in Row
      /\ batch[r] \in Seq(Row)
  BY <1>1, FieldDataPageWork DEF TypeOK
<1>3. Range(batch'[r]) = Range(batch[r]) \union {NewRow(r)}
  BY <1>2, RangeOfAppend
<1>4. CASE (r \in ids) = (r \in deleted)
  <2>1. NewRow(r) = Truth(r)
    BY <1>4, Zenon DEF NewRow, Truth
  <2>2. CASE batch[r] = <<>>
    BY <1>3, <2>1, <2>2, RangeOfEmpty DEF Settled, Holds
  <2>3. CASE batch[r] # <<>>
    <3>1. Holds(batch, r) \/ Excused(r, work)
      BY <1>1, <2>3 DEF FieldsInv
    <3>2. CASE Holds(batch, r)
      BY <1>3, <2>1, <3>2 DEF Settled, Holds
    <3>. QED BY <3>1, <3>2 DEF Settled
  <2>. QED BY <2>2, <2>3
<1>5. CASE (r \in ids) # (r \in deleted)
  <2>1. r \in DeletedListing /\ r \notin ids
    BY <1>5 DEF DeletedInv, DeletedListing
  <2>2. DeletedSeen(work, ids) /\ work.deletedIdsDone
    BY <1>1 DEF IdsInv
  <2>3. Excused(r, work)
    BY <2>1, <2>2, DeletedSeenIs DEF Excused
  <2>. QED BY <2>3 DEF Settled
<1>. QED BY <1>4, <1>5

LEMMA FieldsInvSpp ==
  ASSUME TypeOK, TimeInv, SppInv, FieldsInv, Spp, TypeOK'
  PROVE  FieldsInv'
<1>1. /\ last' = last /\ backfill' = backfill /\ pc' = pc /\ work' = work
      /\ batch' = batch /\ csv' = csv /\ snapshot' = snapshot /\ after' = after
  BY SppTouches DEF stateVars, fileVars, runVars
<1>2. View' = View
  BY <1>1 DEF View
<1>3. ASSUME backfill # NoBackfill PROVE FieldsSeen(backfill, csv)'
  <2>1. backfill \in Backfill /\ backfill.commitWatermark <= today
        /\ FieldsSeen(backfill, csv)
    BY <1>3 DEF TypeOK, TimeInv, Committing, FieldsInv
  <2>. QED BY <1>1, <2>1, SppFieldsSeen
           DEF FieldsSeen, Listing, Holds, Excused
<1>4. ASSUME pc # "idle"
      PROVE  work \in Backfill /\ work.commitWatermark <= today
  BY <1>4 DEF TypeOK, TimeInv, Committing
<1>5. ASSUME pc # "idle" PROVE FieldsSeen(work, View)'
  <2>1. FieldsSeen(work, View)
    BY <1>5 DEF FieldsInv
  <2>. QED BY <1>1, <1>2, <1>4, <1>5, <2>1, SppFieldsSeen
           DEF FieldsSeen, Listing, Holds, Excused
<1>6. ASSUME pc # "idle", NEW r \in Ids, batch[r] # <<>>
      PROVE  (Holds(batch, r) \/ Excused(r, work))'
  <2>1. Holds(batch, r) \/ Excused(r, work)
    BY <1>6 DEF FieldsInv
  <2>. QED BY <1>1, <1>4, <1>6, <2>1, SppHolds DEF Holds, Excused
<1>7. ASSUME pc = "complete" \/ (pc \in {"read", "write"} /\ after = "complete"),
             NEW r \in Listing'
      PROVE  (Holds(View, r) \/ Excused(r, work))'
  <2>1. r \in Ids /\ pc # "idle"
    BY <1>7, ListingsAreIds
  <2>2. work.commitWatermark \in Nat /\ work.commitWatermark <= today
    BY <1>4, <2>1 DEF Backfill
  <2>3. CASE r \in Listing
    <3>1. Holds(View, r) \/ Excused(r, work)
      BY <1>7, <2>3 DEF FieldsInv, Listing
    <3>. QED BY <1>1, <1>2, <1>4, <2>1, <3>1, SppHolds DEF Holds, Excused
  <2>4. CASE updated'[r] >= today' - FilterLag
    <3>1. today <= today'
      BY SppTouches
    <3>2. updated'[r] >= work.commitWatermark - FilterLag
      BY <2>1, <2>2, <2>4, <3>1, TimesAreInts, TimesStayInts
    <3>. QED BY <1>1, <3>2 DEF Excused
  <2>. QED BY <2>3, <2>4, SppListings
<1>. QED BY <1>1, <1>3, <1>5, <1>6, <1>7 DEF FieldsInv, Listing

\* What is settled before a step of the sync is settled after it.
LEMMA RunSettled ==
  ASSUME Sync \/ Faults, last' = last
  PROVE  /\ \A b, rows, r : Settled(rows, b, r) =>
              \/ Range(rows[r]) = {Truth(r)'}
              \/ updated'[r] >= b.commitWatermark - FilterLag
              \/ r \in missed'
         /\ \A b, rows : FieldsSeen(b, rows) =>
              \A r \in Listing' : Before(Listing', r) < b.fieldOffset =>
                \/ Range(rows[r]) = {Truth(r)'}
                \/ updated'[r] >= b.commitWatermark - FilterLag
                \/ r \in missed'
<1>1. \A b, rows, r : Settled(rows, b, r) =>
        \/ Range(rows[r]) = {Truth(r)'}
        \/ updated'[r] >= b.commitWatermark - FilterLag
        \/ r \in missed'
  BY SameSettled DEF Settled, Holds, Excused
<1>. QED BY <1>1, SameSettled, FieldsSeenIs

LEMMA FieldsInvPage ==
  ASSUME TypeOK, TimeInv, DeletedInv, IdsInv, FieldsInv, FieldDataPage
  PROVE  FieldsInv'
<1>. DEFINE offset == work.fieldOffset
            fetched == Page(Listing, offset)
            done == IsLastPage(Listing, offset)
<1>1. Listing = Matching(watermark) /\ pc = "fields"
  BY DEF FieldDataPage, TimeInv, Listing
<1>2. /\ last' = last /\ backfill' = backfill /\ csv' = csv
      /\ snapshot' = snapshot
      /\ pc' = CASE done /\ batch' = Nothing -> "complete"
                 [] done /\ batch' # Nothing -> "read"
                 [] ~done -> IF pages' >= BatchPages THEN "read" ELSE "fields"
      /\ after' = IF done THEN "complete" ELSE "fields"
  BY <1>1 DEF FieldDataPage, stateVars, fileVars
<1>3. /\ work'.commitWatermark = work.commitWatermark
      /\ work'.fieldOffset = offset + PageSize
      /\ offset \in Nat /\ PageSize \in Nat
      /\ batch' = [r \in Ids |-> IF r \in fetched
                                 THEN Append(batch[r], NewRow(r)) ELSE batch[r]]
      /\ \A r \in Ids : NewRow(r) \in Row /\ batch[r] \in Seq(Row)
  BY <1>1, FieldDataPageWork, ConstantsAssumption DEF TypeOK, Backfill
<1>4. done \in BOOLEAN
  BY DEF IsLastPage
<1>5. fetched \subseteq Listing /\ Listing \in SUBSET Ids
  BY ListingsAreIds DEF Page
<1>6. ASSUME NEW r \in fetched PROVE Settled(batch', work, r)
  BY <1>5, PageSettled
<1>7. ASSUME NEW r \in Ids, r \notin fetched PROVE batch'[r] = batch[r]
  BY <1>3, <1>7
<1>8. ASSUME NEW r \in fetched PROVE batch'[r] # <<>>
  <2>1. batch'[r] = Append(batch[r], NewRow(r))
    BY <1>3, <1>5
  <2>. QED BY <1>3, <1>5, <2>1
<1>9. View' = [r \in Ids |-> IF batch'[r] = <<>> THEN csv[r] ELSE batch'[r]]
  BY <1>2 DEF View
<1>10. ASSUME NEW r \in fetched PROVE Settled(View', work, r)
  <2>1. View'[r] = batch'[r]
    BY <1>5, <1>8, <1>9
  <2>. QED BY <1>6, <2>1, SettledSame
<1>11. ASSUME NEW r \in Ids, r \notin fetched, Settled(View, work, r)
       PROVE  Settled(View', work, r)
  <2>1. View'[r] = View[r]
    BY <1>7, <1>9, <1>11 DEF View
  <2>. QED BY <1>11, <2>1, SettledSame
<1>12. FieldsSeen(work, View)
  BY <1>1 DEF FieldsInv
<1>13. ASSUME NEW r \in Listing, Before(Listing, r) < offset + PageSize
       PROVE  Settled(View', work, r)
  <2>1. Before(Listing, r) \in Nat
    BY <1>5, BeforeGrows
  <2>2. CASE r \in fetched
    BY <1>10, <2>2
  <2>3. CASE r \notin fetched
    <3>1. Before(Listing, r) < offset
      BY <1>3, <1>13, <2>1, <2>3 DEF Page
    <3>2. Settled(View, work, r)
      BY <1>12, <3>1, FieldsSeenIs
    <3>. QED BY <1>5, <1>11, <2>3, <3>2
  <2>. QED BY <2>2, <2>3
<1>14. ASSUME done, NEW r \in Listing PROVE Settled(View', work, r)
  BY <1>3, <1>5, <1>13, <1>14, LastPageEnds
<1>. HIDE DEF offset, fetched, done
<1>15. ASSUME backfill # NoBackfill PROVE FieldsSeen(backfill, csv)'
  <2>1. FieldsSeen(backfill, csv)
    BY <1>15 DEF FieldsInv
  <2>. QED BY <1>2, <2>1, RunSettled
           DEF Sync, FieldsSeen, Listing, Holds, Excused
<1>16. FieldsSeen(work, View)'
  <2>1. ASSUME NEW r \in Listing', Before(Listing', r) < work'.fieldOffset
        PROVE  \/ Range(View'[r]) = {Truth(r)'}
               \/ updated'[r] >= work'.commitWatermark - FilterLag
               \/ r \in missed'
    <3>1. r \in Listing /\ Before(Listing, r) < offset + PageSize
      BY <1>2, <1>3, <2>1, SameSettled DEF Sync
    <3>2. Settled(View', work, r)
      BY <1>13, <3>1
    <3>. QED BY <1>2, <1>3, <3>2, RunSettled DEF Sync
  <2>. QED BY <2>1 DEF FieldsSeen, Listing, Holds, Excused
<1>17. ASSUME NEW r \in Ids, batch'[r] # <<>>
       PROVE  (Holds(batch, r) \/ Excused(r, work))'
  <2>1. Settled(batch', work, r)
    <3>1. CASE r \in fetched
      BY <1>6, <3>1
    <3>2. CASE r \notin fetched
      <4>1. batch'[r] = batch[r] /\ batch[r] # <<>>
        BY <1>7, <1>17, <3>2
      <4>2. Settled(batch, work, r)
        BY <1>1, <4>1 DEF FieldsInv, Settled
      <4>. QED BY <4>1, <4>2, SettledSame
    <3>. QED BY <3>1, <3>2
  <2>. QED BY <1>2, <1>3, <2>1, RunSettled DEF Sync, Holds, Excused
<1>18. ASSUME done, NEW r \in Listing'
       PROVE  (Holds(View, r) \/ Excused(r, work))'
  <2>1. r \in Listing
    BY <1>2, <1>18, SameSettled DEF Sync
  <2>2. Settled(View', work, r)
    BY <1>14, <1>18, <2>1
  <2>. QED BY <1>2, <1>3, <2>2, RunSettled DEF Sync, Holds, Excused
<1>19. /\ pc' \in {"complete", "read", "fields"}
       /\ pc' = "complete" => batch' = Nothing
       /\ pc' = "complete" \/ after' = "complete" => done
  BY <1>2, <1>4
<1>20. pc' = "complete" \/ (pc' \in {"read", "write"} /\ after' = "complete") =>
         \A r \in Listing' : (Holds(View, r) \/ Excused(r, work))'
  BY <1>18, <1>19
<1>21. /\ pc' \notin {"fields", "read", "write"} => batch' = Nothing
       /\ pc' # "write" /\ pc' # "idle"
  BY <1>19
<1>. QED BY <1>2, <1>15, <1>16, <1>17, <1>20, <1>21 DEF FieldsInv, Listing

\* Steps that fetch and merge nothing.
LEMMA FieldsInvQuiet ==
  ASSUME TypeOK, FieldsInv,
         \/ Begin \/ DeletedIdsPage \/ DeletedIdsOutOfTime \/ SaveDeletedIds
         \/ LoadDeletedIds \/ FieldDataOutOfTime \/ MergeRead
         \/ DeletedIdsError
  PROVE  FieldsInv'
<1>1. /\ last' = last /\ backfill' = backfill /\ csv' = csv /\ batch' = batch
      /\ pc' # "idle" /\ pc' # "complete"
  BY DEF Begin, DeletedIdsPage, DeletedIdsOutOfTime, SaveDeletedIds,
         LoadDeletedIds, FieldDataOutOfTime, MergeRead, DeletedIdsError,
         stateVars, fileVars
<1>2. Sync \/ Faults
  BY DEF Sync, Faults
<1>3. View' = View
  BY <1>1 DEF View
<1>4. ASSUME backfill # NoBackfill PROVE FieldsSeen(backfill, csv)'
  BY <1>1, <1>2, <1>4, RunSettled
  DEF FieldsInv, FieldsSeen, Listing, Holds, Excused
<1>5. CASE Begin
  <2>1. batch = Nothing /\ View = csv /\ pc' \in {"ids", "loadIds"}
    BY <1>5, ViewOfNothing DEF FieldsInv, Begin
  <2>2. work' = IF backfill = NoBackfill THEN StartedOn(today) ELSE backfill
    BY <1>5 DEF Begin
  <2>3. FieldsSeen(work', View)
    <3>1. CASE backfill = NoBackfill
      <4>1. work'.fieldOffset = 0
        BY <2>2, <3>1 DEF StartedOn
      <4>2. ASSUME NEW r \in Listing PROVE ~(Before(Listing, r) < 0)
        <5>1. Before(Listing, r) \in Nat
          BY ListingsAreIds, BeforeGrows
        <5>. QED BY <5>1
      <4>. QED BY <4>1, <4>2, FieldsSeenIs
    <3>2. CASE backfill # NoBackfill
      BY <2>1, <2>2, <3>2 DEF FieldsInv
    <3>. QED BY <3>1, <3>2
  <2>4. FieldsSeen(work, View)'
    BY <1>1, <1>2, <1>3, <2>3, RunSettled
    DEF FieldsSeen, Listing, Holds, Excused
  <2>5. \A r \in Ids : batch'[r] = <<>>
    BY <1>1, <2>1 DEF Nothing
  <2>. QED BY <1>1, <1>4, <2>1, <2>4, <2>5 DEF FieldsInv
<1>6. CASE ~Begin
  <2>1. /\ pc # "idle"
        /\ work'.commitWatermark = work.commitWatermark
        /\ work'.fieldOffset = work.fieldOffset
    BY <1>6, DeletedIdsPageWork, DeletedIdsErrorWork
    DEF DeletedIdsPage, DeletedIdsOutOfTime, SaveDeletedIds, LoadDeletedIds,
        FieldDataOutOfTime, MergeRead, DeletedIdsError
  <2>2. FieldsSeen(work, View)'
    BY <1>1, <1>2, <1>3, <2>1, RunSettled
    DEF FieldsInv, FieldsSeen, Listing, Holds, Excused
  <2>3. ASSUME NEW r \in Ids, batch[r] # <<>>
        PROVE  (Holds(batch, r) \/ Excused(r, work))'
    <3>1. Settled(batch, work, r)
      BY <2>1, <2>3 DEF FieldsInv, Settled
    <3>. QED BY <1>1, <1>2, <2>1, <3>1, RunSettled DEF Holds, Excused
  <2>4. pc' \notin {"fields", "read", "write"} => batch' = Nothing
    BY <1>1, <1>6
    DEF FieldsInv, DeletedIdsPage, DeletedIdsOutOfTime, SaveDeletedIds,
        LoadDeletedIds, FieldDataOutOfTime, MergeRead, DeletedIdsError
  <2>5. pc' = "write" => snapshot' = csv'
    BY <1>1, <1>6
    DEF DeletedIdsPage, DeletedIdsOutOfTime, SaveDeletedIds,
        LoadDeletedIds, FieldDataOutOfTime, MergeRead, DeletedIdsError
  <2>6. pc' \in {"read", "write"} /\ after' = "complete" =>
          MergeRead /\ pc \in {"read", "write"} /\ after = "complete"
    BY <1>6
    DEF DeletedIdsPage, DeletedIdsOutOfTime, SaveDeletedIds,
        LoadDeletedIds, FieldDataOutOfTime, MergeRead, DeletedIdsError
  <2>7. ASSUME pc' \in {"read", "write"}, after' = "complete", NEW r \in Listing'
        PROVE  (Holds(View, r) \/ Excused(r, work))'
    <3>1. r \in Listing
      BY <1>1, <1>2, <2>7, SameSettled
    <3>2. Settled(View, work, r)
      BY <2>6, <2>7, <3>1 DEF FieldsInv, Settled, Listing
    <3>. QED BY <1>1, <1>2, <1>3, <2>1, <3>2, RunSettled DEF Holds, Excused
  <2>. QED BY <1>1, <1>4, <2>2, <2>3, <2>4, <2>5, <2>7 DEF FieldsInv, Listing
<1>. QED BY <1>5, <1>6

\* A merge brings the file to what the view was.
LEMMA MergeWritesView ==
  ASSUME TypeOK, FieldsInv, MergeWrite, TypeOK'
  PROVE  csv' = View /\ View' = View
<1>1. snapshot = csv /\ batch' = Nothing
  BY DEF MergeWrite, FieldsInv
<1>2. csv' = View
  BY <1>1 DEF MergeWrite, View
<1>3. csv' = [r \in Ids |-> csv'[r]]
  BY DEF TypeOK
<1>4. View' = [r \in Ids |-> csv'[r]]
  BY <1>1 DEF View, Nothing
<1>. QED BY <1>2, <1>3, <1>4

LEMMA FieldsInvMerge ==
  ASSUME TypeOK, TimeInv, FieldsInv, MergeWrite, TypeOK'
  PROVE  FieldsInv'
<1>1. /\ last' = last /\ backfill' = backfill /\ work' = work
      /\ after' = after /\ pc = "write" /\ pc' = after /\ batch' = Nothing
      /\ after \in {"fields", "checkpoint", "complete"}
  BY DEF MergeWrite, stateVars, TypeOK
<1>2. Sync
  BY DEF Sync
<1>3. csv' = View /\ View' = View
  BY MergeWritesView
<1>4. ASSUME backfill # NoBackfill PROVE FieldsSeen(backfill, csv)'
  <2>1. ASSUME NEW r \in Listing, Before(Listing, r) < backfill.fieldOffset
        PROVE  Settled(View, backfill, r)
    <3>1. r \in Ids /\ Settled(csv, backfill, r)
      BY <1>4, <2>1, ListingsAreIds, FieldsSeenIs DEF FieldsInv
    <3>2. CASE batch[r] = <<>>
      <4>1. View[r] = csv[r]
        BY <3>1, <3>2, ViewOfNothing
      <4>. QED BY <3>1, <4>1, SettledSame
    <3>3. CASE batch[r] # <<>>
      <4>1. Settled(batch, work, r)
        BY <1>1, <3>1, <3>3 DEF FieldsInv, Settled
      <4>2. View[r] = batch[r]
        BY <3>1, <3>3, ViewOfNothing
      <4>3. backfill.commitWatermark = work.commitWatermark
        BY <1>1, <1>4 DEF TimeInv
      <4>. QED BY <4>1, <4>2, <4>3, SettledSame
    <3>. QED BY <3>2, <3>3
  <2>2. FieldsSeen(backfill, View)
    BY <2>1, FieldsSeenIs
  <2>. QED BY <1>1, <1>2, <1>3, <2>2, RunSettled
           DEF FieldsSeen, Listing, Holds, Excused
<1>5. FieldsSeen(work, View)'
  BY <1>1, <1>2, <1>3, RunSettled
  DEF FieldsInv, FieldsSeen, Listing, Holds, Excused
<1>6. \A r \in Ids : batch'[r] = <<>>
  BY <1>1 DEF Nothing
<1>7. ASSUME after = "complete", NEW r \in Listing'
      PROVE  (Holds(View, r) \/ Excused(r, work))'
  <2>1. r \in Listing
    BY <1>1, <1>2, <1>7, SameSettled
  <2>2. Settled(View, work, r)
    BY <1>1, <1>7, <2>1 DEF FieldsInv, Settled, Listing
  <2>. QED BY <1>1, <1>2, <1>3, <2>2, RunSettled DEF Holds, Excused
<1>. QED BY <1>1, <1>4, <1>5, <1>6, <1>7 DEF FieldsInv, Listing

\* An error in place of a page: what the listing still had is missed.
LEMMA FieldsInvError ==
  ASSUME TypeOK, TimeInv, FieldsInv, FieldDataError
  PROVE  FieldsInv'
<1>1. Listing = Matching(watermark) /\ pc = "fields"
  BY DEF FieldDataError, TimeInv, Listing
<1>2. /\ last' = last /\ backfill' = backfill /\ csv' = csv /\ batch' = batch
      /\ snapshot' = snapshot
      /\ pc' = IF batch = Nothing THEN "complete" ELSE "read"
      /\ work'.commitWatermark = work.commitWatermark
      /\ \A r \in Listing : Before(Listing, r) < work.fieldOffset \/ r \in missed'
  BY <1>1, FieldDataErrorWork DEF FieldDataError, stateVars, fileVars
<1>3. Sync \/ Faults
  BY DEF Faults
<1>4. View' = View
  BY <1>2 DEF View
<1>5. ASSUME backfill # NoBackfill PROVE FieldsSeen(backfill, csv)'
  BY <1>2, <1>3, <1>5, RunSettled
  DEF FieldsInv, FieldsSeen, Listing, Holds, Excused
<1>6. ASSUME NEW r \in Listing'
      PROVE  (Holds(View, r) \/ Excused(r, work))'
  <2>1. r \in Listing
    BY <1>2, <1>3, SameSettled
  <2>2. CASE r \in missed'
    BY <2>2 DEF Excused
  <2>3. CASE Before(Listing, r) < work.fieldOffset
    <3>1. Settled(View, work, r)
      BY <1>1, <2>1, <2>3, FieldsSeenIs DEF FieldsInv
    <3>. QED BY <1>2, <1>3, <1>4, <3>1, RunSettled DEF Holds, Excused
  <2>. QED BY <1>2, <2>1, <2>2, <2>3
<1>7. FieldsSeen(work, View)'
  BY <1>6 DEF FieldsSeen, Listing
<1>8. ASSUME NEW r \in Ids, batch[r] # <<>>
      PROVE  (Holds(batch, r) \/ Excused(r, work))'
  <2>1. Settled(batch, work, r)
    BY <1>1, <1>8 DEF FieldsInv, Settled
  <2>. QED BY <1>2, <1>3, <2>1, RunSettled DEF Holds, Excused
<1>9. /\ pc' # "idle" /\ pc' # "write"
      /\ pc' \notin {"fields", "read", "write"} => batch' = Nothing
  BY <1>2
<1>. QED BY <1>2, <1>5, <1>6, <1>7, <1>8, <1>9 DEF FieldsInv, Listing

LEMMA FieldsInvKept ==
  ASSUME TypeOK, TimeInv, SppInv, DeletedInv, IdsInv, FieldsInv, Next, TypeOK'
  PROVE  FieldsInv'
<1>1. CASE Spp
  BY <1>1, FieldsInvSpp
<1>2. CASE \/ Begin \/ DeletedIdsPage \/ DeletedIdsOutOfTime \/ SaveDeletedIds
           \/ LoadDeletedIds \/ FieldDataOutOfTime \/ MergeRead
           \/ DeletedIdsError
  BY <1>2, FieldsInvQuiet
<1>3. CASE FieldDataPage
  BY <1>3, FieldsInvPage
<1>4. CASE MergeWrite
  BY <1>4, FieldsInvMerge
<1>5. CASE Checkpoint
  <2>1. /\ last' = last /\ backfill' = work /\ csv' = csv
        /\ pc' = "idle" /\ batch' = Nothing /\ pc = "checkpoint"
    BY <1>5 DEF Checkpoint, Ends, fileVars
  <2>2. FieldsSeen(work, csv)
    BY <2>1, ViewOfNothing DEF FieldsInv
  <2>3. FieldsSeen(backfill, csv)'
    BY <1>5, <2>1, <2>2, RunSettled
    DEF Sync, FieldsSeen, Listing, Holds, Excused
  <2>. QED BY <2>1, <2>3 DEF FieldsInv
<1>6. CASE Complete
  BY <1>6 DEF Complete, Ends, FieldsInv
<1>7. CASE Crash
  <2>1. /\ last' = last /\ backfill' = backfill /\ csv' = csv
        /\ pc' = "idle" /\ batch' = Nothing
    BY <1>7 DEF Crash, Ends, fileVars, stateVars
  <2>2. ASSUME backfill # NoBackfill PROVE FieldsSeen(backfill, csv)'
    BY <1>7, <2>1, <2>2, RunSettled
    DEF Faults, FieldsInv, FieldsSeen, Listing, Holds, Excused
  <2>. QED BY <2>1, <2>2 DEF FieldsInv
<1>8. CASE FieldDataError
  BY <1>8, FieldsInvError
<1>. QED BY <1>1, <1>2, <1>3, <1>4, <1>5, <1>6, <1>7, <1>8
         DEF Next, Sync, Faults

-----------------------------------------------------------------------------
(* No change is skipped. *)

LEMMA StaleIsDueKept ==
  ASSUME TypeOK, TimeInv, SppInv, FieldsInv, StaleIsDue, Next, TypeOK'
  PROVE  StaleIsDue'
<1>. USE ConstantsAssumption DEF WATERMARK_OVERLAP_DAYS
<1>1. FilterLag \in Nat /\ FilterLag <= 2 /\ today \in Nat
  BY DEF TypeOK
<1>2. SUFFICES ASSUME NEW r \in Ids, Stale(r)'
               PROVE  updated'[r] >= WatermarkOf(last)' \/ r \in missed'
  BY DEF StaleIsDue
<1>3. Stale(r) => updated[r] >= WatermarkOf(last) \/ r \in missed
  BY DEF StaleIsDue
<1>4. CASE Spp
  <2>1. last' = last /\ csv' = csv
    BY <1>4, SppTouches DEF stateVars, fileVars
  <2>2. WatermarkOf(last)' = WatermarkOf(last)
    BY <2>1 DEF WatermarkOf
  <2>3. CASE updated'[r] = today'
    <3>1. WatermarkOf(last) <= today /\ WatermarkOf(last) \in Int
      BY <1>1, WatermarkIsInt DEF TimeInv
    <3>2. today <= today' /\ today' \in Nat
      BY <1>4, SppTouches, TimesStayInts
    <3>. QED BY <1>1, <2>2, <2>3, <3>1, <3>2
  <2>4. CASE /\ updated'[r] = updated[r] /\ Truth(r)' = Truth(r)
             /\ Exists(r)' = Exists(r) /\ (r \in missed' <=> r \in missed)
    <3>1. Stale(r)
      BY <1>2, <2>1, <2>4 DEF Stale, Holds
    <3>. QED BY <1>3, <2>2, <2>4, <3>1
  <2>. QED BY <1>4, <2>3, <2>4, SppChangesToday
<1>5. CASE Complete
  <2>1. /\ last' = work.commitWatermark /\ csv' = csv /\ pc = "complete"
    BY <1>5 DEF Complete, fileVars
  <2>2. UNCHANGED sppVars
    BY <1>5, RunLeavesSpp DEF Sync
  <2>3. updated' = updated /\ Stale(r)
    BY <1>2, <2>1, <2>2, SameSpp DEF Stale, Holds
  <2>4. work.commitWatermark \in Nat /\ work.commitWatermark <= today
    BY <2>1 DEF TypeOK, Backfill, TimeInv, Committing
  <2>5. WatermarkOf(last)' = work.commitWatermark - 2
    BY <2>1, <2>4 DEF WatermarkOf
  <2>6. updated[r] >= work.commitWatermark - FilterLag \/ r \in missed
    <3>1. CASE r \in Listing
      <4>1. View = csv
        BY <2>1, ViewOfNothing DEF FieldsInv
      <4>. QED BY <2>1, <2>3, <3>1, <4>1 DEF FieldsInv, Listing, Stale, Excused
    <3>2. CASE r \notin Listing
      <4>1. Exists(r) /\ ~(indexed[r] >= WatermarkOf(last))
        BY <2>3, <3>2 DEF Stale, Listing, Matching
      <4>2. CASE r \in missed
        BY <4>2
      <4>3. CASE r \notin missed
        <5>1. indexed[r] # updated[r]
          BY <1>3, <2>3, <4>1, <4>3
        <5>2. updated[r] >= today - FilterLag
          BY <4>1, <5>1 DEF SppInv
        <5>. QED BY <1>1, <2>4, <5>2, TimesAreInts
      <4>. QED BY <4>2, <4>3
    <3>. QED BY <3>1, <3>2
  <2>7. missed \subseteq missed'
    BY <1>5, MissedGrows DEF Sync
  <2>. QED BY <1>1, <2>3, <2>4, <2>5, <2>6, <2>7, TimesAreInts
<1>6. CASE MergeWrite
  <2>1. last' = last /\ pc = "write"
    BY <1>6 DEF MergeWrite, stateVars
  <2>2. WatermarkOf(last)' = WatermarkOf(last)
    BY <2>1 DEF WatermarkOf
  <2>3. UNCHANGED sppVars
    BY <1>6, RunLeavesSpp DEF Sync
  <2>4. updated' = updated /\ Exists(r) /\ ~Holds(View, r)
    BY <1>2, <1>6, <2>3, SameSpp, MergeWritesView DEF Stale, Holds
  <2>5. missed \subseteq missed'
    BY <1>6, MissedGrows DEF Sync
  <2>6. CASE batch[r] = <<>>
    <3>1. View[r] = csv[r]
      BY <2>6, ViewOfNothing
    <3>. QED BY <1>3, <2>2, <2>4, <2>5, <3>1 DEF Stale, Holds
  <2>7. CASE batch[r] # <<>>
    <3>1. View[r] = batch[r]
      BY <2>7, ViewOfNothing
    <3>2. updated[r] >= work.commitWatermark - FilterLag \/ r \in missed
      BY <2>1, <2>4, <2>7, <3>1 DEF FieldsInv, Holds, Excused
    <3>3. /\ work.commitWatermark \in Nat
          /\ last # NoTime => last <= work.commitWatermark
      BY <2>1 DEF TypeOK, Backfill, TimeInv, Committing
    <3>. QED BY <1>1, <2>2, <2>4, <2>5, <3>2, <3>3, TimesAreInts, WatermarkIsInt
  <2>. QED BY <2>6, <2>7
<1>7. CASE (Sync \/ Faults) /\ ~Complete /\ ~MergeWrite
  <2>1. last' = last /\ csv' = csv
    BY <1>7
    DEF Sync, Begin, DeletedIdsPage, DeletedIdsOutOfTime, SaveDeletedIds,
        LoadDeletedIds, FieldDataPage, FieldDataOutOfTime, MergeRead,
        Checkpoint, Faults, Crash, DeletedIdsError, FieldDataError,
        stateVars, fileVars
  <2>2. WatermarkOf(last)' = WatermarkOf(last)
    BY <2>1 DEF WatermarkOf
  <2>3. UNCHANGED sppVars
    BY <1>7, RunLeavesSpp
  <2>4. updated' = updated /\ Stale(r)
    BY <1>2, <2>1, <2>3, SameSpp DEF Stale, Holds
  <2>5. missed \subseteq missed'
    BY <1>7, MissedGrows
  <2>. QED BY <1>3, <2>2, <2>4, <2>5
<1>. QED BY <1>4, <1>5, <1>6, <1>7 DEF Next

-----------------------------------------------------------------------------
(* The theorems. *)

LEMMA StutterKeepsIInv ==
  ASSUME IInv, UNCHANGED vars
  PROVE  IInv'
<1>1. /\ today' = today /\ changes' = changes /\ version' = version
      /\ deleted' = deleted /\ updated' = updated /\ indexed' = indexed
      /\ last' = last /\ backfill' = backfill /\ idsFile' = idsFile /\ csv' = csv
      /\ pc' = pc /\ watermark' = watermark /\ work' = work /\ ids' = ids
      /\ batch' = batch /\ pages' = pages /\ snapshot' = snapshot
      /\ after' = after /\ faults' = faults /\ missed' = missed
  BY DEF vars, sppVars, stateVars, fileVars, runVars, faultVars
<1>2. UNCHANGED sppVars
  BY <1>1 DEF sppVars
<1>3. TypeOK'
  BY NextTyped DEF IInv
<1>4. SppInv'
  BY <1>2, SameSpp DEF IInv
<1>5. TimeInv'
  BY <1>1 DEF IInv, TimeInv, Committing, WatermarkOf
<1>6. DeletedInv'
  BY <1>1 DEF IInv, DeletedInv, Loaded
<1>7. Listing' = Listing /\ DeletedListing' = DeletedListing /\ Loaded' = Loaded
      /\ View' = View
  <2>1. Matching(WatermarkOf(last))' = Matching(WatermarkOf(last))
    BY <1>1, <1>2, SameSpp, Zenon DEF WatermarkOf, Matching, Exists
  <2>2. Listing' = Listing
    BY <2>1 DEF Listing
  <2>3. DeletedListing' = DeletedListing
    BY <1>1, <2>2 DEF DeletedListing
  <2>4. Loaded' = Loaded /\ View' = View
    BY <1>1 DEF Loaded, View
  <2>. QED BY <2>2, <2>3, <2>4
<1>8. IdsInv'
  BY <1>1, <1>7
  DEF IInv, IdsInv, DeletedSeen, DeletedListing, Listing, Excused
<1>9. \A r : Truth(r)' = Truth(r)
  BY <1>2, SameSpp
<1>10. FieldsInv'
  BY <1>1, <1>7, <1>9
  DEF IInv, FieldsInv, FieldsSeen, Listing, Holds, Excused
<1>11. StaleIsDue'
  BY <1>1, <1>2, <1>9, SameSpp
  DEF IInv, StaleIsDue, Stale, Holds, WatermarkOf
<1>. QED BY <1>3, <1>4, <1>5, <1>6, <1>8, <1>10, <1>11 DEF IInv

LEMMA NextIInv == IInv /\ [Next]_vars => IInv'
<1>. SUFFICES ASSUME IInv, [Next]_vars PROVE IInv'
  OBVIOUS
<1>1. CASE UNCHANGED vars
  BY <1>1, StutterKeepsIInv
<1>2. CASE Next
  <2>1. /\ TypeOK /\ SppInv /\ TimeInv /\ DeletedInv /\ IdsInv /\ FieldsInv
        /\ StaleIsDue
    BY DEF IInv
  <2>2. TypeOK'
    BY <2>1, NextTyped
  <2>3. SppInv'
    <3>1. CASE Spp
      BY <2>1, <2>2, <3>1, SppInvKept
    <3>2. CASE Sync \/ Faults
      BY <2>1, <3>2, RunLeavesSpp, SameSpp
    <3>. QED BY <1>2, <3>1, <3>2 DEF Next
  <2>4. TimeInv'
    BY <1>2, <2>1, <2>2, TimeInvKept
  <2>5. DeletedInv'
    BY <1>2, <2>1, <2>2, DeletedInvKept
  <2>6. IdsInv'
    BY <1>2, <2>1, <2>2, IdsInvKept
  <2>7. FieldsInv'
    BY <1>2, <2>1, <2>2, FieldsInvKept
  <2>8. StaleIsDue'
    BY <1>2, <2>1, <2>2, StaleIsDueKept
  <2>. QED BY <2>2, <2>3, <2>4, <2>5, <2>6, <2>7, <2>8 DEF IInv
<1>. QED BY <1>1, <1>2

\* No change is ever skipped, except by an error in place of a page: whatever
\* else the CSV has wrong was changed late enough for the next completed sync
\* to ask for it.
THEOREM NoChangeIsSkipped == Spec => []StaleIsDue
<1>1. IInv => StaleIsDue
  BY DEF IInv
<1>. QED BY <1>1, InitIInv, NextIInv, PTL DEF Spec

\* A checkpoint of a backfill claims no page that is not in S3, of either
\* phase, but for what an error in place of a page hid.
THEOREM CheckpointsAreDurable == Spec => []CheckpointIsDurable
<1>1. IInv => CheckpointIsDurable
  BY DEF IInv, FieldsInv, FieldsSeen, IdsInv, DeletedSeen, CheckpointIsDurable,
         Excused, Recent
<1>. QED BY <1>1, InitIInv, NextIInv, PTL DEF Spec

\* A row marked deleted belongs to a record that SPP has deleted.
THEOREM NothingFalselyDeleted == Spec => []NoFalseDeletion
<1>1. IInv => NoFalseDeletion
  BY DEF IInv, DeletedInv, NoFalseDeletion
<1>. QED BY <1>1, InitIInv, NextIInv, PTL DEF Spec
=============================================================================
