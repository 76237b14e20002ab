---------------------------- MODULE JournalReplay ----------------------------
(***************************************************************************)
(* Every record stream a journal file can present, grown one record at a   *)
(* time, and what the two readers of a stream make of it: strict replay    *)
(* (rename/journal.rs) and the recovery's own scan (transition_state in    *)
(* rename/recovery.rs), which folds the records a second time without      *)
(* validating them.                                                        *)
(*                                                                         *)
(* A stream that strict replay rejects is refused when the file is opened, *)
(* so it is not extended.                                                  *)
(***************************************************************************)
EXTENDS Journal

LOCAL SX == INSTANCE SequencesExt

CONSTANT MaxRecords   \* bound on the length of a stream

MaxRecordsAssumption == MaxRecords \in Nat

VARIABLE records

Record ==
  {Intent} \cup {Terminal(t) : t \in {"Committed", "RolledBack"}}
  \cup UNION { {Prepared(s, d), Completed(s, d), NotApplied(s, d)} :
                 s \in StepNumber, d \in Direction }

replay_journal(rs) == SX!FoldLeft(ReplayStep, EmptyReplay, rs)

Init == records = << >>

AppendRecord(r) ==
  /\ Len(records) < MaxRecords
  /\ ~replay_journal(records).corrupt
  /\ records' = Append(records, r)

Next == \E r \in Record : AppendRecord(r)

Spec == Init /\ [][Next]_records

-----------------------------------------------------------------------------
(***************************************************************************)
(* transition_state: the sets of completed steps and the step left         *)
(* prepared, by the last record alone.                                     *)
(***************************************************************************)
ScanStart == [forward |-> {}, rollback |-> {}, prepared |-> << >>]

ScanStepKeepsDoubt(scan, r) ==   \* mutant: NotApplied settles nothing
  CASE r.kind = "Prepared"  -> [scan EXCEPT !.prepared = <<r.step, r.tag>>]
    [] r.kind = "Completed" ->
         IF r.tag = "Forward"
         THEN [scan EXCEPT !.forward = @ \cup {r.step}, !.prepared = << >>]
         ELSE [scan EXCEPT !.rollback = @ \cup {r.step}, !.prepared = << >>]
    [] OTHER                -> scan

ScanStep(scan, r) ==
  CASE r.kind = "Prepared"   -> [scan EXCEPT !.prepared = <<r.step, r.tag>>]
    [] r.kind = "Completed"  ->
         IF r.tag = "Forward"
         THEN [scan EXCEPT !.forward = @ \cup {r.step}, !.prepared = << >>]
         ELSE [scan EXCEPT !.rollback = @ \cup {r.step}, !.prepared = << >>]
    [] r.kind = "NotApplied" -> [scan EXCEPT !.prepared = << >>]
    [] OTHER                 -> scan

Scan(rs) == SX!FoldLeft(ScanStep, ScanStart, rs)

(***************************************************************************)
(* The occupancy recovery expects on disk: the manifest's initial          *)
(* occupancy moved by each Completed record.  Blocked stands for the       *)
(* JournalCorrupt refusal of apply_step.                                   *)
(***************************************************************************)
Blocked == << >>

Directed(r) == IF r.tag = "Forward" THEN Steps[r.step] ELSE Reverse(Steps[r.step])

OccupancyStep(occ, r) ==
  IF r.kind # "Completed" \/ occ = Blocked THEN occ
  ELSE IF Movable(occ, Directed(r)) THEN ApplyStep(occ, Directed(r))
  ELSE Blocked

ExpectedOccupancy(rs) == SX!FoldLeft(OccupancyStep, InitialOccupancy, rs)

(***************************************************************************)
(* The records RenameRecovery::rollback appends when every append and      *)
(* every reverse move succeeds: the prepared step is settled either way,   *)
(* then the remaining steps are reversed from the last to the first.       *)
(***************************************************************************)
Settlement(scan, applied) ==
  IF scan.prepared = << >> THEN << >>
  ELSE LET s == scan.prepared[1] d == scan.prepared[2]
       IN  IF applied THEN <<Completed(s, d)>> ELSE <<NotApplied(s, d)>>

Reversal(todo) ==
  SX!FoldLeft(LAMBDA acc, s : acc \o <<Prepared(s, "Rollback"), Completed(s, "Rollback")>>,
           << >>, SX!Reverse(SX!SetToSortSeq(todo, <)))

RecoveryRecords(rs, applied) ==
  LET settled == rs \o Settlement(Scan(rs), applied)
      scan    == Scan(settled)
  IN  settled \o Reversal(scan.forward \ scan.rollback)
              \o <<Terminal("RolledBack")>>

-----------------------------------------------------------------------------
TypeOK == records \in Seq(Record) /\ Len(records) <= MaxRecords

Replayed == replay_journal(records)

(***************************************************************************)
(* Recovery acts on its own scan, not on the replay state: on every stream *)
(* strict replay accepts, the two agree on the completed steps, the step   *)
(* left in doubt and its direction.                                        *)
(***************************************************************************)
ScanAgreesWithReplay ==
  ~Replayed.corrupt =>
    LET scan == Scan(records)
    IN  /\ scan.forward = Replayed.completed_forward
        /\ scan.rollback = Replayed.completed_rollback
        /\ scan.prepared =
             IF Replayed.forward_prepared # NoStep
             THEN <<Replayed.forward_prepared, "Forward">>
             ELSE IF Replayed.rollback_prepared # NoStep
             THEN <<Replayed.rollback_prepared, "Rollback">>
             ELSE << >>

(***************************************************************************)
(* apply_step never meets an occupied destination or a missing source on   *)
(* an accepted stream, and the occupancy it arrives at is the one after    *)
(* the steps not yet reversed.                                             *)
(***************************************************************************)
AcceptedStreamsFold ==
  ~Replayed.corrupt =>
    ExpectedOccupancy(records) = Occ[LastRemaining(Replayed)]

(***************************************************************************)
(* A stream that replays Clean describes all of the batch or none of it:   *)
(* this is what lets cleanup delete the file.                              *)
(***************************************************************************)
CleanIsAllOrNothing ==
  Clean(Replayed) =>
    ExpectedOccupancy(records) \in {Occ[0], Occ[StepCount]}

(***************************************************************************)
(* From every accepted stream that is not terminal, whichever way the step *)
(* in doubt is settled, the records recovery goes on to append make the    *)
(* stream replay Clean with every key back at its initial occupant.        *)
(***************************************************************************)
RecoveryCanFinish ==
  (~Replayed.corrupt /\ ~Clean(Replayed)) =>
    \A applied \in BOOLEAN :
      LET rs == RecoveryRecords(records, applied)
      IN  /\ Clean(replay_journal(rs))
          /\ ExpectedOccupancy(rs) = Occ[0]
=============================================================================
