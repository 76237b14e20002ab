----------------------- MODULE RenameTransactionProofs -----------------------
(***************************************************************************)
(* Proofs about the rename transaction, for plans of every size: first     *)
(* what the executor and its journal do (ControlInv), then what the        *)
(* directories hold (DiskInv) and what is reported of them (StatesInv).    *)
(***************************************************************************)
EXTENDS RenameTransaction, FiniteSetTheorems, TLAPS

(***************************************************************************)
(* A journal with r steps applied has exactly 1..r remaining, and r is the *)
(* step to reverse next.                                                   *)
(***************************************************************************)
LEMMA RemainingOfShape ==
  ASSUME NEW st, NEW m, NEW r, Shape(st, m, r)
  PROVE  Remaining(st) = 1..r /\ LastRemaining(st) = r
<1>1. m \in Nat /\ r \in Nat /\ r <= m /\ StepCount \in Nat
  BY StepsAssumption DEF Shape, ValidSteps
<1>2. Remaining(st) = 1..r
  BY <1>1 DEF Shape, Remaining
<1>3. CASE r = 0
  BY <1>1, <1>2, <1>3 DEF LastRemaining, NoStep
<1>4. CASE r # 0
  <2>1. r \in 1..r /\ \A j \in 1..r : j <= r
    BY <1>1, <1>4
  <2>2. LastRemaining(st) = CHOOSE i \in 1..r : \A j \in 1..r : j <= i
    BY <1>2, <2>1 DEF LastRemaining
  <2>3. \A i \in 1..r : (\A j \in 1..r : j <= i) => i = r
    BY <1>1, <2>1
  <2> QED BY <1>2, <2>1, <2>2, <2>3
<1> QED BY <1>3, <1>4

(***************************************************************************)
(* The states replay starts from.                                          *)
(***************************************************************************)
LEMMA ShapeOfEmpty == Shape(EmptyReplay, 0, 0)
BY StepsAssumption
   DEF Shape, ValidSteps, EmptyReplay, ReplayState, StepNumber, NoStep, NothingPrepared

LEMMA ShapeOfIntentOnly == Shape(IntentOnly, 0, 0)
BY ShapeOfEmpty DEF Shape, IntentOnly, ReplayState, NothingPrepared

LEMMA ReplayIntent == ReplayStep(EmptyReplay, Intent) = IntentOnly
BY DEF ReplayStep, Accepts, Intent, IntentOnly, EmptyReplay

(***************************************************************************)
(* Each record the program appends is accepted and moves the shape.        *)
(***************************************************************************)
InProgress(st) == st.intent /\ st.terminal = "None"

LEMMA ReplayPreparedForward ==
  ASSUME NEW st, NEW m \in 0..(StepCount - 1), Shape(st, m, m), InProgress(st),
         NothingPrepared(st), ~st.rollback_started
  PROVE  LET next == ReplayStep(st, Prepared(m + 1, "Forward"))
         IN  /\ Shape(next, m, m) /\ InProgress(next)
             /\ next.forward_prepared = m + 1 /\ next.rollback_prepared = NoStep
<1> DEFINE rec == Prepared(m + 1, "Forward")
<1>1. StepCount \in Nat /\ m \in Nat /\ m + 1 \in StepNumber
  BY StepsAssumption DEF ValidSteps, StepNumber
<1>2. Accepts(st, rec)
  BY <1>1 DEF Accepts, Prepared, MayPrepare, Shape, InProgress, NothingPrepared
<1>3. ReplayStep(st, rec) = [st EXCEPT !.forward_prepared = m + 1]
  BY <1>2 DEF ReplayStep, Prepared, AfterPrepared
<1> QED BY <1>1, <1>3 DEF Shape, InProgress, ReplayState, NothingPrepared, NoStep

LEMMA ReplayCompletedForward ==
  ASSUME NEW st, NEW m \in 0..(StepCount - 1), Shape(st, m, m), InProgress(st),
         st.forward_prepared = m + 1
  PROVE  LET next == ReplayStep(st, Completed(m + 1, "Forward"))
         IN  /\ Shape(next, m + 1, m + 1) /\ InProgress(next)
             /\ NothingPrepared(next) /\ ~next.rollback_started
<1> DEFINE rec == Completed(m + 1, "Forward")
<1>1. StepCount \in Nat /\ m \in Nat /\ m + 1 \in StepNumber /\ m + 1 # NoStep
  BY StepsAssumption DEF ValidSteps, StepNumber, NoStep
<1>2. Accepts(st, rec)
  BY <1>1 DEF Accepts, Completed, WasPrepared, Shape, InProgress
<1>3. ReplayStep(st, rec) =
        [st EXCEPT !.forward_prepared = NoStep, !.next_forward = @ + 1,
                   !.completed_forward = @ \cup {m + 1}]
  BY <1>2 DEF ReplayStep, Completed, AfterCompleted
<1>4. 1..m \cup {m + 1} = 1..(m + 1) /\ (m + 1)..m = ((m + 1) + 1)..(m + 1)
  BY <1>1
<1> DEFINE next == ReplayStep(st, rec)
<1>5. ~st.rollback_started /\ st.next_forward = m + 1 /\ st.rollback_prepared = NoStep
  BY <1>1 DEF Shape
<1>6. next \in ReplayState
  <2>1. st \in ReplayState /\ st.completed_forward \subseteq StepNumber
    BY DEF Shape, ReplayState
  <2>2. st.next_forward + 1 \in 1..(StepCount + 1)
    BY <1>1, <1>5
  <2>3. st.completed_forward \cup {m + 1} \in SUBSET StepNumber
    BY <1>1, <2>1
  <2> QED BY <1>3, <2>1, <2>2, <2>3 DEF ReplayState
<1>7. /\ next.completed_forward = 1..(m + 1)
      /\ next.completed_rollback = ((m + 1) + 1)..(m + 1)
      /\ next.forward_prepared = NoStep /\ next.rollback_prepared = NoStep
      /\ next.next_forward = (m + 1) + 1 /\ ~next.rollback_started
      /\ next.terminal = "None" /\ next.intent /\ ~next.corrupt
  BY <1>3, <1>4, <1>5 DEF Shape, ReplayState, InProgress
<1> HIDE DEF next
<1>8. Shape(next, m + 1, m + 1) /\ InProgress(next) /\ NothingPrepared(next)
  BY <1>1, <1>6, <1>7 DEF Shape, InProgress, NothingPrepared
<1> QED BY <1>7, <1>8 DEF next

LEMMA ReplayNotAppliedForward ==
  ASSUME NEW st, NEW m \in 0..(StepCount - 1), Shape(st, m, m), InProgress(st),
         st.forward_prepared = m + 1
  PROVE  LET next == ReplayStep(st, NotApplied(m + 1, "Forward"))
         IN  Shape(next, m, m) /\ InProgress(next) /\ NothingPrepared(next)
<1> DEFINE rec == NotApplied(m + 1, "Forward")
<1>1. StepCount \in Nat /\ m \in Nat /\ m + 1 \in StepNumber /\ m + 1 # NoStep
  BY StepsAssumption DEF ValidSteps, StepNumber, NoStep
<1>2. Accepts(st, rec)
  BY <1>1 DEF Accepts, NotApplied, WasPrepared, Shape, InProgress
<1>3. ReplayStep(st, rec) =
        [st EXCEPT !.forward_prepared = NoStep, !.next_forward = @ + 1,
                   !.rollback_started = TRUE]
  BY <1>2 DEF ReplayStep, NotApplied, AfterNotApplied
<1> DEFINE next == ReplayStep(st, rec)
<1>4. st.next_forward = m + 1 /\ st.rollback_prepared = NoStep
  BY <1>1 DEF Shape
<1>5. next \in ReplayState
  <2>1. st \in ReplayState /\ st.next_forward + 1 \in 1..(StepCount + 1)
    BY <1>1, <1>4 DEF Shape
  <2> QED BY <1>3, <2>1 DEF ReplayState
<1>6. /\ next.completed_forward = 1..m
      /\ next.completed_rollback = (m + 1)..m
      /\ next.forward_prepared = NoStep /\ next.rollback_prepared = NoStep
      /\ next.rollback_started /\ next.terminal = "None" /\ next.intent /\ ~next.corrupt
  BY <1>3, <1>4 DEF Shape, ReplayState, InProgress
<1> HIDE DEF next
<1>7. Shape(next, m, m) /\ InProgress(next) /\ NothingPrepared(next)
  BY <1>1, <1>5, <1>6 DEF Shape, InProgress, NothingPrepared
<1> QED BY <1>7 DEF next

LEMMA ReplayPreparedRollback ==
  ASSUME NEW st, NEW m, NEW r \in StepNumber, Shape(st, m, r), InProgress(st),
         NothingPrepared(st)
  PROVE  LET next == ReplayStep(st, Prepared(r, "Rollback"))
         IN  /\ Shape(next, m, r) /\ InProgress(next)
             /\ next.forward_prepared = NoStep /\ next.rollback_prepared = r
<1> DEFINE rec == Prepared(r, "Rollback")
<1>1. StepCount \in Nat /\ m \in Nat /\ r \in Nat /\ r # NoStep
  BY StepsAssumption DEF ValidSteps, StepNumber, NoStep, Shape
<1>2. r = LastRemaining(st)
  BY RemainingOfShape
<1>3. Accepts(st, rec)
  BY <1>1, <1>2 DEF Accepts, Prepared, MayPrepare, Shape, InProgress
<1>4. ReplayStep(st, rec) =
        [st EXCEPT !.rollback_prepared = r, !.rollback_started = TRUE]
  BY <1>3 DEF ReplayStep, Prepared, AfterPrepared
<1> QED BY <1>1, <1>4 DEF Shape, InProgress, ReplayState, NothingPrepared, NoStep, StepNumber

LEMMA ReplayCompletedRollback ==
  ASSUME NEW st, NEW m, NEW r \in StepNumber, Shape(st, m, r), InProgress(st),
         st.rollback_prepared = r
  PROVE  LET next == ReplayStep(st, Completed(r, "Rollback"))
         IN  Shape(next, m, r - 1) /\ InProgress(next) /\ NothingPrepared(next)
<1> DEFINE rec == Completed(r, "Rollback")
<1>1. StepCount \in Nat /\ m \in Nat /\ r \in Nat /\ r # NoStep /\ r >= 1 /\ r <= m
  BY StepsAssumption DEF ValidSteps, StepNumber, NoStep, Shape
<1>2. Accepts(st, rec)
  BY <1>1 DEF Accepts, Completed, WasPrepared, Shape, InProgress
<1>3. ReplayStep(st, rec) =
        [st EXCEPT !.rollback_prepared = NoStep,
                   !.completed_rollback = @ \cup {r}]
  BY <1>2 DEF ReplayStep, Completed, AfterCompleted
<1>4. (r + 1)..m \cup {r} = ((r - 1) + 1)..m
  BY <1>1
<1> DEFINE next == ReplayStep(st, rec)
<1>5. st.rollback_started /\ st.forward_prepared = NoStep
  BY <1>1 DEF Shape
<1>6. next \in ReplayState
  <2>1. st \in ReplayState /\ st.completed_rollback \subseteq StepNumber
    BY DEF Shape, ReplayState
  <2>2. st.completed_rollback \cup {r} \in SUBSET StepNumber
    BY <2>1
  <2> QED BY <1>3, <2>1, <2>2 DEF ReplayState
<1>7. /\ next.completed_forward = 1..m
      /\ next.completed_rollback = ((r - 1) + 1)..m
      /\ next.forward_prepared = NoStep /\ next.rollback_prepared = NoStep
      /\ next.rollback_started /\ next.terminal = "None" /\ next.intent /\ ~next.corrupt
  BY <1>3, <1>4, <1>5 DEF Shape, ReplayState, InProgress
<1> HIDE DEF next
<1>8. m \in 0..StepCount /\ r - 1 \in 0..m
  BY <1>1 DEF Shape
<1>9. Shape(next, m, r - 1) /\ InProgress(next) /\ NothingPrepared(next)
  BY <1>6, <1>7, <1>8 DEF Shape, InProgress, NothingPrepared
<1> QED BY <1>9 DEF next

LEMMA ReplayNotAppliedRollback ==
  ASSUME NEW st, NEW m, NEW r \in StepNumber, Shape(st, m, r), InProgress(st),
         st.rollback_prepared = r
  PROVE  LET next == ReplayStep(st, NotApplied(r, "Rollback"))
         IN  Shape(next, m, r) /\ InProgress(next) /\ NothingPrepared(next)
<1> DEFINE rec == NotApplied(r, "Rollback")
<1>1. StepCount \in Nat /\ m \in Nat /\ r \in Nat /\ r # NoStep
  BY StepsAssumption DEF ValidSteps, StepNumber, NoStep, Shape
<1>2. Accepts(st, rec)
  BY <1>1 DEF Accepts, NotApplied, WasPrepared, Shape, InProgress
<1>3. ReplayStep(st, rec) = [st EXCEPT !.rollback_prepared = NoStep]
  BY <1>2 DEF ReplayStep, NotApplied, AfterNotApplied
<1> QED BY <1>1, <1>3 DEF Shape, InProgress, ReplayState, NothingPrepared, NoStep, StepNumber

LEMMA ReplayCommitted ==
  ASSUME NEW st, Shape(st, StepCount, StepCount), InProgress(st), NothingPrepared(st)
  PROVE  LET next == ReplayStep(st, Terminal("Committed"))
         IN  Shape(next, StepCount, StepCount) /\ next.intent
<1> DEFINE rec == Terminal("Committed")
<1>1. StepCount \in Nat /\ (StepCount + 1)..StepCount = {}
  BY StepsAssumption DEF ValidSteps
<1>2. Accepts(st, rec)
  BY <1>1 DEF Accepts, Terminal, MayTerminate, Shape, InProgress, StepNumber
<1>3. ReplayStep(st, rec) = [st EXCEPT !.terminal = "Committed"]
  BY <1>2 DEF ReplayStep, Terminal
<1> QED BY <1>1, <1>3 DEF Shape, InProgress, ReplayState, NothingPrepared

LEMMA ReplayRolledBack ==
  ASSUME NEW st, NEW m, Shape(st, m, 0), InProgress(st), NothingPrepared(st)
  PROVE  LET next == ReplayStep(st, Terminal("RolledBack"))
         IN  Shape(next, m, 0) /\ next.intent /\ next.terminal = "RolledBack"
<1> DEFINE rec == Terminal("RolledBack")
<1>1. st.completed_forward = st.completed_rollback
  BY DEF Shape
<1>2. Accepts(st, rec)
  BY <1>1 DEF Accepts, Terminal, MayTerminate, Shape, InProgress
<1>3. ReplayStep(st, rec) = [st EXCEPT !.terminal = "RolledBack"]
  BY <1>2 DEF ReplayStep, Terminal
<1> QED BY <1>3 DEF Shape, InProgress, ReplayState, NothingPrepared

-----------------------------------------------------------------------------
LEMMA Sizes ==
  /\ StepCount \in Nat /\ StepCount > 0
  /\ RowCount \in Nat
  /\ MaxFrames \in Nat
  /\ MaxFaults \in Nat
BY StepsAssumption, RowsAssumption, MaxFramesAssumption, MaxFaultsAssumption DEF ValidSteps

LEMMA InitControl == Init => ControlInv
<1> SUFFICES ASSUME Init PROVE ControlInv
  OBVIOUS
<1>1. Shape(EmptyReplay, 0, 0) /\ EmptyReplay \in ReplayState
  BY ShapeOfEmpty DEF Shape
<1>2. StepCount \in Nat /\ RowCount \in Nat /\ MaxFrames \in Nat /\ MaxFaults \in Nat
  BY StepsAssumption, RowsAssumption, MaxFramesAssumption, MaxFaultsAssumption
     DEF ValidSteps
<1>3. fs \in [Keys -> Occupant]
  BY OccAssumption, <1>2 DEF Init, FsInit, ValidOcc, Occupant
<1>4. TypeOK
  <2>0. disturbed \in BOOLEAN /\ torn \in BOOLEAN /\ poisoned \in BOOLEAN
    BY DEF Init, FsInit, JournalInit
  <2>1. FsTypeOK
    <3>1. faults \in 0..MaxFaults
      BY <1>2 DEF Init, FsInit
    <3> QED BY <1>3, <2>0, <3>1 DEF FsTypeOK
  <2>2. JournalTypeOK
    <3>1. frames \in 0..MaxFrames
      BY <1>2 DEF Init, JournalInit
    <3> QED BY <1>1, <2>0, <3>1 DEF Init, JournalInit, JournalTypeOK
  <2>3. ExecTypeOK
    BY <1>2 DEF Init, ExecInit, ExecTypeOK, Pc, Cursor, RenameState, Outcome
  <2> QED BY <2>1, <2>2, <2>3 DEF TypeOK
<1>5. Shaped(journal)
  BY <1>1, <1>2 DEF Init, JournalInit, Shaped
<1>6. NameTellsContent
  BY DEF Init, JournalInit, NameTellsContent
<1>7. PlaceTellsJournal
  BY DEF Init, JournalInit, ExecInit, PlaceTellsJournal, PreIntentPc, ForwardInDoubtPc,
         RollbackInDoubtPc, ReverseInDoubtPc
<1> QED BY <1>4, <1>5, <1>6, <1>7 DEF ControlInv

(***************************************************************************)
(* A step that leaves the journal file alone keeps what is known of it.    *)
(***************************************************************************)
LEMMA JournalUntouched ==
  ASSUME ControlInv, UNCHANGED journalVars, poisoned => pc' \in {"Report", "Locked"}
  PROVE  JournalTypeOK' /\ Shaped(journal)' /\ NameTellsContent'
BY DEF ControlInv, TypeOK, JournalTypeOK, NameTellsContent, journalVars

(***************************************************************************)
(* A process that reports a started transaction or locks itself needs      *)
(* nothing more of the journal.                                            *)
(***************************************************************************)
LEMMA AtRest ==
  ASSUME \/ pc' = "Report" /\ outcome' # "Refused"
         \/ pc' = "Locked"
         \/ pc' = "Staged"
  PROVE  PlaceTellsJournal'
BY DEF PlaceTellsJournal, PreIntentPc, ForwardInDoubtPc, RollbackInDoubtPc,
       ReverseInDoubtPc

LEMMA PlaceUntouched ==
  ASSUME ControlInv, UNCHANGED <<pc, at, outcome, journalVars>>
  PROVE  PlaceTellsJournal'
BY DEF ControlInv, PlaceTellsJournal, InCandidate, InActive, Doubt, Applied, journalVars

LEMMA StartApplyControl == ControlInv /\ StartApply => ControlInv'
<1> SUFFICES ASSUME ControlInv, StartApply PROVE ControlInv'
  OBVIOUS
<1>1. StepCount \in Nat /\ RowCount \in Nat
  BY StepsAssumption, RowsAssumption DEF ValidSteps
<1>2. TypeOK'
  BY <1>1 DEF ControlInv, StartApply, TypeOK, FsTypeOK, JournalTypeOK, ExecTypeOK, fsVars,
     journalVars, Pc, ExecutorPc, Cursor, RenameState, Outcome
<1>3. JournalTypeOK' /\ Shaped(journal)' /\ NameTellsContent'
  BY JournalUntouched DEF StartApply, ControlInv, NameTellsContent
<1>4. PlaceTellsJournal'
  BY <1>1 DEF ControlInv, StartApply, PlaceTellsJournal, journalVars, PreIntentPc,
     ForwardInDoubtPc, RollbackInDoubtPc, ReverseInDoubtPc
<1> QED BY <1>2, <1>3, <1>4 DEF ControlInv

LEMMA FreezeRowControl == ControlInv /\ FreezeRow => ControlInv'
<1> SUFFICES ASSUME ControlInv, FreezeRow PROVE ControlInv'
  OBVIOUS
<1>1. StepCount \in Nat /\ RowCount \in Nat /\ MaxFaults \in Nat
  BY StepsAssumption, RowsAssumption, MaxFaultsAssumption DEF ValidSteps
<1>2. FsTypeOK' /\ ExecTypeOK'
  <2>1. FsTypeOK'
    BY <1>1 DEF ControlInv, FreezeRow, Fault, NoFault, TypeOK, FsTypeOK
  <2>2. at' \in Cursor
    BY <1>1 DEF ControlInv, FreezeRow, Return, TypeOK, ExecTypeOK, PlaceTellsJournal, Cursor
  <2>3. pc' \in Pc /\ outcome' \in Outcome
    BY DEF ControlInv, FreezeRow, Return, TypeOK, ExecTypeOK, Pc, ExecutorPc, Outcome
  <2>4. token' = token /\ states' = states
    BY DEF FreezeRow, Return
  <2> QED BY <2>1, <2>2, <2>3, <2>4 DEF ControlInv, TypeOK, ExecTypeOK
<1>3. JournalTypeOK' /\ Shaped(journal)' /\ NameTellsContent'
  BY JournalUntouched DEF FreezeRow, ControlInv, NameTellsContent
<1>4. PlaceTellsJournal'
  BY <1>1 DEF ControlInv, TypeOK, ExecTypeOK, FreezeRow, Return, PlaceTellsJournal, journalVars, PreIntentPc,
     ForwardInDoubtPc, RollbackInDoubtPc, ReverseInDoubtPc, InCandidate
<1> QED BY <1>2, <1>3, <1>4 DEF ControlInv, TypeOK


LEMMA FreezeTemporariesControl == ControlInv /\ FreezeTemporaries => ControlInv'
<1> SUFFICES ASSUME ControlInv, FreezeTemporaries PROVE ControlInv'
  OBVIOUS
<1>1. FsTypeOK'
  BY Sizes DEF ControlInv, TypeOK, FsTypeOK, FreezeTemporaries, Fault, NoFault, Goto, Return
<1>2. ExecTypeOK'
  BY Sizes DEF ControlInv, TypeOK, ExecTypeOK, Pc, ExecutorPc, RecoveryPc, Outcome,
         Cursor, PlaceTellsJournal, FreezeTemporaries, Goto, Return
<1>3. JournalTypeOK' /\ Shaped(journal)' /\ NameTellsContent'
  BY JournalUntouched DEF ControlInv, NameTellsContent, FreezeTemporaries, Goto, Return
<1>4. PlaceTellsJournal'
  BY Sizes DEF ControlInv, TypeOK, ExecTypeOK, journalVars, PlaceTellsJournal, PreIntentPc,
         ForwardInDoubtPc, RollbackInDoubtPc, ReverseInDoubtPc, InCandidate, InActive, FreezeTemporaries, Goto, Return
<1> QED BY <1>1, <1>2, <1>3, <1>4 DEF ControlInv, TypeOK

LEMMA BeginTransactionControl == ControlInv /\ BeginTransaction => ControlInv'
<1> SUFFICES ASSUME ControlInv, BeginTransaction PROVE ControlInv'
  OBVIOUS
<1>1. FsTypeOK'
  BY Sizes DEF ControlInv, TypeOK, FsTypeOK, fsVars, BeginTransaction, Return
<1>2. ExecTypeOK'
  BY Sizes DEF ControlInv, TypeOK, ExecTypeOK, Pc, ExecutorPc, RecoveryPc, Outcome,
         Cursor, PlaceTellsJournal, BeginTransaction, Return
<1>3. JournalTypeOK' /\ Shaped(journal)' /\ NameTellsContent'
  BY JournalUntouched DEF ControlInv, NameTellsContent, BeginTransaction, Return
<1>4. PlaceTellsJournal'
  BY Sizes DEF ControlInv, TypeOK, ExecTypeOK, journalVars, PlaceTellsJournal, PreIntentPc,
         ForwardInDoubtPc, RollbackInDoubtPc, ReverseInDoubtPc, InCandidate, InActive, BeginTransaction, Return
<1> QED BY <1>1, <1>2, <1>3, <1>4 DEF ControlInv, TypeOK

LEMMA RequestCancelControl == ControlInv /\ RequestCancel => ControlInv'
<1> SUFFICES ASSUME ControlInv, RequestCancel PROVE ControlInv'
  OBVIOUS
<1>1. FsTypeOK'
  BY Sizes DEF ControlInv, TypeOK, FsTypeOK, fsVars, RequestCancel
<1>2. ExecTypeOK'
  BY Sizes DEF ControlInv, TypeOK, ExecTypeOK, Pc, ExecutorPc, RecoveryPc, Outcome,
         Cursor, PlaceTellsJournal, RequestCancel
<1>3. JournalTypeOK' /\ Shaped(journal)' /\ NameTellsContent'
  BY JournalUntouched DEF ControlInv, NameTellsContent, RequestCancel
<1>4. PlaceTellsJournal'
  <2>1. UNCHANGED <<pc, at, outcome, journalVars>>
    BY DEF RequestCancel
  <2> QED BY <2>1, PlaceUntouched
<1> QED BY <1>1, <1>2, <1>3, <1>4 DEF ControlInv, TypeOK

LEMMA ConfirmRecoveryControl == ControlInv /\ ConfirmRecovery => ControlInv'
<1> SUFFICES ASSUME ControlInv, ConfirmRecovery PROVE ControlInv'
  OBVIOUS
<1>1. FsTypeOK'
  BY Sizes DEF ControlInv, TypeOK, FsTypeOK, fsVars, ConfirmRecovery, Goto
<1>2. ExecTypeOK'
  BY Sizes DEF ControlInv, TypeOK, ExecTypeOK, Pc, ExecutorPc, RecoveryPc, Outcome,
         Cursor, PlaceTellsJournal, ConfirmRecovery, Goto
<1>3. JournalTypeOK' /\ Shaped(journal)' /\ NameTellsContent'
  BY JournalUntouched DEF ControlInv, NameTellsContent, ConfirmRecovery, Goto
<1>4. PlaceTellsJournal'
  BY Sizes DEF ControlInv, TypeOK, ExecTypeOK, journalVars, PlaceTellsJournal, PreIntentPc,
         ForwardInDoubtPc, RollbackInDoubtPc, ReverseInDoubtPc, InCandidate, InActive, ConfirmRecovery, Goto
<1> QED BY <1>1, <1>2, <1>3, <1>4 DEF ControlInv, TypeOK

LEMMA DeclineRecoveryControl == ControlInv /\ DeclineRecovery => ControlInv'
<1> SUFFICES ASSUME ControlInv, DeclineRecovery PROVE ControlInv'
  OBVIOUS
<1>1. FsTypeOK'
  BY Sizes DEF ControlInv, TypeOK, FsTypeOK, fsVars, DeclineRecovery, Goto
<1>2. ExecTypeOK'
  BY Sizes DEF ControlInv, TypeOK, ExecTypeOK, Pc, ExecutorPc, RecoveryPc, Outcome,
         Cursor, PlaceTellsJournal, DeclineRecovery, Goto
<1>3. JournalTypeOK' /\ Shaped(journal)' /\ NameTellsContent'
  BY JournalUntouched DEF ControlInv, NameTellsContent, DeclineRecovery, Goto
<1>4. PlaceTellsJournal'
  BY Sizes DEF ControlInv, TypeOK, ExecTypeOK, journalVars, PlaceTellsJournal, PreIntentPc,
         ForwardInDoubtPc, RollbackInDoubtPc, ReverseInDoubtPc, InCandidate, InActive, DeclineRecovery, Goto
<1> QED BY <1>1, <1>2, <1>3, <1>4 DEF ControlInv, TypeOK

LEMMA RecoveryNotRequiredControl == ControlInv /\ RecoveryNotRequired => ControlInv'
<1> SUFFICES ASSUME ControlInv, RecoveryNotRequired PROVE ControlInv'
  OBVIOUS
<1>1. FsTypeOK'
  BY Sizes DEF ControlInv, TypeOK, FsTypeOK, fsVars, RecoveryNotRequired, Finish
<1>2. ExecTypeOK'
  BY Sizes DEF ControlInv, TypeOK, ExecTypeOK, Pc, ExecutorPc, RecoveryPc, Outcome,
         Cursor, PlaceTellsJournal, RecoveryNotRequired, Finish
<1>3. JournalTypeOK' /\ Shaped(journal)' /\ NameTellsContent'
  BY JournalUntouched DEF ControlInv, NameTellsContent, RecoveryNotRequired, Finish
<1>4. PlaceTellsJournal'
  BY Sizes DEF ControlInv, TypeOK, ExecTypeOK, journalVars, PlaceTellsJournal, PreIntentPc,
         ForwardInDoubtPc, RollbackInDoubtPc, ReverseInDoubtPc, InCandidate, InActive, RecoveryNotRequired, Finish
<1> QED BY <1>1, <1>2, <1>3, <1>4 DEF ControlInv, TypeOK

LEMMA RecoveryBlockedControl == ControlInv /\ RecoveryBlocked => ControlInv'
<1> SUFFICES ASSUME ControlInv, RecoveryBlocked PROVE ControlInv'
  OBVIOUS
<1>1. FsTypeOK'
  BY Sizes DEF ControlInv, TypeOK, FsTypeOK, fsVars, RecoveryBlocked, Finish, Fault, NoFault
<1>2. ExecTypeOK'
  BY Sizes DEF ControlInv, TypeOK, ExecTypeOK, Pc, ExecutorPc, RecoveryPc, Outcome,
         Cursor, PlaceTellsJournal, RecoveryBlocked, Finish, Fault, NoFault
<1>3. JournalTypeOK' /\ Shaped(journal)' /\ NameTellsContent'
  BY JournalUntouched DEF ControlInv, NameTellsContent, RecoveryBlocked, Finish, Fault, NoFault
<1>4. PlaceTellsJournal'
  BY Sizes DEF ControlInv, TypeOK, ExecTypeOK, journalVars, PlaceTellsJournal, PreIntentPc,
         ForwardInDoubtPc, RollbackInDoubtPc, ReverseInDoubtPc, InCandidate, InActive, RecoveryBlocked, Finish, Fault, NoFault
<1> QED BY <1>1, <1>2, <1>3, <1>4 DEF ControlInv, TypeOK

LEMMA EnvironmentControl == ControlInv /\ Environment => ControlInv'
<1> SUFFICES ASSUME ControlInv, Environment PROVE ControlInv'
  OBVIOUS
<1>1. UNCHANGED <<journalVars, execVars>>
  BY DEF Environment
<1>2. PICK k \in Keys, x \in Occupant : Interfere(k, x)
  BY DEF Environment
<1>3. FsTypeOK'
  <2>1. disturbed' \in BOOLEAN
    BY <1>2, Zenon DEF Interfere
  <2>2. fs' \in [Keys -> Occupant] /\ faults' \in 0..MaxFaults
    BY <1>2, Sizes DEF Interfere, Fault, ControlInv, TypeOK, FsTypeOK
  <2> QED BY <2>1, <2>2 DEF FsTypeOK
<1>4. ExecTypeOK'
  BY <1>1 DEF execVars, ControlInv, TypeOK, ExecTypeOK
<1>5. JournalTypeOK' /\ Shaped(journal)' /\ NameTellsContent'
  BY <1>1, JournalUntouched DEF execVars, ControlInv, NameTellsContent
<1>6. PlaceTellsJournal'
  BY <1>1, PlaceUntouched DEF execVars
<1> QED BY <1>3, <1>4, <1>5, <1>6 DEF ControlInv, TypeOK

(***************************************************************************)
(* An append to the active journal, whatever its outcome, leaves a file    *)
(* that replay accepts, if it accepts the record.                          *)
(***************************************************************************)
AnyAppend(rec) ==
  \/ AppendOk(rec) \/ AppendNotAppended \/ AppendMayHaveAppended(rec)
  \/ AuthorizedAppendOk(rec) \/ AuthorizedFailure(rec)

LEMMA ActiveAppend ==
  ASSUME ControlInv, NEW rec, AnyAppend(rec), InActive,
         Shaped(ReplayStep(journal, rec)), ReplayStep(journal, rec).intent,
         UNCHANGED <<fs, disturbed>>, poisoned' => pc' \in {"Report", "Locked"}
  PROVE  FsTypeOK' /\ JournalTypeOK' /\ Shaped(journal)' /\ NameTellsContent'
<1>1. faults' \in 0..MaxFaults
  BY Sizes
     DEF ControlInv, TypeOK, FsTypeOK, AnyAppend, AppendOk, AppendNotAppended,
         AppendMayHaveAppended, AuthorizedAppendOk, AuthorizedFailure,
         AuthorizedAppendNotAppended, AuthorizedAppendMayHaveAppended, Fault, NoFault
<1>2. FsTypeOK'
  BY <1>1 DEF ControlInv, TypeOK, FsTypeOK
<1>3. torn' \in BOOLEAN /\ poisoned' \in BOOLEAN
  BY DEF ControlInv, TypeOK, JournalTypeOK, AnyAppend, AppendOk, AppendNotAppended,
         AppendMayHaveAppended, AuthorizedAppendOk, AuthorizedFailure,
         AuthorizedAppendNotAppended, AuthorizedAppendMayHaveAppended, journalVars
<1>4. /\ leaf' = "Active" /\ phase' = "Active"
      /\ frames' \in 0..MaxFrames
      /\ journal' \in {journal, ReplayStep(journal, rec)}
  BY Sizes
     DEF ControlInv, TypeOK, JournalTypeOK, AnyAppend, AppendOk, AppendNotAppended,
         AppendMayHaveAppended, AuthorizedAppendOk, AuthorizedFailure,
         AuthorizedAppendNotAppended, AuthorizedAppendMayHaveAppended, journalVars, InActive,
         RoomLeft
<1>5. Shaped(journal') /\ journal'.intent
  BY <1>4 DEF ControlInv, NameTellsContent, InActive
<1>6. journal' \in ReplayState
  BY <1>5 DEF Shaped, Shape
<1>7. JournalTypeOK'
  BY <1>3, <1>4, <1>6 DEF JournalTypeOK
<1>8. NameTellsContent'
  BY <1>4, <1>5 DEF NameTellsContent
<1> QED BY <1>2, <1>5, <1>7, <1>8

LEMMA ShapedOf ==
  ASSUME NEW st, NEW m, NEW r, Shape(st, m, r)
  PROVE  Shaped(st) /\ m \in 0..StepCount /\ r \in 0..StepCount
<1>1. m \in 0..StepCount /\ r \in 0..StepCount
  BY Sizes DEF Shape
<1> QED BY <1>1 DEF Shaped

-----------------------------------------------------------------------------
(***************************************************************************)
(* The forward loop.                                                       *)
(***************************************************************************)
LEMMA CancelForwardControl == ControlInv /\ CancelForward => ControlInv'
<1> SUFFICES ASSUME ControlInv, CancelForward PROVE ControlInv'
  OBVIOUS
<1>1. /\ at \in 1..(StepCount + 1) /\ InActive /\ ~torn
      /\ Doubt(NoStep, NoStep) /\ Shape(journal, at - 1, at - 1)
  BY DEF ControlInv, PlaceTellsJournal, CancelForward
<1>2. FsTypeOK' /\ ExecTypeOK'
  BY <1>1, Sizes DEF ControlInv, TypeOK, FsTypeOK, ExecTypeOK, CancelForward, StartRollback,
     fsVars, Pc, ExecutorPc, Cursor
<1>3. JournalTypeOK' /\ Shaped(journal)' /\ NameTellsContent'
  BY JournalUntouched DEF ControlInv, NameTellsContent, CancelForward
<1>4. at - 1 \in 0..StepCount /\ Applied(at - 1)
  BY <1>1, Sizes DEF Applied
<1>5. PlaceTellsJournal'
  BY <1>1, <1>4 DEF CancelForward, StartRollback, journalVars, PlaceTellsJournal, InActive,
     Doubt, Applied, PreIntentPc, ForwardInDoubtPc, RollbackInDoubtPc, ReverseInDoubtPc
<1> QED BY <1>2, <1>3, <1>5 DEF ControlInv, TypeOK

LEMMA PrepareForwardControl == ControlInv /\ PrepareForward => ControlInv'
<1> SUFFICES ASSUME ControlInv, PrepareForward PROVE ControlInv'
  OBVIOUS
<1> DEFINE rec == Prepared(at, "Forward")
           next == ReplayStep(journal, rec)
<1>1. /\ at \in 1..StepCount /\ InActive /\ ~torn /\ ~poisoned
      /\ Doubt(NoStep, NoStep) /\ ~journal.rollback_started
      /\ Shape(journal, at - 1, at - 1)
  BY Sizes DEF ControlInv, PlaceTellsJournal, PrepareForward, InActive
<1>2. /\ Shape(next, at - 1, at - 1) /\ InProgress(next)
      /\ next.forward_prepared = at /\ next.rollback_prepared = NoStep
  <2>1. at - 1 \in 0..(StepCount - 1) /\ (at - 1) + 1 = at
    BY <1>1, Sizes
  <2>2. InProgress(journal) /\ NothingPrepared(journal)
    BY <1>1 DEF Doubt, InProgress, NothingPrepared
  <2> QED BY <1>1, <2>1, <2>2, ReplayPreparedForward
<1>3. Shaped(next) /\ next.intent
  BY <1>2, ShapedOf DEF InProgress
<1> HIDE DEF next
<1>4. AnyAppend(rec) /\ UNCHANGED <<fs, disturbed>> /\ (poisoned' => pc' \in {"Report", "Locked"})
  BY <1>1 DEF PrepareForward, AnyAppend, AppendOk, AppendNotAppended, AppendMayHaveAppended,
     journalVars, Return
<1>5. FsTypeOK' /\ JournalTypeOK' /\ Shaped(journal)' /\ NameTellsContent'
  BY <1>1, <1>3, <1>4, ActiveAppend DEF next
<1>6. ExecTypeOK'
  <2>1. at' \in Cursor
    BY <1>1, Sizes DEF ControlInv, TypeOK, ExecTypeOK, Cursor, StepNumber, PrepareForward, StartRollback, Goto, Return
  <2>2. pc' \in Pc
    BY DEF Pc, ExecutorPc, RecoveryPc, PrepareForward, StartRollback, Goto, Return
  <2>3. outcome' \in Outcome
    BY DEF ControlInv, TypeOK, ExecTypeOK, Outcome, PrepareForward, StartRollback, Goto, Return
  <2>4. token' \subseteq {"CancelRequested", "BeginCommitted"}
    BY DEF ControlInv, TypeOK, ExecTypeOK, PrepareForward, StartRollback, Goto, Return
  <2>5. states' \in [Entries -> RenameState]
    BY DEF ControlInv, TypeOK, ExecTypeOK, PrepareForward, StartRollback, Goto, Return
  <2> QED BY <2>1, <2>2, <2>3, <2>4, <2>5 DEF ExecTypeOK
<1>7. PlaceTellsJournal'
  <2>1. CASE AppendOk(rec) /\ Goto("Rename")
    <3>1. journal' = next
      BY <2>1 DEF AppendOk, next
    <3> QED BY <1>1, <1>2, <2>1, <3>1 DEF AppendOk, Goto, PlaceTellsJournal, InActive, Doubt,
        InProgress, StepNumber, PreIntentPc, ForwardInDoubtPc, RollbackInDoubtPc, ReverseInDoubtPc
  <2>2. CASE AppendNotAppended /\ StartRollback
    <3>1. at - 1 \in 0..StepCount /\ Applied(at - 1)
      BY <1>1, Sizes DEF Applied
    <3> QED BY <1>1, <2>2, <3>1 DEF AppendNotAppended, StartRollback, journalVars,
        PlaceTellsJournal, InActive, Doubt, Applied, PreIntentPc, ForwardInDoubtPc, RollbackInDoubtPc, ReverseInDoubtPc
  <2>3. CASE AppendMayHaveAppended(rec) /\ Return("RecoveryRequired")
    BY <2>3, AtRest DEF Return
  <2> QED BY <2>1, <2>2, <2>3 DEF PrepareForward
<1> QED BY <1>5, <1>6, <1>7 DEF ControlInv, TypeOK

LEMMA RecordNotAppliedControl == ControlInv /\ RecordNotApplied => ControlInv'
<1> SUFFICES ASSUME ControlInv, RecordNotApplied PROVE ControlInv'
  OBVIOUS
<1> DEFINE rec == NotApplied(at, "Forward")
           next == ReplayStep(journal, rec)
<1>1. /\ at \in StepNumber /\ InActive /\ ~torn /\ ~poisoned
      /\ Doubt(at, NoStep) /\ Shape(journal, at - 1, at - 1)
  BY Sizes DEF ControlInv, PlaceTellsJournal, RecordNotApplied, InActive, ForwardInDoubtPc
<1>2. Shape(next, at - 1, at - 1) /\ InProgress(next) /\ NothingPrepared(next)
  <2>1. at - 1 \in 0..(StepCount - 1) /\ (at - 1) + 1 = at
    BY <1>1, Sizes DEF StepNumber
  <2>2. InProgress(journal) /\ journal.forward_prepared = (at - 1) + 1
    BY <1>1, <2>1 DEF Doubt, InProgress
  <2> QED BY <1>1, <2>1, <2>2, ReplayNotAppliedForward
<1>3. Shaped(next) /\ next.intent
  BY <1>2, ShapedOf DEF InProgress
<1> HIDE DEF next
<1>4. AnyAppend(rec) /\ UNCHANGED <<fs, disturbed>> /\ (poisoned' => pc' \in {"Report", "Locked"})
  BY <1>1 DEF RecordNotApplied, AnyAppend, AppendOk, AppendNotAppended, AppendMayHaveAppended,
     journalVars, StartRollback, Return
<1>5. FsTypeOK' /\ JournalTypeOK' /\ Shaped(journal)' /\ NameTellsContent'
  BY <1>1, <1>3, <1>4, ActiveAppend DEF next
<1>6. ExecTypeOK'
  <2>1. at' \in Cursor
    BY <1>1, Sizes DEF ControlInv, TypeOK, ExecTypeOK, Cursor, StepNumber, RecordNotApplied, StartRollback, Return
  <2>2. pc' \in Pc
    BY DEF Pc, ExecutorPc, RecoveryPc, RecordNotApplied, StartRollback, Return
  <2>3. outcome' \in Outcome
    BY DEF ControlInv, TypeOK, ExecTypeOK, Outcome, RecordNotApplied, StartRollback, Return
  <2>4. token' \subseteq {"CancelRequested", "BeginCommitted"}
    BY DEF ControlInv, TypeOK, ExecTypeOK, RecordNotApplied, StartRollback, Return
  <2>5. states' \in [Entries -> RenameState]
    BY DEF ControlInv, TypeOK, ExecTypeOK, RecordNotApplied, StartRollback, Return
  <2> QED BY <2>1, <2>2, <2>3, <2>4, <2>5 DEF ExecTypeOK
<1>7. PlaceTellsJournal'
  <2>1. CASE AppendOk(rec) /\ StartRollback
    <3>1. journal' = next
      BY <2>1 DEF AppendOk, next
    <3>2. at - 1 \in 0..StepCount /\ \E m \in 0..StepCount : Shape(next, m, at - 1)
      BY <1>1, <1>2, Sizes DEF StepNumber
    <3> QED BY <1>1, <1>2, <2>1, <3>1, <3>2, Sizes DEF AppendOk, StartRollback, PlaceTellsJournal, InActive,
        Doubt, Applied, InProgress, NothingPrepared, StepNumber, NoStep, PreIntentPc, ForwardInDoubtPc, RollbackInDoubtPc, ReverseInDoubtPc
  <2>2. CASE Return("RecoveryRequired")
    BY <2>2, AtRest DEF Return, Finish
  <2> QED BY <2>1, <2>2 DEF RecordNotApplied
<1> QED BY <1>5, <1>6, <1>7 DEF ControlInv, TypeOK

LEMMA RecordCompletedControl == ControlInv /\ RecordCompleted => ControlInv'
<1> SUFFICES ASSUME ControlInv, RecordCompleted PROVE ControlInv'
  OBVIOUS
<1> DEFINE rec == Completed(at, "Forward")
           next == ReplayStep(journal, rec)
<1>1. /\ at \in StepNumber /\ InActive /\ ~torn /\ ~poisoned
      /\ Doubt(at, NoStep) /\ Shape(journal, at - 1, at - 1)
  BY Sizes DEF ControlInv, PlaceTellsJournal, RecordCompleted, InActive, ForwardInDoubtPc
<1>2. /\ Shape(next, at, at) /\ InProgress(next)
      /\ NothingPrepared(next) /\ ~next.rollback_started
  <2>1. at - 1 \in 0..(StepCount - 1) /\ (at - 1) + 1 = at
    BY <1>1, Sizes DEF StepNumber
  <2>2. InProgress(journal) /\ journal.forward_prepared = (at - 1) + 1
    BY <1>1, <2>1 DEF Doubt, InProgress
  <2>3. LET n == ReplayStep(journal, Completed((at - 1) + 1, "Forward"))
        IN  /\ Shape(n, (at - 1) + 1, (at - 1) + 1) /\ InProgress(n)
            /\ NothingPrepared(n) /\ ~n.rollback_started
    BY <1>1, <2>1, <2>2, ReplayCompletedForward
  <2> QED BY <2>1, <2>3
<1>3. Shaped(next) /\ next.intent
  BY <1>2, ShapedOf DEF InProgress
<1> HIDE DEF next
<1>4. AnyAppend(rec) /\ UNCHANGED <<fs, disturbed>> /\ (poisoned' => pc' \in {"Report", "Locked"})
  BY <1>1 DEF RecordCompleted, AnyAppend, AppendOk, AppendNotAppended, AppendMayHaveAppended,
     journalVars, Return, SetState
<1>5. FsTypeOK' /\ JournalTypeOK' /\ Shaped(journal)' /\ NameTellsContent'
  BY <1>1, <1>3, <1>4, ActiveAppend DEF next
<1>6. ExecTypeOK'
  <2>1. at' \in Cursor
    BY <1>1, Sizes DEF ControlInv, TypeOK, ExecTypeOK, Cursor, StepNumber, RecordCompleted, Return, SetState
  <2>2. pc' \in Pc
    BY DEF Pc, ExecutorPc, RecoveryPc, RecordCompleted, Return, SetState
  <2>3. outcome' \in Outcome
    BY DEF ControlInv, TypeOK, ExecTypeOK, Outcome, RecordCompleted, Return, SetState
  <2>4. token' \subseteq {"CancelRequested", "BeginCommitted"}
    BY DEF ControlInv, TypeOK, ExecTypeOK, RecordCompleted, Return, SetState
  <2>5. states' \in [Entries -> RenameState]
    BY DEF ControlInv, TypeOK, ExecTypeOK, RecordCompleted, SetState, RenameState, Return
  <2> QED BY <2>1, <2>2, <2>3, <2>4, <2>5 DEF ExecTypeOK
<1>7. PlaceTellsJournal'
  <2>1. CASE AppendOk(rec) /\ pc' = "Step" /\ at' = at + 1
    <3>1. journal' = next
      BY <2>1 DEF AppendOk, next
    <3>2. at' - 1 = at /\ at' \in 1..(StepCount + 1)
      BY <1>1, <2>1, Sizes DEF StepNumber
    <3> QED BY <1>1, <1>2, <2>1, <3>1, <3>2, Sizes DEF AppendOk, RecordCompleted, PlaceTellsJournal, InActive,
        Doubt, Applied, InProgress, NothingPrepared, StepNumber, NoStep, PreIntentPc, ForwardInDoubtPc, RollbackInDoubtPc, ReverseInDoubtPc
  <2>2. CASE Return("RecoveryRequired")
    BY <2>2, AtRest DEF Return, Finish
  <2> QED BY <2>1, <2>2 DEF RecordCompleted
<1> QED BY <1>5, <1>6, <1>7 DEF ControlInv, TypeOK

LEMMA CommitControl == ControlInv /\ Commit => ControlInv'
<1> SUFFICES ASSUME ControlInv, Commit PROVE ControlInv'
  OBVIOUS
<1> DEFINE rec == Terminal("Committed")
           next == ReplayStep(journal, rec)
<1>1. /\ at = StepCount + 1 /\ InActive /\ ~torn /\ ~poisoned
      /\ Doubt(NoStep, NoStep) /\ Shape(journal, at - 1, at - 1)
  BY Sizes DEF ControlInv, PlaceTellsJournal, Commit, InActive
<1>2. Shape(next, StepCount, StepCount) /\ next.intent
  <2>1. at - 1 = StepCount
    BY <1>1, Sizes
  <2>2. InProgress(journal) /\ NothingPrepared(journal)
    BY <1>1 DEF Doubt, InProgress, NothingPrepared
  <2> QED BY <1>1, <2>1, <2>2, ReplayCommitted
<1>3. Shaped(next) /\ next.intent
  BY <1>2, ShapedOf DEF InProgress
<1> HIDE DEF next
<1>4. AnyAppend(rec) /\ UNCHANGED <<fs, disturbed>> /\ (poisoned' => pc' \in {"Report", "Locked"})
  BY <1>1 DEF Commit, AnyAppend, AppendOk, AppendNotAppended, AppendMayHaveAppended,
     journalVars, Return
<1>5. FsTypeOK' /\ JournalTypeOK' /\ Shaped(journal)' /\ NameTellsContent'
  BY <1>1, <1>3, <1>4, ActiveAppend DEF next
<1>6. ExecTypeOK'
  <2>1. at' \in Cursor
    BY <1>1, Sizes DEF ControlInv, TypeOK, ExecTypeOK, Cursor, StepNumber, Commit, Return
  <2>2. pc' \in Pc
    BY DEF Pc, ExecutorPc, RecoveryPc, Commit, Return
  <2>3. outcome' \in Outcome
    BY DEF ControlInv, TypeOK, ExecTypeOK, Outcome, Commit, Return
  <2>4. token' \subseteq {"CancelRequested", "BeginCommitted"}
    BY DEF ControlInv, TypeOK, ExecTypeOK, Commit, Return
  <2>5. states' \in [Entries -> RenameState]
    BY DEF ControlInv, TypeOK, ExecTypeOK, Commit, Return
  <2> QED BY <2>1, <2>2, <2>3, <2>4, <2>5 DEF ExecTypeOK
<1>7. PlaceTellsJournal'
  BY AtRest DEF Commit, Return
<1> QED BY <1>5, <1>6, <1>7 DEF ControlInv, TypeOK

LEMMA PrepareRollbackControl == ControlInv /\ PrepareRollback => ControlInv'
<1> SUFFICES ASSUME ControlInv, PrepareRollback PROVE ControlInv'
  OBVIOUS
<1> DEFINE rec == Prepared(at, "Rollback")
           next == ReplayStep(journal, rec)
<1>1. /\ at \in StepNumber /\ InActive /\ ~torn /\ ~poisoned
      /\ Doubt(NoStep, NoStep) /\ Applied(at)
  BY Sizes DEF ControlInv, PlaceTellsJournal, PrepareRollback, InActive, StepNumber
<1>2. \E m \in 0..StepCount :
        /\ Shape(next, m, at) /\ InProgress(next)
        /\ next.forward_prepared = NoStep /\ next.rollback_prepared = at
  <2>1. PICK m \in 0..StepCount : Shape(journal, m, at)
    BY <1>1 DEF Applied
  <2>2. InProgress(journal) /\ NothingPrepared(journal)
    BY <1>1 DEF Doubt, InProgress, NothingPrepared
  <2> QED BY <1>1, <2>1, <2>2, ReplayPreparedRollback
<1>3. Shaped(next) /\ next.intent
  BY <1>2, ShapedOf DEF InProgress
<1> HIDE DEF next
<1>4. AnyAppend(rec) /\ UNCHANGED <<fs, disturbed>> /\ (poisoned' => pc' \in {"Report", "Locked"})
  BY <1>1 DEF PrepareRollback, AnyAppend, AppendOk, AppendNotAppended, AppendMayHaveAppended,
     journalVars, Goto, Return, SetState
<1>5. FsTypeOK' /\ JournalTypeOK' /\ Shaped(journal)' /\ NameTellsContent'
  BY <1>1, <1>3, <1>4, ActiveAppend DEF next
<1>6. ExecTypeOK'
  <2>1. at' \in Cursor
    BY <1>1, Sizes DEF ControlInv, TypeOK, ExecTypeOK, Cursor, StepNumber, PrepareRollback, Goto, Return, SetState
  <2>2. pc' \in Pc
    BY DEF Pc, ExecutorPc, RecoveryPc, PrepareRollback, Goto, Return, SetState
  <2>3. outcome' \in Outcome
    BY DEF ControlInv, TypeOK, ExecTypeOK, Outcome, PrepareRollback, Goto, Return, SetState
  <2>4. token' \subseteq {"CancelRequested", "BeginCommitted"}
    BY DEF ControlInv, TypeOK, ExecTypeOK, PrepareRollback, Goto, Return, SetState
  <2>5. states' \in [Entries -> RenameState]
    BY DEF ControlInv, TypeOK, ExecTypeOK, PrepareRollback, SetState, RenameState, Return
  <2> QED BY <2>1, <2>2, <2>3, <2>4, <2>5 DEF ExecTypeOK
<1>7. PlaceTellsJournal'
  <2>1. CASE AppendOk(rec) /\ Goto("RbRename")
    <3>1. journal' = next
      BY <2>1 DEF AppendOk, next
    <3> QED BY <1>1, <1>2, <2>1, <3>1, Sizes DEF AppendOk, Goto, PlaceTellsJournal, InActive,
        Doubt, Applied, InProgress, NothingPrepared, StepNumber, NoStep, PreIntentPc, ForwardInDoubtPc, RollbackInDoubtPc, ReverseInDoubtPc
  <2>2. CASE Return("RecoveryRequired")
    BY <2>2, AtRest DEF Return, Finish
  <2> QED BY <2>1, <2>2 DEF PrepareRollback
<1> QED BY <1>5, <1>6, <1>7 DEF ControlInv, TypeOK

LEMMA RecordRollbackNotAppliedControl == ControlInv /\ RecordRollbackNotApplied => ControlInv'
<1> SUFFICES ASSUME ControlInv, RecordRollbackNotApplied PROVE ControlInv'
  OBVIOUS
<1> DEFINE rec == NotApplied(at, "Rollback")
           next == ReplayStep(journal, rec)
<1>1. /\ at \in StepNumber /\ InActive /\ ~torn /\ ~poisoned
      /\ Doubt(NoStep, at) /\ Applied(at)
  BY Sizes DEF ControlInv, PlaceTellsJournal, RecordRollbackNotApplied, InActive, RollbackInDoubtPc
<1>2. \E m \in 0..StepCount : Shape(next, m, at) /\ InProgress(next)
  <2>1. PICK m \in 0..StepCount : Shape(journal, m, at)
    BY <1>1 DEF Applied
  <2>2. InProgress(journal) /\ journal.rollback_prepared = at
    BY <1>1 DEF Doubt, InProgress, NothingPrepared
  <2> QED BY <1>1, <2>1, <2>2, ReplayNotAppliedRollback
<1>3. Shaped(next) /\ next.intent
  BY <1>2, ShapedOf DEF InProgress
<1> HIDE DEF next
<1>4. AnyAppend(rec) /\ UNCHANGED <<fs, disturbed>> /\ (poisoned' => pc' \in {"Report", "Locked"})
  BY <1>1 DEF RecordRollbackNotApplied, AnyAppend, AppendOk, AppendNotAppended, AppendMayHaveAppended,
     journalVars, Return
<1>5. FsTypeOK' /\ JournalTypeOK' /\ Shaped(journal)' /\ NameTellsContent'
  BY <1>1, <1>3, <1>4, ActiveAppend DEF next
<1>6. ExecTypeOK'
  <2>1. at' \in Cursor
    BY <1>1, Sizes DEF ControlInv, TypeOK, ExecTypeOK, Cursor, StepNumber, RecordRollbackNotApplied, Return
  <2>2. pc' \in Pc
    BY DEF Pc, ExecutorPc, RecoveryPc, RecordRollbackNotApplied, Return
  <2>3. outcome' \in Outcome
    BY DEF ControlInv, TypeOK, ExecTypeOK, Outcome, RecordRollbackNotApplied, Return
  <2>4. token' \subseteq {"CancelRequested", "BeginCommitted"}
    BY DEF ControlInv, TypeOK, ExecTypeOK, RecordRollbackNotApplied, Return
  <2>5. states' \in [Entries -> RenameState]
    BY DEF ControlInv, TypeOK, ExecTypeOK, RecordRollbackNotApplied, Return
  <2> QED BY <2>1, <2>2, <2>3, <2>4, <2>5 DEF ExecTypeOK
<1>7. PlaceTellsJournal'
  BY AtRest DEF RecordRollbackNotApplied, Return
<1> QED BY <1>5, <1>6, <1>7 DEF ControlInv, TypeOK

LEMMA RecordRollbackCompletedControl == ControlInv /\ RecordRollbackCompleted => ControlInv'
<1> SUFFICES ASSUME ControlInv, RecordRollbackCompleted PROVE ControlInv'
  OBVIOUS
<1> DEFINE rec == Completed(at, "Rollback")
           next == ReplayStep(journal, rec)
<1>1. /\ at \in StepNumber /\ InActive /\ ~torn /\ ~poisoned
      /\ Doubt(NoStep, at) /\ Applied(at)
  BY Sizes DEF ControlInv, PlaceTellsJournal, RecordRollbackCompleted, InActive, RollbackInDoubtPc
<1>2. \E m \in 0..StepCount :
        Shape(next, m, at - 1) /\ InProgress(next) /\ NothingPrepared(next)
  <2>1. PICK m \in 0..StepCount : Shape(journal, m, at)
    BY <1>1 DEF Applied
  <2>2. InProgress(journal) /\ journal.rollback_prepared = at
    BY <1>1 DEF Doubt, InProgress, NothingPrepared
  <2> QED BY <1>1, <2>1, <2>2, ReplayCompletedRollback
<1>3. Shaped(next) /\ next.intent
  BY <1>2, ShapedOf DEF InProgress
<1> HIDE DEF next
<1>4. AnyAppend(rec) /\ UNCHANGED <<fs, disturbed>> /\ (poisoned' => pc' \in {"Report", "Locked"})
  BY <1>1 DEF RecordRollbackCompleted, AnyAppend, AppendOk, AppendNotAppended, AppendMayHaveAppended,
     journalVars, Return, SetState
<1>5. FsTypeOK' /\ JournalTypeOK' /\ Shaped(journal)' /\ NameTellsContent'
  BY <1>1, <1>3, <1>4, ActiveAppend DEF next
<1>6. ExecTypeOK'
  <2>1. at' \in Cursor
    BY <1>1, Sizes DEF ControlInv, TypeOK, ExecTypeOK, Cursor, StepNumber, RecordRollbackCompleted, Return, SetState
  <2>2. pc' \in Pc
    BY DEF Pc, ExecutorPc, RecoveryPc, RecordRollbackCompleted, Return, SetState
  <2>3. outcome' \in Outcome
    BY DEF ControlInv, TypeOK, ExecTypeOK, Outcome, RecordRollbackCompleted, Return, SetState
  <2>4. token' \subseteq {"CancelRequested", "BeginCommitted"}
    BY DEF ControlInv, TypeOK, ExecTypeOK, RecordRollbackCompleted, Return, SetState
  <2>5. states' \in [Entries -> RenameState]
    BY DEF ControlInv, TypeOK, ExecTypeOK, RecordRollbackCompleted, SetState, RenameState, Return
  <2> QED BY <2>1, <2>2, <2>3, <2>4, <2>5 DEF ExecTypeOK
<1>7. PlaceTellsJournal'
  <2>1. CASE AppendOk(rec) /\ pc' = "RbStep" /\ at' = at - 1
    <3>1. journal' = next
      BY <2>1 DEF AppendOk, next
    <3> QED BY <1>1, <1>2, <2>1, <3>1, Sizes DEF AppendOk, RecordRollbackCompleted, PlaceTellsJournal, InActive,
        Doubt, Applied, InProgress, NothingPrepared, StepNumber, NoStep, PreIntentPc, ForwardInDoubtPc, RollbackInDoubtPc, ReverseInDoubtPc
  <2>2. CASE Return("RecoveryRequired")
    BY <2>2, AtRest DEF Return, Finish
  <2> QED BY <2>1, <2>2 DEF RecordRollbackCompleted
<1> QED BY <1>5, <1>6, <1>7 DEF ControlInv, TypeOK

LEMMA FinishRollbackControl == ControlInv /\ FinishRollback => ControlInv'
<1> SUFFICES ASSUME ControlInv, FinishRollback PROVE ControlInv'
  OBVIOUS
<1> DEFINE rec == Terminal("RolledBack")
           next == ReplayStep(journal, rec)
<1>1. /\ at = 0 /\ InActive /\ ~torn /\ ~poisoned
      /\ Doubt(NoStep, NoStep) /\ Applied(0)
  BY Sizes DEF ControlInv, PlaceTellsJournal, FinishRollback, InActive
<1>2. \E m \in 0..StepCount : Shape(next, m, 0) /\ next.intent
  <2>1. PICK m \in 0..StepCount : Shape(journal, m, 0)
    BY <1>1 DEF Applied
  <2>2. InProgress(journal) /\ NothingPrepared(journal)
    BY <1>1 DEF Doubt, InProgress, NothingPrepared
  <2> QED BY <1>1, <2>1, <2>2, ReplayRolledBack
<1>3. Shaped(next) /\ next.intent
  BY <1>2, ShapedOf DEF InProgress
<1> HIDE DEF next
<1>4. AnyAppend(rec) /\ UNCHANGED <<fs, disturbed>> /\ (poisoned' => pc' \in {"Report", "Locked"})
  BY <1>1 DEF FinishRollback, AnyAppend, AppendOk, AppendNotAppended, AppendMayHaveAppended,
     journalVars, Return
<1>5. FsTypeOK' /\ JournalTypeOK' /\ Shaped(journal)' /\ NameTellsContent'
  BY <1>1, <1>3, <1>4, ActiveAppend DEF next
<1>6. ExecTypeOK'
  <2>1. at' \in Cursor
    BY <1>1, Sizes DEF ControlInv, TypeOK, ExecTypeOK, Cursor, StepNumber, FinishRollback, Return
  <2>2. pc' \in Pc
    BY DEF Pc, ExecutorPc, RecoveryPc, FinishRollback, Return
  <2>3. outcome' \in Outcome
    BY DEF ControlInv, TypeOK, ExecTypeOK, Outcome, FinishRollback, Return
  <2>4. token' \subseteq {"CancelRequested", "BeginCommitted"}
    BY DEF ControlInv, TypeOK, ExecTypeOK, FinishRollback, Return
  <2>5. states' \in [Entries -> RenameState]
    BY DEF ControlInv, TypeOK, ExecTypeOK, FinishRollback, Return
  <2> QED BY <2>1, <2>2, <2>3, <2>4, <2>5 DEF ExecTypeOK
<1>7. PlaceTellsJournal'
  BY AtRest DEF FinishRollback, Return
<1> QED BY <1>5, <1>6, <1>7 DEF ControlInv, TypeOK

(***************************************************************************)
(* The renames: the journal stays, the entry may move.                     *)
(***************************************************************************)
LEMMA RenameTyped ==
  ASSUME ControlInv,
         NEW s \in [entry : Entries, identity : Identities, source : Keys,
                    destination : Keys, phase : TemporaryPhase],
         RenameOk(s) \/ RenameNotApplied(s) \/ RenameMayHaveApplied(s)
  PROVE  FsTypeOK'
<1>1. fs' \in [Keys -> Occupant]
  <2>1. ApplyStep(fs, s) \in [Keys -> Occupant]
    BY DEF ControlInv, TypeOK, FsTypeOK, ApplyStep, Occupant
  <2> QED BY <2>1 DEF ControlInv, TypeOK, FsTypeOK, RenameOk, RenameNotApplied,
      RenameMayHaveApplied
<1>2. faults' \in 0..MaxFaults
  BY Sizes DEF ControlInv, TypeOK, FsTypeOK, RenameOk, RenameNotApplied,
     RenameMayHaveApplied, Fault, NoFault
<1>3. disturbed' = disturbed
  BY DEF RenameOk, RenameNotApplied, RenameMayHaveApplied
<1> QED BY <1>1, <1>2, <1>3 DEF ControlInv, TypeOK, FsTypeOK

LEMMA RenameForwardControl == ControlInv /\ RenameForward => ControlInv'
<1> SUFFICES ASSUME ControlInv, RenameForward PROVE ControlInv'
  OBVIOUS
<1>1. /\ at \in StepNumber /\ InActive /\ ~torn /\ ~poisoned
      /\ Doubt(at, NoStep) /\ Shape(journal, at - 1, at - 1)
  BY DEF ControlInv, PlaceTellsJournal, RenameForward, InActive, ForwardInDoubtPc
<1>2. PICK s \in [entry : Entries, identity : Identities, source : Keys,
                  destination : Keys, phase : TemporaryPhase] :
        \/ RenameOk(s) /\ pc' = "Complete" /\ UNCHANGED outcome
        \/ RenameNotApplied(s) /\ pc' = "NotApplied" /\ UNCHANGED outcome
        \/ RenameMayHaveApplied(s) /\ pc' = "Report" /\ outcome' = "RecoveryRequired"
  <2>1. Steps[at] \in Step
    BY <1>1, StepsAssumption DEF ValidSteps, StepNumber
  <2> QED BY <2>1 DEF RenameForward, Goto, Return, Finish, Step, Reverse
<1>3. FsTypeOK'
  BY <1>2, RenameTyped
<1>4. UNCHANGED <<at, token>>
  BY DEF RenameForward, Goto, Return, Finish
<1>5. states' \in [Entries -> RenameState]
  BY DEF ControlInv, TypeOK, ExecTypeOK, RenameForward, SetState, RenameState, Finish, forward_state
<1>6. ExecTypeOK'
  BY <1>2, <1>4, <1>5 DEF ControlInv, TypeOK, ExecTypeOK, Pc, ExecutorPc, RecoveryPc, Outcome
<1>7. JournalTypeOK' /\ Shaped(journal)' /\ NameTellsContent'
  BY <1>1, JournalUntouched DEF RenameForward
<1>8. PlaceTellsJournal'
  <2>1. CASE pc' \in {"Complete", "NotApplied"}
    BY <1>1, <1>4, <2>1 DEF RenameForward, journalVars, PlaceTellsJournal, InActive, Doubt, Applied,
       PreIntentPc, ForwardInDoubtPc, RollbackInDoubtPc, ReverseInDoubtPc
  <2>2. CASE pc' = "Report" /\ outcome' = "RecoveryRequired"
    BY <2>2, AtRest
  <2> QED BY <1>2, <2>1, <2>2
<1> QED BY <1>3, <1>6, <1>7, <1>8 DEF ControlInv, TypeOK

LEMMA RenameRollbackControl == ControlInv /\ RenameRollback => ControlInv'
<1> SUFFICES ASSUME ControlInv, RenameRollback PROVE ControlInv'
  OBVIOUS
<1>1. /\ at \in StepNumber /\ InActive /\ ~torn /\ ~poisoned
      /\ Doubt(NoStep, at) /\ Applied(at)
  BY DEF ControlInv, PlaceTellsJournal, RenameRollback, InActive, RollbackInDoubtPc
<1>2. PICK s \in [entry : Entries, identity : Identities, source : Keys,
                  destination : Keys, phase : TemporaryPhase] :
        \/ RenameOk(s) /\ pc' = "RbComplete" /\ UNCHANGED outcome
        \/ RenameNotApplied(s) /\ pc' = "RbNotApplied" /\ UNCHANGED outcome
        \/ RenameMayHaveApplied(s) /\ pc' = "Report" /\ outcome' = "RecoveryRequired"
  <2>1. Steps[at] \in Step
    BY <1>1, StepsAssumption DEF ValidSteps, StepNumber
  <2> QED BY <2>1 DEF RenameRollback, Goto, Return, Finish, Step, Reverse
<1>3. FsTypeOK'
  BY <1>2, RenameTyped
<1>4. UNCHANGED <<at, token>>
  BY DEF RenameRollback, Goto, Return, Finish
<1>5. states' \in [Entries -> RenameState]
  BY DEF ControlInv, TypeOK, ExecTypeOK, RenameRollback, SetState, RenameState, Finish, rollback_state
<1>6. ExecTypeOK'
  BY <1>2, <1>4, <1>5 DEF ControlInv, TypeOK, ExecTypeOK, Pc, ExecutorPc, RecoveryPc, Outcome
<1>7. JournalTypeOK' /\ Shaped(journal)' /\ NameTellsContent'
  BY <1>1, JournalUntouched DEF RenameRollback
<1>8. PlaceTellsJournal'
  <2>1. CASE pc' \in {"RbComplete", "RbNotApplied"}
    BY <1>1, <1>4, <2>1 DEF RenameRollback, journalVars, PlaceTellsJournal, InActive, Doubt, Applied,
       PreIntentPc, ForwardInDoubtPc, RollbackInDoubtPc, ReverseInDoubtPc
  <2>2. CASE pc' = "Report" /\ outcome' = "RecoveryRequired"
    BY <2>2, AtRest
  <2> QED BY <1>2, <2>1, <2>2
<1> QED BY <1>3, <1>6, <1>7, <1>8 DEF ControlInv, TypeOK

LEMMA RenameReverseControl == ControlInv /\ RenameReverse => ControlInv'
<1> SUFFICES ASSUME ControlInv, RenameReverse PROVE ControlInv'
  OBVIOUS
<1>1. /\ at \in StepNumber /\ InActive /\ ~torn /\ ~poisoned
      /\ Doubt(NoStep, at) /\ Applied(at)
  BY DEF ControlInv, PlaceTellsJournal, RenameReverse, InActive, ReverseInDoubtPc
<1>2. PICK s \in [entry : Entries, identity : Identities, source : Keys,
                  destination : Keys, phase : TemporaryPhase] :
        \/ RenameOk(s) /\ pc' = "RvComplete" /\ UNCHANGED outcome
        \/ RenameNotApplied(s) /\ pc' = "RvNotApplied" /\ UNCHANGED outcome
        \/ RenameMayHaveApplied(s) /\ pc' = "Locked" /\ outcome' = "RecoveryRequired"
  <2>1. Steps[at] \in Step
    BY <1>1, StepsAssumption DEF ValidSteps, StepNumber
  <2> QED BY <2>1 DEF RenameReverse, Goto, Return, Finish, Step, Reverse
<1>3. FsTypeOK'
  BY <1>2, RenameTyped
<1>4. UNCHANGED <<at, token>>
  BY DEF RenameReverse, Goto, Return, Finish
<1>5. states' \in [Entries -> RenameState]
  BY DEF ControlInv, TypeOK, ExecTypeOK, RenameReverse, SetState, RenameState, Finish
<1>6. ExecTypeOK'
  BY <1>2, <1>4, <1>5 DEF ControlInv, TypeOK, ExecTypeOK, Pc, ExecutorPc, RecoveryPc, Outcome
<1>7. JournalTypeOK' /\ Shaped(journal)' /\ NameTellsContent'
  BY <1>1, JournalUntouched DEF RenameReverse
<1>8. PlaceTellsJournal'
  <2>1. CASE pc' \in {"RvComplete", "RvNotApplied"}
    BY <1>1, <1>4, <2>1 DEF RenameReverse, journalVars, PlaceTellsJournal, InActive, Doubt, Applied,
       PreIntentPc, ForwardInDoubtPc, RollbackInDoubtPc, ReverseInDoubtPc
  <2>2. CASE pc' = "Locked" /\ outcome' = "RecoveryRequired"
    BY <2>2, AtRest
  <2> QED BY <1>2, <2>1, <2>2
<1> QED BY <1>3, <1>6, <1>7, <1>8 DEF ControlInv, TypeOK

-----------------------------------------------------------------------------
(***************************************************************************)
(* Recovery.                                                               *)
(***************************************************************************)

LEMMA RecordReverseNotAppliedControl == ControlInv /\ RecordReverseNotApplied => ControlInv'
<1> SUFFICES ASSUME ControlInv, RecordReverseNotApplied PROVE ControlInv'
  OBVIOUS
<1> DEFINE rec == NotApplied(at, "Rollback")
           next == ReplayStep(journal, rec)
<1>1. /\ at \in StepNumber /\ InActive /\ ~torn /\ ~poisoned
      /\ Doubt(NoStep, at) /\ Applied(at)
  BY Sizes DEF ControlInv, PlaceTellsJournal, RecordReverseNotApplied, InActive, ReverseInDoubtPc
<1>2. \E m \in 0..StepCount : Shape(next, m, at) /\ InProgress(next)
  <2>1. PICK m \in 0..StepCount : Shape(journal, m, at)
    BY <1>1 DEF Applied
  <2>2. InProgress(journal) /\ journal.rollback_prepared = at
    BY <1>1 DEF Doubt, InProgress, NothingPrepared
  <2> QED BY <1>1, <2>1, <2>2, ReplayNotAppliedRollback
<1>3. Shaped(next) /\ next.intent
  BY <1>2, ShapedOf DEF InProgress
<1> HIDE DEF next
<1>4. AnyAppend(rec) /\ UNCHANGED <<fs, disturbed>> /\ (poisoned' => pc' \in {"Report", "Locked"})
  BY <1>1 DEF RecordReverseNotApplied, AnyAppend, AuthorizedAppendOk, AuthorizedFailure, AuthorizedAppendNotAppended,
     AuthorizedAppendMayHaveAppended, Finish
<1>5. FsTypeOK' /\ JournalTypeOK' /\ Shaped(journal)' /\ NameTellsContent'
  BY <1>1, <1>3, <1>4, ActiveAppend DEF next
<1>6. ExecTypeOK'
  <2>1. at' \in Cursor
    BY <1>1, Sizes DEF ControlInv, TypeOK, ExecTypeOK, Cursor, StepNumber, RecordReverseNotApplied, Finish
  <2>2. pc' \in Pc
    BY DEF Pc, ExecutorPc, RecoveryPc, RecordReverseNotApplied, Finish
  <2>3. outcome' \in Outcome
    BY DEF ControlInv, TypeOK, ExecTypeOK, Outcome, RecordReverseNotApplied, Finish
  <2>4. token' \subseteq {"CancelRequested", "BeginCommitted"}
    BY DEF ControlInv, TypeOK, ExecTypeOK, RecordReverseNotApplied, Finish
  <2>5. states' \in [Entries -> RenameState]
    BY DEF ControlInv, TypeOK, ExecTypeOK, RecordReverseNotApplied, Finish
  <2> QED BY <2>1, <2>2, <2>3, <2>4, <2>5 DEF ExecTypeOK
<1>7. PlaceTellsJournal'
  BY AtRest DEF RecordReverseNotApplied, Finish
<1> QED BY <1>5, <1>6, <1>7 DEF ControlInv, TypeOK

LEMMA RecordReverseCompletedControl == ControlInv /\ RecordReverseCompleted => ControlInv'
<1> SUFFICES ASSUME ControlInv, RecordReverseCompleted PROVE ControlInv'
  OBVIOUS
<1> DEFINE rec == Completed(at, "Rollback")
           next == ReplayStep(journal, rec)
<1>1. /\ at \in StepNumber /\ InActive /\ ~torn /\ ~poisoned
      /\ Doubt(NoStep, at) /\ Applied(at)
  BY Sizes DEF ControlInv, PlaceTellsJournal, RecordReverseCompleted, InActive, ReverseInDoubtPc
<1>2. \E m \in 0..StepCount :
        Shape(next, m, at - 1) /\ InProgress(next) /\ NothingPrepared(next)
  <2>1. PICK m \in 0..StepCount : Shape(journal, m, at)
    BY <1>1 DEF Applied
  <2>2. InProgress(journal) /\ journal.rollback_prepared = at
    BY <1>1 DEF Doubt, InProgress, NothingPrepared
  <2> QED BY <1>1, <2>1, <2>2, ReplayCompletedRollback
<1>3. Shaped(next) /\ next.intent
  BY <1>2, ShapedOf DEF InProgress
<1> HIDE DEF next
<1>4. AnyAppend(rec) /\ UNCHANGED <<fs, disturbed>> /\ (poisoned' => pc' \in {"Report", "Locked"})
  BY <1>1 DEF RecordReverseCompleted, AnyAppend, AuthorizedAppendOk, AuthorizedFailure, AuthorizedAppendNotAppended,
     AuthorizedAppendMayHaveAppended, Goto, Finish
<1>5. FsTypeOK' /\ JournalTypeOK' /\ Shaped(journal)' /\ NameTellsContent'
  BY <1>1, <1>3, <1>4, ActiveAppend DEF next
<1>6. ExecTypeOK'
  <2>1. at' \in Cursor
    BY <1>1, Sizes DEF ControlInv, TypeOK, ExecTypeOK, Cursor, StepNumber, RecordReverseCompleted, Goto, Finish
  <2>2. pc' \in Pc
    BY DEF Pc, ExecutorPc, RecoveryPc, RecordReverseCompleted, Goto, Finish
  <2>3. outcome' \in Outcome
    BY DEF ControlInv, TypeOK, ExecTypeOK, Outcome, RecordReverseCompleted, Goto, Finish
  <2>4. token' \subseteq {"CancelRequested", "BeginCommitted"}
    BY DEF ControlInv, TypeOK, ExecTypeOK, RecordReverseCompleted, Goto, Finish
  <2>5. states' \in [Entries -> RenameState]
    BY DEF ControlInv, TypeOK, ExecTypeOK, RecordReverseCompleted, Goto, Finish
  <2> QED BY <2>1, <2>2, <2>3, <2>4, <2>5 DEF ExecTypeOK
<1>7. PlaceTellsJournal'
  <2>1. CASE AuthorizedAppendOk(rec) /\ Goto("RvStep")
    <3>1. journal' = next
      BY <2>1 DEF AuthorizedAppendOk, next
    <3> QED BY <1>1, <1>2, <2>1, <3>1, Sizes DEF AuthorizedAppendOk, Goto, PlaceTellsJournal, InActive,
        Doubt, Applied, InProgress, NothingPrepared, StepNumber, NoStep, PreIntentPc, ForwardInDoubtPc, RollbackInDoubtPc, ReverseInDoubtPc
  <2>2. CASE Finish("Locked", "RecoveryRequired")
    BY <2>2, AtRest DEF Return, Finish
  <2> QED BY <2>1, <2>2 DEF RecordReverseCompleted
<1> QED BY <1>5, <1>6, <1>7 DEF ControlInv, TypeOK

LEMMA PrepareReverseControl == ControlInv /\ PrepareReverse => ControlInv'
<1> SUFFICES ASSUME ControlInv, PrepareReverse PROVE ControlInv'
  OBVIOUS
<1> DEFINE rec == Prepared(LastRemaining(journal), "Rollback")
           next == ReplayStep(journal, rec)
<1>1. /\ LastRemaining(journal) \in StepNumber /\ Applied(LastRemaining(journal))
      /\ InActive /\ ~poisoned /\ Doubt(NoStep, NoStep)
  <2>1. InActive /\ ~poisoned /\ Doubt(NoStep, NoStep)
    BY DEF ControlInv, PlaceTellsJournal, PrepareReverse, InActive
  <2>2. PICK m \in 0..StepCount, r \in 0..StepCount : Shape(journal, m, r)
    BY DEF ControlInv, Shaped
  <2>3. Remaining(journal) = 1..r /\ LastRemaining(journal) = r
    BY <2>2, RemainingOfShape
  <2>4. r \in StepNumber
    BY <2>3, Sizes DEF PrepareReverse, StepNumber
  <2> QED BY <2>1, <2>2, <2>3, <2>4 DEF Applied
<1>2. \E m \in 0..StepCount :
        /\ Shape(next, m, LastRemaining(journal)) /\ InProgress(next)
        /\ next.forward_prepared = NoStep
        /\ next.rollback_prepared = LastRemaining(journal)
  <2>1. PICK m \in 0..StepCount : Shape(journal, m, LastRemaining(journal))
    BY <1>1 DEF Applied
  <2>2. InProgress(journal) /\ NothingPrepared(journal)
    BY <1>1 DEF Doubt, InProgress, NothingPrepared
  <2> QED BY <1>1, <2>1, <2>2, ReplayPreparedRollback
<1>3. Shaped(next) /\ next.intent
  BY <1>2, ShapedOf DEF InProgress
<1> HIDE DEF next
<1>4. AnyAppend(rec) /\ UNCHANGED <<fs, disturbed>> /\ (poisoned' => pc' \in {"Report", "Locked"})
  BY <1>1 DEF PrepareReverse, AnyAppend, AuthorizedAppendOk, AuthorizedFailure, AuthorizedAppendNotAppended,
     AuthorizedAppendMayHaveAppended, Finish
<1>5. FsTypeOK' /\ JournalTypeOK' /\ Shaped(journal)' /\ NameTellsContent'
  BY <1>1, <1>3, <1>4, ActiveAppend DEF next
<1>6. ExecTypeOK'
  <2>1. at' \in Cursor
    BY <1>1, Sizes DEF ControlInv, TypeOK, ExecTypeOK, Cursor, StepNumber, PrepareReverse, Finish
  <2>2. pc' \in Pc
    BY DEF Pc, ExecutorPc, RecoveryPc, PrepareReverse, Finish
  <2>3. outcome' \in Outcome
    BY DEF ControlInv, TypeOK, ExecTypeOK, Outcome, PrepareReverse, Finish
  <2>4. token' \subseteq {"CancelRequested", "BeginCommitted"}
    BY DEF ControlInv, TypeOK, ExecTypeOK, PrepareReverse, Finish
  <2>5. states' \in [Entries -> RenameState]
    BY DEF ControlInv, TypeOK, ExecTypeOK, PrepareReverse, Finish
  <2> QED BY <2>1, <2>2, <2>3, <2>4, <2>5 DEF ExecTypeOK
<1>7. PlaceTellsJournal'
  <2>1. CASE AuthorizedAppendOk(rec) /\ pc' = "RvRename" /\ at' = LastRemaining(journal)
    <3>1. journal' = next
      BY <2>1 DEF AuthorizedAppendOk, next
    <3>2. Doubt(NoStep, at)' /\ Applied(at)'
      BY <1>2, <2>1, <3>1 DEF Doubt, Applied, InProgress
    <3>3. InActive' /\ ~torn' /\ at' \in StepNumber
      BY <1>1, <2>1 DEF AuthorizedAppendOk, InActive
    <3> QED BY <2>1, <3>2, <3>3 DEF PlaceTellsJournal, PreIntentPc, ForwardInDoubtPc, RollbackInDoubtPc, ReverseInDoubtPc
  <2>2. CASE Finish("Locked", "RecoveryRequired")
    BY <2>2, AtRest DEF Finish
  <2> QED BY <2>1, <2>2 DEF PrepareReverse
<1> QED BY <1>5, <1>6, <1>7 DEF ControlInv, TypeOK

LEMMA FinishRecoveryControl == ControlInv /\ FinishRecovery => ControlInv'
<1> SUFFICES ASSUME ControlInv, FinishRecovery PROVE ControlInv'
  OBVIOUS
<1> DEFINE rec == Terminal("RolledBack")
           next == ReplayStep(journal, rec)
<1>1. /\ InActive /\ ~poisoned /\ Doubt(NoStep, NoStep) /\ Applied(0)
  <2>1. InActive /\ ~poisoned /\ Doubt(NoStep, NoStep)
    BY DEF ControlInv, PlaceTellsJournal, FinishRecovery, InActive
  <2>2. PICK m \in 0..StepCount, r \in 0..StepCount : Shape(journal, m, r)
    BY DEF ControlInv, Shaped
  <2>3. Remaining(journal) = 1..r
    BY <2>2, RemainingOfShape
  <2>4. r = 0
    BY <2>3, Sizes DEF FinishRecovery
  <2> QED BY <2>1, <2>2, <2>4 DEF Applied
<1>2. \E m \in 0..StepCount : Shape(next, m, 0) /\ next.intent
  <2>1. PICK m \in 0..StepCount : Shape(journal, m, 0)
    BY <1>1 DEF Applied
  <2>2. InProgress(journal) /\ NothingPrepared(journal)
    BY <1>1 DEF Doubt, InProgress, NothingPrepared
  <2> QED BY <1>1, <2>1, <2>2, ReplayRolledBack
<1>3. Shaped(next) /\ next.intent
  BY <1>2, ShapedOf DEF InProgress
<1> HIDE DEF next
<1>4. AnyAppend(rec) /\ UNCHANGED <<fs, disturbed>> /\ (poisoned' => pc' \in {"Report", "Locked"})
  BY <1>1 DEF FinishRecovery, AnyAppend, AuthorizedAppendOk, AuthorizedFailure, AuthorizedAppendNotAppended,
     AuthorizedAppendMayHaveAppended, Finish
<1>5. FsTypeOK' /\ JournalTypeOK' /\ Shaped(journal)' /\ NameTellsContent'
  BY <1>1, <1>3, <1>4, ActiveAppend DEF next
<1>6. ExecTypeOK'
  <2>1. at' \in Cursor
    BY <1>1, Sizes DEF ControlInv, TypeOK, ExecTypeOK, Cursor, StepNumber, FinishRecovery, Finish
  <2>2. pc' \in Pc
    BY DEF Pc, ExecutorPc, RecoveryPc, FinishRecovery, Finish
  <2>3. outcome' \in Outcome
    BY DEF ControlInv, TypeOK, ExecTypeOK, Outcome, FinishRecovery, Finish
  <2>4. token' \subseteq {"CancelRequested", "BeginCommitted"}
    BY DEF ControlInv, TypeOK, ExecTypeOK, FinishRecovery, Finish
  <2>5. states' \in [Entries -> RenameState]
    BY DEF ControlInv, TypeOK, ExecTypeOK, FinishRecovery, Finish
  <2> QED BY <2>1, <2>2, <2>3, <2>4, <2>5 DEF ExecTypeOK
<1>7. PlaceTellsJournal'
  <2>1. CASE AuthorizedAppendOk(rec) /\ pc' = "RvCleanup"
    <3>1. InActive'
      BY <1>1, <2>1 DEF AuthorizedAppendOk, InActive
    <3> QED BY <2>1, <3>1 DEF PlaceTellsJournal, PreIntentPc, ForwardInDoubtPc, RollbackInDoubtPc, ReverseInDoubtPc
  <2>2. CASE Finish("Locked", "RecoveryRequired")
    BY <2>2, AtRest DEF Finish
  <2> QED BY <2>1, <2>2 DEF FinishRecovery, Finish
<1> QED BY <1>5, <1>6, <1>7 DEF ControlInv, TypeOK

(***************************************************************************)
(* Settling the step in doubt, either way, is a record replay accepts.     *)
(***************************************************************************)
LEMMA ReplaySettled ==
  ASSUME Shaped(journal), InProgress(journal), ~NothingPrepared(journal),
         NEW applied \in BOOLEAN
  PROVE  LET next == ReplayStep(journal, Settled(applied))
         IN  Shaped(next) /\ InProgress(next) /\ NothingPrepared(next)
<1>1. PICK m \in 0..StepCount, r \in 0..StepCount : Shape(journal, m, r)
  BY DEF Shaped
<1> DEFINE fp == journal.forward_prepared
           rp == journal.rollback_prepared
<1>2. CASE fp # NoStep
  <2>1. fp = m + 1 /\ r = m /\ m \in 0..(StepCount - 1)
    BY <1>1, <1>2, Sizes DEF Shape, ReplayState, StepNumber, NoStep
  <2>2. Shape(journal, m, m) /\ journal.forward_prepared = m + 1
    BY <1>1, <2>1
  <2>3. CASE applied
    <3>1. Settled(applied) = Completed(m + 1, "Forward")
      BY <1>2, <2>1, <2>3 DEF Settled
    <3> QED BY <2>1, <2>2, <3>1, ReplayCompletedForward, ShapedOf
  <2>4. CASE ~applied
    <3>1. Settled(applied) = NotApplied(m + 1, "Forward")
      BY <1>2, <2>1, <2>4 DEF Settled
    <3> QED BY <2>1, <2>2, <3>1, ReplayNotAppliedForward, ShapedOf
  <2> QED BY <2>3, <2>4
<1>3. CASE fp = NoStep
  <2>1. rp = r /\ r \in StepNumber
    BY <1>1, <1>3, Sizes DEF Shape, ReplayState, StepNumber, NoStep, NothingPrepared
  <2>2. CASE applied
    <3>1. Settled(applied) = Completed(r, "Rollback")
      BY <1>3, <2>1, <2>2 DEF Settled
    <3> QED BY <1>1, <2>1, <3>1, ReplayCompletedRollback, ShapedOf
  <2>3. CASE ~applied
    <3>1. Settled(applied) = NotApplied(r, "Rollback")
      BY <1>3, <2>1, <2>3 DEF Settled
    <3> QED BY <1>1, <2>1, <3>1, ReplayNotAppliedRollback, ShapedOf
  <2> QED BY <2>2, <2>3
<1> QED BY <1>2, <1>3

LEMMA ReconcileControl == ControlInv /\ Reconcile => ControlInv'
<1> SUFFICES ASSUME ControlInv, Reconcile PROVE ControlInv'
  OBVIOUS
<1>1. InActive /\ ~poisoned /\ Shaped(journal)
  BY DEF ControlInv, PlaceTellsJournal, Reconcile, InActive
<1>2. InProgress(journal)
  BY <1>1 DEF Reconcile, Clean, InProgress, Shaped, Shape
<1>3. ExecTypeOK'
  BY DEF ControlInv, TypeOK, ExecTypeOK, Reconcile, Goto, Finish, Pc, RecoveryPc, Outcome
<1>4. CASE NothingPrepared(journal)
  <2>1. pc' = "RvStep" /\ UNCHANGED <<at, token, outcome, faults, fs, disturbed, states, journalVars>>
    BY <1>4 DEF Reconcile, Goto, NoFault
  <2>2. FsTypeOK'
    BY <2>1 DEF ControlInv, TypeOK, FsTypeOK
  <2>3. JournalTypeOK' /\ Shaped(journal)' /\ NameTellsContent'
    BY <1>1, <2>1, JournalUntouched
  <2>4. PlaceTellsJournal'
    BY <1>1, <1>2, <1>4, <2>1 DEF PlaceTellsJournal, InActive, Doubt, InProgress, NothingPrepared,
       journalVars, PreIntentPc, ForwardInDoubtPc, RollbackInDoubtPc, ReverseInDoubtPc
  <2> QED BY <1>3, <2>2, <2>3, <2>4 DEF ControlInv, TypeOK
<1>5. CASE ~NothingPrepared(journal)
  <2> DEFINE rec == Settled(fs = AppliedOccupancy)
             next == ReplayStep(journal, rec)
  <2>1. \/ AuthorizedAppendOk(rec) /\ Goto("RvStep")
        \/ AuthorizedFailure(rec) /\ Finish("Locked", "RecoveryRequired")
    BY <1>5 DEF Reconcile
  <2>2. (fs = AppliedOccupancy) \in BOOLEAN
    OBVIOUS
  <2>3. Shaped(next) /\ InProgress(next) /\ NothingPrepared(next)
    BY <1>1, <1>2, <1>5, <2>2, ReplaySettled
  <2> HIDE DEF next, rec
  <2>4. AnyAppend(rec) /\ UNCHANGED <<fs, disturbed>> /\ (poisoned' => pc' \in {"Report", "Locked"})
    BY <1>1, <2>1 DEF Reconcile, AnyAppend, AuthorizedAppendOk, Finish
  <2>5. FsTypeOK' /\ JournalTypeOK' /\ Shaped(journal)' /\ NameTellsContent'
    BY <1>1, <2>3, <2>4, ActiveAppend DEF next, InProgress
  <2>6. PlaceTellsJournal'
    <3>1. CASE AuthorizedAppendOk(rec) /\ Goto("RvStep")
      <4>1. InActive' /\ Doubt(NoStep, NoStep)'
        BY <1>1, <2>3, <3>1 DEF AuthorizedAppendOk, InActive, Doubt, InProgress, NothingPrepared, next
      <4> QED BY <3>1, <4>1 DEF Goto, PlaceTellsJournal, PreIntentPc, ForwardInDoubtPc, RollbackInDoubtPc, ReverseInDoubtPc
    <3>2. CASE Finish("Locked", "RecoveryRequired")
      BY <3>2, AtRest DEF Finish
    <3> QED BY <2>1, <3>1, <3>2
  <2> QED BY <1>3, <2>5, <2>6 DEF ControlInv, TypeOK
<1> QED BY <1>4, <1>5

-----------------------------------------------------------------------------
(***************************************************************************)
(* The file itself: created, filled with the Intent, promoted, removed.    *)
(***************************************************************************)
LEMMA RemovedFile ==
  ASSUME leaf' = "Absent", journal' = EmptyReplay, frames' = 0, torn' = FALSE,
         phase' = "Closed", poisoned' = FALSE
  PROVE  JournalTypeOK' /\ Shaped(journal)' /\ NameTellsContent'
<1>1. torn' \in BOOLEAN /\ poisoned' \in BOOLEAN
  BY Zenon
<1>2. EmptyReplay \in ReplayState /\ Shaped(EmptyReplay)
  BY ShapeOfEmpty, ShapedOf DEF Shape
<1>3. frames' \in 0..MaxFrames
  BY Sizes
<1>4. JournalTypeOK'
  BY <1>1, <1>2, <1>3 DEF JournalTypeOK
<1>5. ~torn' /\ ~poisoned'
  OBVIOUS
<1>6. NameTellsContent'
  BY <1>5 DEF NameTellsContent
<1> QED BY <1>2, <1>4, <1>6

(***************************************************************************)
(* A candidate file with at most the Intent in it, whoever holds it.       *)
(***************************************************************************)
LEMMA CandidateFile ==
  ASSUME ControlInv, leaf' = "Candidate", journal' \in {EmptyReplay, IntentOnly},
         frames' \in 0..1, torn' \in BOOLEAN, poisoned' \in BOOLEAN,
         phase' \in {"Closed", "Candidate", "PromotionUncertain"},
         poisoned' => pc' \in {"Report", "Locked"}
  PROVE  JournalTypeOK' /\ Shaped(journal)' /\ NameTellsContent'
<1>1. journal' \in ReplayState /\ Shaped(journal')
  BY ShapeOfEmpty, ShapeOfIntentOnly, ShapedOf DEF Shape
<1>2. frames' \in 0..MaxFrames /\ frames' <= 1
  BY Sizes, MaxFramesAssumption
<1>3. JournalTypeOK'
  BY <1>1, <1>2 DEF JournalTypeOK
<1>4. NameTellsContent'
  BY <1>2 DEF NameTellsContent
<1> QED BY <1>1, <1>3, <1>4

LEMMA CreateJournalControl == ControlInv /\ CreateJournal => ControlInv'
<1> SUFFICES ASSUME ControlInv, CreateJournal PROVE ControlInv'
  OBVIOUS
<1>1. leaf = "Absent" /\ phase = "Closed" /\ journal = EmptyReplay /\ frames = 0 /\ ~torn
  BY DEF ControlInv, PlaceTellsJournal, NameTellsContent, CreateJournal
<1>2. FsTypeOK'
  BY Sizes DEF ControlInv, TypeOK, FsTypeOK, CreateJournal, Fault, NoFault
<1>3. ExecTypeOK'
  BY DEF ControlInv, TypeOK, ExecTypeOK, CreateJournal, Goto, Pc, ExecutorPc
<1>4. CASE CreateCandidate /\ Goto("Freeze")
  <2>1. torn' \in BOOLEAN /\ poisoned' \in BOOLEAN /\ ~torn' /\ ~poisoned'
    BY <1>4 DEF CreateCandidate
  <2>2. JournalTypeOK' /\ Shaped(journal)' /\ NameTellsContent'
    BY <1>4, <2>1, CandidateFile DEF CreateCandidate
  <2>3. at' \in 1..(RowCount + 1)
    BY <1>4, Sizes DEF ControlInv, PlaceTellsJournal, CreateJournal, Goto
  <2>4. PlaceTellsJournal'
    BY <1>4, <2>1, <2>3 DEF CreateCandidate, Goto, PlaceTellsJournal, InCandidate, PreIntentPc, ForwardInDoubtPc, RollbackInDoubtPc, ReverseInDoubtPc
  <2> QED BY <1>2, <1>3, <2>2, <2>4 DEF ControlInv, TypeOK
<1>5. CASE /\ pc' = "Locked" /\ leaf' \in {leaf, "Candidate"}
           /\ UNCHANGED <<journal, frames, torn, phase, poisoned>>
  <2>1. torn \in BOOLEAN /\ poisoned \in BOOLEAN /\ ~poisoned
    BY DEF ControlInv, TypeOK, JournalTypeOK, NameTellsContent, CreateJournal
  <2>2. CASE leaf' = "Candidate"
    <3>1. JournalTypeOK' /\ Shaped(journal)' /\ NameTellsContent'
      BY <1>1, <1>5, <2>1, <2>2, CandidateFile
    <3> QED BY <1>2, <1>3, <1>5, <3>1, AtRest DEF ControlInv, TypeOK
  <2>3. CASE leaf' = leaf
    <3>1. JournalTypeOK' /\ Shaped(journal)' /\ NameTellsContent'
      BY <1>5, <2>1, <2>3, JournalUntouched DEF journalVars
    <3> QED BY <1>2, <1>3, <1>5, <3>1, AtRest DEF ControlInv, TypeOK
  <2> QED BY <1>5, <2>2, <2>3
<1> QED BY <1>4, <1>5 DEF CreateJournal

LEMMA AppendIntentControl == ControlInv /\ AppendIntent => ControlInv'
<1> SUFFICES ASSUME ControlInv, AppendIntent PROVE ControlInv'
  OBVIOUS
<1>1. InCandidate /\ journal = EmptyReplay /\ frames = 0
  BY DEF ControlInv, PlaceTellsJournal, AppendIntent, PreIntentPc
<1>2. ReplayStep(journal, Intent) = IntentOnly
  BY <1>1, ReplayIntent
<1>3. FsTypeOK'
  BY Sizes DEF ControlInv, TypeOK, FsTypeOK, AppendIntent, AppendOk, AppendNotAppended,
     AppendMayHaveAppended, Fault, NoFault
<1>4. ExecTypeOK'
  BY DEF ControlInv, TypeOK, ExecTypeOK, AppendIntent, Goto, Return, Pc, ExecutorPc, Outcome
<1>5. torn' \in BOOLEAN /\ poisoned' \in BOOLEAN
  BY DEF ControlInv, TypeOK, JournalTypeOK, AppendIntent, AppendOk, AppendNotAppended,
     AppendMayHaveAppended, journalVars
<1>6. /\ leaf' = "Candidate" /\ phase' = "Candidate" /\ frames' \in 0..1
      /\ journal' \in {EmptyReplay, IntentOnly}
      /\ poisoned' => pc' \in {"Report", "Locked"}
  BY <1>1, <1>2 DEF AppendIntent, AppendOk, AppendNotAppended, AppendMayHaveAppended,
     journalVars, InCandidate, Return
<1>7. JournalTypeOK' /\ Shaped(journal)' /\ NameTellsContent'
  BY <1>5, <1>6, CandidateFile
<1>8. PlaceTellsJournal'
  <2>1. CASE AppendOk(Intent) /\ Goto("Promote")
    BY <1>1, <1>2, <2>1 DEF AppendOk, Goto, PlaceTellsJournal, InCandidate, PreIntentPc, ForwardInDoubtPc, RollbackInDoubtPc, ReverseInDoubtPc
  <2>2. CASE AppendNotAppended /\ Return("Refused")
    BY <1>1, <2>2 DEF AppendNotAppended, journalVars, Return, PlaceTellsJournal, InCandidate, PreIntentPc, ForwardInDoubtPc, RollbackInDoubtPc, ReverseInDoubtPc
  <2>3. CASE Return("RecoveryRequired")
    BY <2>3, AtRest DEF Return
  <2> QED BY <2>1, <2>2, <2>3 DEF AppendIntent
<1> QED BY <1>3, <1>4, <1>7, <1>8 DEF ControlInv, TypeOK

LEMMA PromoteCandidateControl == ControlInv /\ PromoteCandidate => ControlInv'
<1> SUFFICES ASSUME ControlInv, PromoteCandidate PROVE ControlInv'
  OBVIOUS
<1>1. InCandidate /\ journal = IntentOnly /\ frames <= 1
  BY DEF ControlInv, PlaceTellsJournal, NameTellsContent, InCandidate, PromoteCandidate
<1>2. journal' = IntentOnly /\ frames' = frames /\ torn' = torn
  BY <1>1 DEF PromoteCandidate, PromoteOk, PromoteUncertain
<1>3. FsTypeOK'
  BY Sizes DEF ControlInv, TypeOK, FsTypeOK, PromoteCandidate, PromoteOk, PromoteUncertain,
     Fault, NoFault
<1>4. ExecTypeOK'
  <2>1. at' \in Cursor
    BY Sizes DEF ControlInv, TypeOK, ExecTypeOK, PromoteCandidate, Return, Cursor
  <2> QED BY <2>1 DEF ControlInv, TypeOK, ExecTypeOK, PromoteCandidate, Return, Pc, ExecutorPc,
      Outcome
<1>5. poisoned' \in BOOLEAN
  BY DEF ControlInv, TypeOK, JournalTypeOK, PromoteCandidate, PromoteOk, PromoteUncertain
<1>6. JournalTypeOK'
  BY <1>2, <1>5 DEF ControlInv, TypeOK, JournalTypeOK, PromoteCandidate, PromoteOk, PromoteUncertain
<1>7. Shaped(journal)'
  BY <1>1, <1>2 DEF ControlInv
<1>8. IntentOnly.intent /\ Shape(IntentOnly, 0, 0)
  BY ShapeOfIntentOnly DEF IntentOnly, EmptyReplay
<1>9. NameTellsContent'
  BY <1>1, <1>2, <1>8 DEF PromoteCandidate, PromoteOk, PromoteUncertain, Return, NameTellsContent,
     InCandidate
<1>10. PlaceTellsJournal'
  <2>1. CASE PromoteOk /\ pc' = "Step" /\ at' = 1
    <3>1. InActive' /\ ~torn' /\ at' \in 1..(StepCount + 1)
      BY <1>1, <1>2, <2>1, Sizes DEF PromoteOk, InCandidate, InActive
    <3>2. Doubt(NoStep, NoStep)' /\ ~journal'.rollback_started
      BY <1>2 DEF Doubt, IntentOnly, EmptyReplay
    <3>3. Shape(journal', at' - 1, at' - 1)
      BY <1>2, <1>8, <2>1
    <3> QED BY <2>1, <3>1, <3>2, <3>3 DEF PlaceTellsJournal, PreIntentPc, ForwardInDoubtPc, RollbackInDoubtPc, ReverseInDoubtPc
  <2>2. CASE Return("RecoveryRequired")
    BY <2>2, AtRest DEF Return
  <2> QED BY <2>1, <2>2 DEF PromoteCandidate
<1> QED BY <1>3, <1>4, <1>6, <1>7, <1>9, <1>10 DEF ControlInv, TypeOK

LEMMA RemoveControl ==
  ASSUME ControlInv, Remove, pc' = "Idle", FsTypeOK', ExecTypeOK'
  PROVE  ControlInv'
<1>1. JournalTypeOK' /\ Shaped(journal)' /\ NameTellsContent'
  BY RemovedFile DEF Remove
<1>2. PlaceTellsJournal'
  BY DEF Remove, PlaceTellsJournal, PreIntentPc, ForwardInDoubtPc, RollbackInDoubtPc, ReverseInDoubtPc
<1> QED BY <1>1, <1>2 DEF ControlInv, TypeOK

LEMMA LockControl ==
  ASSUME ControlInv, UNCHANGED journalVars, pc' = "Locked", FsTypeOK', ExecTypeOK'
  PROVE  ControlInv'
<1>1. JournalTypeOK' /\ Shaped(journal)' /\ NameTellsContent'
  BY JournalUntouched
<1> QED BY <1>1, AtRest DEF ControlInv, TypeOK

LEMMA HandleCompletedExecutionControl == ControlInv /\ HandleCompletedExecution => ControlInv'
<1> SUFFICES ASSUME ControlInv, HandleCompletedExecution PROVE ControlInv'
  OBVIOUS
<1>1. FsTypeOK'
  BY Sizes DEF ControlInv, TypeOK, FsTypeOK, HandleCompletedExecution, Fault, NoFault
<1>2. ExecTypeOK'
  BY DEF ControlInv, TypeOK, ExecTypeOK, HandleCompletedExecution, Pc
<1>3. \/ Remove /\ pc' = "Idle"
      \/ UNCHANGED journalVars /\ pc' = "Locked"
  BY DEF HandleCompletedExecution
<1> QED BY <1>1, <1>2, <1>3, RemoveControl, LockControl

LEMMA CleanupAfterRecoveryControl == ControlInv /\ CleanupAfterRecovery => ControlInv'
<1> SUFFICES ASSUME ControlInv, CleanupAfterRecovery PROVE ControlInv'
  OBVIOUS
<1>1. FsTypeOK'
  BY Sizes DEF ControlInv, TypeOK, FsTypeOK, CleanupAfterRecovery, Fault, NoFault
<1>2. ExecTypeOK'
  BY DEF ControlInv, TypeOK, ExecTypeOK, CleanupAfterRecovery, Pc
<1>3. \/ Remove /\ pc' = "Idle"
      \/ UNCHANGED journalVars /\ pc' = "Locked"
  BY DEF CleanupAfterRecovery
<1> QED BY <1>1, <1>2, <1>3, RemoveControl, LockControl

LEMMA DiscardStagedIntentControl == ControlInv /\ DiscardStagedIntent => ControlInv'
<1> SUFFICES ASSUME ControlInv, DiscardStagedIntent PROVE ControlInv'
  OBVIOUS
<1>1. FsTypeOK'
  BY Sizes DEF ControlInv, TypeOK, FsTypeOK, DiscardStagedIntent, Fault, NoFault
<1>2. ExecTypeOK'
  BY DEF ControlInv, TypeOK, ExecTypeOK, DiscardStagedIntent, Goto, Pc
<1>3. CASE Remove /\ pc' = "Idle"
  BY <1>1, <1>2, <1>3, RemoveControl
<1>4. CASE UNCHANGED journalVars /\ pc' = "Staged"
  <2>1. ~poisoned
    BY DEF DiscardStagedIntent, IsCompleteIntentCandidate
  <2>2. JournalTypeOK' /\ Shaped(journal)' /\ NameTellsContent'
    BY <1>4, <2>1, JournalUntouched
  <2> QED BY <1>1, <1>2, <1>4, <2>2, AtRest DEF ControlInv, TypeOK
<1> QED BY <1>3, <1>4 DEF DiscardStagedIntent, Goto

-----------------------------------------------------------------------------
(***************************************************************************)
(* A process ends, by exit or crash, and the next one starts.              *)
(***************************************************************************)
LEMMA ProcessGoneControl ==
  ASSUME ControlInv, ProcessGone, FsTypeOK'
  PROVE  ControlInv'
<1>1. poisoned' \in BOOLEAN /\ ~poisoned'
  BY DEF ProcessGone, CloseHandle
<1>2. UNCHANGED <<leaf, journal, frames, torn>> /\ phase' = "Closed" /\ pc' = "Down"
  BY DEF ProcessGone, CloseHandle
<1>3. ExecTypeOK'
  <2>1. at' \in Cursor
    BY Sizes DEF ProcessGone, Cursor
  <2> QED BY <2>1 DEF ProcessGone, ExecTypeOK, Pc, RenameState, Outcome
<1>4. JournalTypeOK'
  BY <1>1, <1>2 DEF ControlInv, TypeOK, JournalTypeOK
<1>5. Shaped(journal)' /\ NameTellsContent'
  BY <1>1, <1>2 DEF ControlInv, NameTellsContent
<1>6. PlaceTellsJournal'
  BY <1>2 DEF PlaceTellsJournal, PreIntentPc, ForwardInDoubtPc, RollbackInDoubtPc, ReverseInDoubtPc
<1> QED BY <1>3, <1>4, <1>5, <1>6 DEF ControlInv, TypeOK

LEMMA ExitControl == ControlInv /\ (Exit \/ Crash) => ControlInv'
<1> SUFFICES ASSUME ControlInv, Exit \/ Crash PROVE ControlInv'
  OBVIOUS
<1>1. FsTypeOK'
  BY Sizes DEF ControlInv, TypeOK, FsTypeOK, Exit, Crash, fsVars, Fault
<1> QED BY <1>1, ProcessGoneControl DEF Exit, Crash

LEMMA StartupControl == ControlInv /\ Startup => ControlInv'
<1> SUFFICES ASSUME ControlInv, Startup PROVE ControlInv'
  OBVIOUS
<1>1. ~poisoned /\ phase = "Closed"
  BY DEF ControlInv, NameTellsContent, PlaceTellsJournal, Startup
<1>2. FsTypeOK'
  BY Sizes DEF ControlInv, TypeOK, FsTypeOK, Startup, StartupNoJournal, StartupActive,
     StartupEmptyCandidate, StartupCandidate, Fault, NoFault
<1>3. ExecTypeOK'
  BY DEF ControlInv, TypeOK, ExecTypeOK, Startup, StartupNoJournal, StartupActive,
     StartupEmptyCandidate, StartupCandidate, Pc, RecoveryPc
<1>4. CASE StartupNoJournal
  <2>1. JournalTypeOK' /\ Shaped(journal)' /\ NameTellsContent'
    BY <1>1, <1>4, JournalUntouched DEF StartupNoJournal
  <2>2. PlaceTellsJournal'
    BY <1>1, <1>4 DEF StartupNoJournal, journalVars, PlaceTellsJournal, PreIntentPc, ForwardInDoubtPc, RollbackInDoubtPc, ReverseInDoubtPc
  <2> QED BY <1>2, <1>3, <2>1, <2>2 DEF ControlInv, TypeOK
<1>5. CASE StartupActive
  <2>1. CASE Open("Active") /\ pc' = "Confirm"
    <3>1. JournalTypeOK' /\ Shaped(journal)' /\ NameTellsContent'
      BY <1>1, <1>5, <2>1 DEF StartupActive, Open, ControlInv, TypeOK, JournalTypeOK, NameTellsContent
    <3>2. PlaceTellsJournal'
      BY <1>1, <1>5, <2>1 DEF StartupActive, Open, PlaceTellsJournal, InActive, PreIntentPc, ForwardInDoubtPc, RollbackInDoubtPc, ReverseInDoubtPc
    <3> QED BY <1>2, <1>3, <3>1, <3>2 DEF ControlInv, TypeOK
  <2> QED BY <1>2, <1>3, <1>5, <2>1, LockControl DEF StartupActive
<1>6. CASE leaf = "Candidate" /\ Open("Candidate") /\ pc' \in {"Locked", "Staged"}
  <2>1. JournalTypeOK' /\ Shaped(journal)' /\ NameTellsContent'
    BY <1>1, <1>6 DEF Open, ControlInv, TypeOK, JournalTypeOK, NameTellsContent
  <2> QED BY <1>2, <1>3, <1>6, <2>1, AtRest DEF ControlInv, TypeOK
<1>7. CASE StartupEmptyCandidate
  BY <1>2, <1>3, <1>6, <1>7, RemoveControl DEF StartupEmptyCandidate
<1>8. CASE StartupCandidate
  BY <1>2, <1>3, <1>6, <1>8, LockControl DEF StartupCandidate
<1> QED BY <1>4, <1>5, <1>7, <1>8 DEF Startup

-----------------------------------------------------------------------------
LEMMA StutterControl == ControlInv /\ UNCHANGED vars => ControlInv'
<1> SUFFICES ASSUME ControlInv, UNCHANGED vars PROVE ControlInv'
  OBVIOUS
<1>1. UNCHANGED <<fsVars, journalVars, execVars>>
  BY DEF vars
<1>2. FsTypeOK' /\ ExecTypeOK'
  BY <1>1 DEF ControlInv, TypeOK, FsTypeOK, ExecTypeOK, fsVars, execVars
<1>3. JournalTypeOK' /\ Shaped(journal)' /\ NameTellsContent'
  BY <1>1, JournalUntouched DEF ControlInv, NameTellsContent, execVars
<1>4. PlaceTellsJournal'
  BY <1>1, PlaceUntouched DEF execVars
<1> QED BY <1>2, <1>3, <1>4 DEF ControlInv, TypeOK

LEMMA NextControl == ControlInv /\ [Next]_vars => ControlInv'
<1> SUFFICES ASSUME ControlInv, [Next]_vars PROVE ControlInv'
  OBVIOUS
<1>1. CASE Startup
  BY <1>1, StartupControl
<1>2. CASE User
  BY <1>2, StartApplyControl, RequestCancelControl, ConfirmRecoveryControl,
     DeclineRecoveryControl, DiscardStagedIntentControl, ExitControl DEF User
<1>3. CASE ExecutorStep
  BY <1>3, CreateJournalControl, FreezeRowControl, FreezeTemporariesControl,
     BeginTransactionControl, AppendIntentControl, PromoteCandidateControl,
     CancelForwardControl, PrepareForwardControl, RenameForwardControl,
     RecordNotAppliedControl, RecordCompletedControl, CommitControl,
     PrepareRollbackControl, RenameRollbackControl, RecordRollbackNotAppliedControl,
     RecordRollbackCompletedControl, FinishRollbackControl,
     HandleCompletedExecutionControl DEF ExecutorStep
<1>4. CASE RecoveryStep
  BY <1>4, RecoveryNotRequiredControl, RecoveryBlockedControl, ReconcileControl,
     PrepareReverseControl, RenameReverseControl, RecordReverseNotAppliedControl,
     RecordReverseCompletedControl, FinishRecoveryControl,
     CleanupAfterRecoveryControl DEF RecoveryStep
<1>5. CASE Crash
  BY <1>5, ExitControl
<1>6. CASE Environment
  BY <1>6, EnvironmentControl
<1>7. CASE UNCHANGED vars
  BY <1>7, StutterControl
<1> QED BY <1>1, <1>2, <1>3, <1>4, <1>5, <1>6, <1>7 DEF Next

(***************************************************************************)
(* ControlInv holds in every reachable state of every transaction: every   *)
(* handler of the executor, recovery and startup preserves it.             *)
(***************************************************************************)
THEOREM ControlCorrect == Spec => []ControlInv
<1>1. Init => ControlInv
  BY InitControl
<1>2. ControlInv /\ [Next]_vars => ControlInv'
  BY NextControl
<1> QED BY <1>1, <1>2, PTL DEF Spec

(***************************************************************************)
(* Every variable keeps its type; in particular the frames on disk never   *)
(* exceed MAX_JOURNAL_FRAMES and the replay cursor never leaves the        *)
(* manifest.                                                               *)
(***************************************************************************)
THEOREM TypeCorrect == Spec => []TypeOK
<1>1. ControlInv => TypeOK
  BY DEF ControlInv
<1> QED BY <1>1, ControlCorrect, PTL

(***************************************************************************)
(* Whatever crashes and uncertain appends happen, and whatever the plan,   *)
(* the next process can replay the active journal.                         *)
(***************************************************************************)
THEOREM JournalReadable == Spec => []JournalAlwaysReadable
<1>1. ControlInv => JournalAlwaysReadable
  BY DEF ControlInv, JournalAlwaysReadable, NameTellsContent, Readable, Shaped, Shape
<1> QED BY <1>1, ControlCorrect, PTL

-----------------------------------------------------------------------------
(***************************************************************************)
(* Only three steps of the program move an entry.                          *)
(***************************************************************************)
LEMMA OnlyRenamesMove ==
  ASSUME Next, pc' # pc, fs' # fs
  PROVE  RenameForward \/ RenameRollback \/ RenameReverse
<1>1. CASE Startup \/ User \/ Crash \/ Environment
  BY <1>1 DEF Startup, User, StartApply, RequestCancel, ConfirmRecovery, DeclineRecovery,
     DiscardStagedIntent, Exit, Crash, Environment, execVars, fsVars
<1>2. CASE ExecutorStep
  BY <1>2 DEF ExecutorStep, CreateJournal, FreezeRow, FreezeTemporaries, BeginTransaction,
     AppendIntent, PromoteCandidate, CancelForward, PrepareForward, RecordNotApplied,
     RecordCompleted, Commit, PrepareRollback, RecordRollbackNotApplied,
     RecordRollbackCompleted, FinishRollback, HandleCompletedExecution, fsVars
<1>3. CASE RecoveryStep
  BY <1>3 DEF RecoveryStep, RecoveryNotRequired, RecoveryBlocked, Reconcile, PrepareReverse,
     RecordReverseNotApplied, RecordReverseCompleted, FinishRecovery, CleanupAfterRecovery,
     fsVars
<1> QED BY <1>1, <1>2, <1>3 DEF Next

LEMMA RenameIsWrittenAhead ==
  ASSUME ControlInv, Next PROVE WriteAheadStep
<1> SUFFICES ASSUME pc' # pc, fs' # fs
             PROVE  /\ leaf = "Active" /\ phase = "Active" /\ ~poisoned /\ ~torn
                    /\ \E i \in StepNumber : \E s \in {Steps[i], Reverse(Steps[i])} :
                         PreparedOnDisk(s) /\ fs' = ApplyStep(fs, s)
  BY DEF WriteAheadStep
<1>1. CASE RenameForward
  <2>1. InActive /\ ~torn /\ at \in StepNumber /\ Doubt(at, NoStep)
    BY <1>1 DEF RenameForward, ControlInv, PlaceTellsJournal, ForwardInDoubtPc
  <2>2. fs' = ApplyStep(fs, Steps[at])
    BY <1>1 DEF RenameForward, RenameOk, RenameNotApplied, RenameMayHaveApplied
  <2>3. at # NoStep
    BY <2>1 DEF StepNumber, NoStep
  <2> QED BY <2>1, <2>2, <2>3 DEF InActive, Doubt, PreparedOnDisk
<1>2. CASE RenameRollback \/ RenameReverse
  <2>1. InActive /\ ~torn /\ at \in StepNumber /\ Doubt(NoStep, at)
    BY <1>2 DEF RenameRollback, RenameReverse, ControlInv, PlaceTellsJournal,
       RollbackInDoubtPc, ReverseInDoubtPc
  <2>2. fs' = ApplyStep(fs, Reverse(Steps[at]))
    BY <1>2 DEF RenameRollback, RenameReverse, RenameOk, RenameNotApplied, RenameMayHaveApplied
  <2>3. at # NoStep
    BY <2>1 DEF StepNumber, NoStep
  <2> QED BY <2>1, <2>2, <2>3 DEF InActive, Doubt, PreparedOnDisk
<1> QED BY <1>1, <1>2, OnlyRenamesMove

(***************************************************************************)
(* Write-ahead for plans of every size: rename_no_replace moves an entry   *)
(* only after the Prepared record of that very move is in the active       *)
(* journal, in the forward loop, in rollback and in recovery.              *)
(***************************************************************************)
THEOREM WriteAheadHolds == Spec => WriteAhead
<1>1. ControlInv /\ [Next]_vars => [WriteAheadStep]_vars
  BY RenameIsWrittenAhead
<1> QED BY <1>1, ControlCorrect, PTL DEF Spec, WriteAhead

-----------------------------------------------------------------------------
(***************************************************************************)
(* The directories: the journal always tells where the plan's entries are, *)
(* nothing is lost, what the transaction reports is true, and it           *)
(* implements the atomic batch. All of it for plans of every size and any  *)
(* number of failures.                                                     *)
(***************************************************************************)
(***************************************************************************)
(* The steps of the schedule on the occupancies between them.              *)
(***************************************************************************)
LEMMA StepFacts ==
  ASSUME NEW i \in StepNumber
  PROVE  /\ i \in Nat /\ i >= 1 /\ i <= StepCount /\ i # NoStep
         /\ i \in 0..StepCount /\ i - 1 \in 0..StepCount
         /\ Steps[i].source \in Keys /\ Steps[i].destination \in Keys
         /\ Steps[i].source # Steps[i].destination
         /\ Steps[i].identity \in Identities /\ Steps[i].identity # None
         /\ Steps[i].entry \in Entries /\ Steps[i].phase \in TemporaryPhase
         /\ Movable(Occ[i - 1], Steps[i])
         /\ Occ[i] = ApplyStep(Occ[i - 1], Steps[i])
<1>1. i \in 1..StepCount /\ StepCount \in Nat
  BY Sizes DEF StepNumber
<1>2. Steps[i] \in Step /\ Steps[i].source # Steps[i].destination
  BY <1>1, StepsAssumption DEF ValidSteps
<1>3. Movable(Occ[i - 1], Steps[i]) /\ Occ[i] = ApplyStep(Occ[i - 1], Steps[i])
  BY <1>1, OccAssumption DEF ValidOcc
<1> QED BY <1>1, <1>2, <1>3, NamesAssumption DEF Step, NoStep

LEMMA OccTyped ==
  ASSUME NEW j \in 0..StepCount
  PROVE  Occ[j] \in [Keys -> Identities \cup {None}]
BY OccAssumption DEF ValidOcc

LEMMA StepOccupancy ==
  ASSUME NEW i \in StepNumber, NEW k \in Keys
  PROVE  /\ k = Steps[i].source =>
              Occ[i - 1][k] = Steps[i].identity /\ Occ[i][k] = None
         /\ k = Steps[i].destination =>
              Occ[i - 1][k] = None /\ Occ[i][k] = Steps[i].identity
         /\ k \notin {Steps[i].source, Steps[i].destination} =>
              Occ[i][k] = Occ[i - 1][k]
<1>1. /\ Steps[i].source \in Keys /\ Steps[i].destination \in Keys
      /\ Steps[i].source # Steps[i].destination
      /\ Movable(Occ[i - 1], Steps[i]) /\ Occ[i] = ApplyStep(Occ[i - 1], Steps[i])
      /\ Occ[i - 1] \in [Keys -> Identities \cup {None}]
  BY StepFacts, OccTyped
<1> QED BY <1>1 DEF Movable, ApplyStep

\* Reversing a step undoes it.
LEMMA ReverseUndoes ==
  ASSUME NEW i \in StepNumber
  PROVE  ApplyStep(Occ[i], Reverse(Steps[i])) = Occ[i - 1]
<1>1. /\ Steps[i].source \in Keys /\ Steps[i].destination \in Keys
      /\ Steps[i].source # Steps[i].destination
      /\ Occ[i - 1] \in [Keys -> Identities \cup {None}]
      /\ Occ[i] \in [Keys -> Identities \cup {None}]
  BY StepFacts, OccTyped
<1> DEFINE back == ApplyStep(Occ[i], Reverse(Steps[i]))
<1>2. back \in [Keys -> Identities \cup {None}]
  BY <1>1, StepFacts DEF ApplyStep, Reverse
<1>3. \A k \in Keys : back[k] = Occ[i - 1][k]
  BY <1>1, StepOccupancy DEF ApplyStep, Reverse
<1> QED BY <1>1, <1>2, <1>3

-----------------------------------------------------------------------------
(***************************************************************************)
(* A step that leaves the plan's own entries where they are, and the moves *)
(* that take them one step on or back.                                     *)
(***************************************************************************)
SameOwn == \A k \in Keys : fs[k] \in Identities \/ fs'[k] \in Identities => fs'[k] = fs[k]

LEMMA OwnKept ==
  ASSUME NEW j \in 0..StepCount, SameOwn, Position(j)
  PROVE  Position(j)'
<1> SUFFICES ASSUME NEW k \in Keys PROVE OwnEntryAt(Occ[j], k)'
  BY DEF Position, OwnEntriesAt
<1>1. Occ[j][k] \in Identities \cup {None}
  BY OccTyped
<1>2. OwnEntryAt(Occ[j], k)
  BY DEF Position, OwnEntriesAt
<1> QED BY <1>1, <1>2 DEF OwnEntryAt, SameOwn

LEMMA RowKept ==
  ASSUME NEW i \in 1..RowCount, SameOwn, RowStays(Rows[i])
  PROVE  RowStays(Rows[i])'
<1>1. Rows[i] \in Row
  BY RowsAssumption
<1>2. Occ[0][Rows[i].destination] \in Identities \cup {None}
  BY <1>1, OccTyped, Sizes DEF Row
<1> QED BY <1>1, <1>2 DEF RowStays, OwnEntryAt, SameOwn, Row

LEMMA MovedForward ==
  ASSUME FsTypeOK, NEW i \in StepNumber, Position(i - 1), fs' = ApplyStep(fs, Steps[i])
  PROVE  Position(i)'
<1> SUFFICES ASSUME NEW k \in Keys PROVE OwnEntryAt(Occ[i], k)'
  BY DEF Position, OwnEntriesAt
<1>1. OwnEntryAt(Occ[i - 1], k)
  BY DEF Position, OwnEntriesAt
<1>2. /\ Steps[i].source \in Keys /\ Steps[i].destination \in Keys
      /\ Steps[i].source # Steps[i].destination
      /\ Steps[i].identity # None /\ None \notin Identities
  BY StepFacts, NamesAssumption
<1>3. fs \in [Keys -> Occupant]
  BY DEF FsTypeOK
<1>4. CASE k = Steps[i].source
  BY <1>2, <1>3, <1>4, StepOccupancy DEF OwnEntryAt, ApplyStep
<1>5. CASE k = Steps[i].destination
  BY <1>2, <1>3, <1>5, StepOccupancy DEF OwnEntryAt, ApplyStep
<1>6. CASE k \notin {Steps[i].source, Steps[i].destination}
  <2>1. fs'[k] = fs[k] /\ Occ[i][k] = Occ[i - 1][k]
    BY <1>2, <1>3, <1>6, StepOccupancy DEF ApplyStep
  <2> QED BY <1>1, <2>1 DEF OwnEntryAt
<1> QED BY <1>4, <1>5, <1>6

LEMMA MovedBack ==
  ASSUME FsTypeOK, NEW i \in StepNumber, Position(i), fs' = ApplyStep(fs, Reverse(Steps[i]))
  PROVE  Position(i - 1)'
<1> SUFFICES ASSUME NEW k \in Keys PROVE OwnEntryAt(Occ[i - 1], k)'
  BY DEF Position, OwnEntriesAt
<1>1. OwnEntryAt(Occ[i], k)
  BY DEF Position, OwnEntriesAt
<1>2. /\ Steps[i].source \in Keys /\ Steps[i].destination \in Keys
      /\ Steps[i].source # Steps[i].destination
      /\ Steps[i].identity # None /\ None \notin Identities
  BY StepFacts, NamesAssumption
<1>3. fs \in [Keys -> Occupant]
  BY DEF FsTypeOK
<1>4. CASE k = Steps[i].source
  BY <1>2, <1>3, <1>4, StepOccupancy DEF OwnEntryAt, ApplyStep, Reverse
<1>5. CASE k = Steps[i].destination
  BY <1>2, <1>3, <1>5, StepOccupancy DEF OwnEntryAt, ApplyStep, Reverse
<1>6. CASE k \notin {Steps[i].source, Steps[i].destination}
  <2>1. fs'[k] = fs[k] /\ Occ[i][k] = Occ[i - 1][k]
    BY <1>2, <1>3, <1>6, StepOccupancy DEF ApplyStep, Reverse
  <2> QED BY <1>1, <2>1 DEF OwnEntryAt
<1> QED BY <1>4, <1>5, <1>6

\* A directory that holds exactly what an occupancy says holds the own entries so.
LEMMA ExactPosition ==
  ASSUME NEW j \in 0..StepCount, fs = Occ[j]
  PROVE  Position(j)
<1> SUFFICES ASSUME NEW k \in Keys PROVE OwnEntryAt(Occ[j], k)
  BY DEF Position, OwnEntriesAt
<1> QED BY NamesAssumption DEF OwnEntryAt

(***************************************************************************)
(* Other processes that leave the plan's entries alone, leave them alone.  *)
(***************************************************************************)
LEMMA EnvironmentSpares ==
  ASSUME FsTypeOK, Environment, ~disturbed'
  PROVE  ~disturbed /\ SameOwn
<1>1. PICK k \in Keys, x \in Occupant : Interfere(k, x)
  BY DEF Environment
<1>2. ~disturbed /\ fs[k] \notin Identities /\ x \notin Identities
  BY <1>1, Zenon DEF Interfere
<1>3. fs' = [fs EXCEPT ![k] = x]
  BY <1>1 DEF Interfere
<1> QED BY <1>2, <1>3 DEF SameOwn, FsTypeOK

-----------------------------------------------------------------------------
(***************************************************************************)
(* How many steps a journal says may be in effect.                         *)
(***************************************************************************)
LEMMA ReadingsOfShape ==
  ASSUME NEW st, NEW m, NEW r, Shape(st, m, r)
  PROVE  /\ r \in 0..StepCount /\ r \in Readings(st)
         /\ Readings(st) \subseteq 0..StepCount
         /\ NothingPrepared(st) => Readings(st) = {r}
         /\ st.forward_prepared # NoStep => Readings(st) = {r, r + 1}
         /\ st.rollback_prepared # NoStep => Readings(st) = {r, r - 1}
<1>1. LastRemaining(st) = r /\ r \in 0..StepCount /\ StepCount \in Nat
  BY RemainingOfShape, ShapedOf, Sizes
<1>2. /\ st.forward_prepared \in {NoStep} \cup StepNumber
      /\ st.rollback_prepared \in {NoStep} \cup StepNumber
      /\ st.forward_prepared # NoStep => st.forward_prepared = r + 1 /\ st.rollback_prepared = NoStep
      /\ st.rollback_prepared # NoStep => st.rollback_prepared = r /\ st.forward_prepared = NoStep
  BY DEF Shape, ReplayState
<1>3. r \in Readings(st) /\ (NothingPrepared(st) => Readings(st) = {r})
  BY <1>1 DEF Readings, NothingPrepared
<1>4. st.forward_prepared # NoStep => Readings(st) = {r, r + 1} /\ r + 1 \in 0..StepCount
  BY <1>1, <1>2 DEF Readings, StepNumber
<1>5. st.rollback_prepared # NoStep => Readings(st) = {r, r - 1} /\ r - 1 \in 0..StepCount
  BY <1>1, <1>2 DEF Readings, StepNumber, NoStep
<1>6. Readings(st) \subseteq 0..StepCount
  BY <1>1, <1>3, <1>4, <1>5 DEF NothingPrepared
<1> QED BY <1>1, <1>3, <1>4, <1>5, <1>6

LEMMA AppendEffect ==
  ASSUME NEW rec, AnyAppend(rec), InActive
  PROVE  leaf' = "Active" /\ journal' \in {journal, ReplayStep(journal, rec)}
BY DEF AnyAppend, AppendOk, AppendNotAppended, AppendMayHaveAppended, AuthorizedAppendOk,
       AuthorizedFailure, AuthorizedAppendNotAppended, AuthorizedAppendMayHaveAppended,
       journalVars, InActive

\* An append keeps the journal true if the record and the lack of it both are.
LEMMA AppendDisk ==
  ASSUME NEW rec, AnyAppend(rec), InActive, UNCHANGED fs,
         NEW j \in 0..StepCount, Position(j),
         j \in Readings(journal), j \in Readings(ReplayStep(journal, rec))
  PROVE  FileTellsDisk' /\ Position(j)'
<1>1. leaf' = "Active" /\ j \in Readings(journal')
  BY AppendEffect
<1>2. Position(j)'
  BY OwnKept DEF SameOwn
<1> QED BY <1>1, <1>2 DEF FileTellsDisk

\* A step that touches neither the file nor the own entries keeps it true.
LEMMA FileKept ==
  ASSUME ControlInv, FileTellsDisk, SameOwn, leaf' = leaf, journal' = journal
  PROVE  FileTellsDisk'
<1>1. CASE leaf = "Active"
  <2>1. PICK j \in Readings(journal) : Position(j)
    BY <1>1 DEF FileTellsDisk
  <2>2. j \in 0..StepCount
    BY <2>1, ReadingsOfShape DEF ControlInv, Shaped
  <2>3. Position(j)'
    BY <2>1, <2>2, OwnKept
  <2>4. j \in Readings(journal')
    BY <2>1
  <2> QED BY <1>1, <2>3, <2>4 DEF FileTellsDisk
<1>2. CASE leaf # "Active"
  <2>1. 0 \in 0..StepCount /\ StepCount \in 0..StepCount
    BY Sizes
  <2>2. Position(0)' \/ Position(StepCount)'
    BY <1>2, <2>1, OwnKept DEF FileTellsDisk
  <2> QED BY <1>2, <2>2 DEF FileTellsDisk
<1> QED BY <1>1, <1>2

LEMMA PlaceKept ==
  ASSUME ControlInv, PlaceTellsDisk, SameOwn, pc' = pc, at' = at
  PROVE  PlaceTellsDisk'
<1>1. PICK n : n = at
  OBVIOUS
<1>2. 0 \in 0..StepCount
  BY Sizes
<1>3. CASE pc \in {"Create", "Freeze"}
  <2>1. at \in 1..(RowCount + 1) /\ RowCount \in Nat
    BY <1>3, Sizes DEF ControlInv, PlaceTellsJournal
  <2>2. \A i \in 1..(n - 1) : i \in 1..RowCount /\ RowStays(Rows[i])
    BY <1>1, <1>3, <2>1 DEF PlaceTellsDisk
  <2>3. \A i \in 1..(n - 1) : RowStays(Rows[i])'
    BY <2>2, RowKept
  <2> QED BY <1>1, <1>3, <2>3 DEF PlaceTellsDisk
<1>4. CASE pc \in {"Begin", "Intent", "Promote"}
  BY <1>2, <1>4, OwnKept DEF PlaceTellsDisk
<1>5. CASE pc \in {"Rename", "NotApplied", "RbComplete", "RvComplete"}
  <2>1. n \in StepNumber
    BY <1>1, <1>5 DEF ControlInv, PlaceTellsJournal, ForwardInDoubtPc, RollbackInDoubtPc,
       ReverseInDoubtPc
  <2>2. n - 1 \in 0..StepCount
    BY <2>1, StepFacts
  <2>3. Position(n - 1)'
    BY <1>1, <1>5, <2>2, OwnKept DEF PlaceTellsDisk
  <2> QED BY <1>1, <1>5, <2>3 DEF PlaceTellsDisk
<1>6. CASE pc \in {"Complete", "RbRename", "RbNotApplied", "RvRename", "RvNotApplied"}
  <2>1. n \in StepNumber
    BY <1>1, <1>6 DEF ControlInv, PlaceTellsJournal, ForwardInDoubtPc, RollbackInDoubtPc,
       ReverseInDoubtPc
  <2>2. n \in 0..StepCount
    BY <2>1, StepFacts
  <2>3. Position(n)'
    BY <1>1, <1>6, <2>2, OwnKept DEF PlaceTellsDisk
  <2> QED BY <1>1, <1>6, <2>3 DEF PlaceTellsDisk
<1> QED BY <1>3, <1>4, <1>5, <1>6 DEF PlaceTellsDisk

\* The places of which nothing is said.
LEMMA NoPlace ==
  ASSUME pc' \in {"Down", "Idle", "Locked", "Staged", "Step", "RbStep", "Report", "Confirm",
                  "RvStart", "RvStep", "RvCleanup"}
  PROVE  PlaceTellsDisk'
BY DEF PlaceTellsDisk

\* All or nothing, wherever the journal says that the batch is settled.
LEMMA SettledPosition ==
  ASSUME ControlInv, FileTellsDisk, leaf # "Active" \/ journal.terminal # "None"
  PROVE  Position(0) \/ Position(StepCount)
<1>1. CASE leaf # "Active"
  BY <1>1 DEF FileTellsDisk
<1>2. CASE leaf = "Active" /\ journal.terminal # "None"
  <2>1. PICK m, r \in 0..StepCount : Shape(journal, m, r)
    BY DEF ControlInv, Shaped
  <2>2. Readings(journal) = {r}
    BY <1>2, <2>1, ReadingsOfShape DEF Shape
  <2>3. r \in {0, StepCount}
    BY <1>2, <2>1 DEF Shape, ReplayState
  <2> QED BY <1>2, <2>2, <2>3 DEF FileTellsDisk
<1> QED BY <1>1, <1>2

\* Every row found fresh, the plan's entries are where they were before the batch.
LEMMA FrozenPosition ==
  ASSUME Position(0) \/ Position(StepCount), \A i \in 1..RowCount : RowStays(Rows[i])
  PROVE  Position(0)
<1> SUFFICES ASSUME NEW k \in Keys PROVE OwnEntryAt(Occ[0], k)
  BY DEF Position, OwnEntriesAt
<1>0. 0 \in 0..StepCount /\ StepCount \in 0..StepCount
  BY Sizes
<1>1. OwnEntryAt(Occ[0], k) \/ OwnEntryAt(Occ[StepCount], k)
  BY DEF Position, OwnEntriesAt
<1>2. CASE Occ[0][k] # None
  <2>1. PICK i \in 1..RowCount : Rows[i].source = k
    BY <1>2, ProgressAssumption DEF ValidRows
  <2>2. EntryProgress(0, Rows[i].entry) = "Restored"
    BY DEF EntryProgress
  <2>3. Occ[0][k] = Rows[i].identity
    BY <1>0, <2>1, <2>2, ProgressAssumption DEF ValidRows
  <2>4. fs[k] = Rows[i].identity
    BY <2>1 DEF RowStays
  <2> QED BY <1>2, <2>3, <2>4 DEF OwnEntryAt
<1>3. CASE Occ[0][k] = None /\ Occ[StepCount][k] # None
  <2>1. PICK i \in 1..RowCount : Rows[i].destination = k
    BY <1>3, ProgressAssumption DEF ValidRows
  <2> QED BY <2>1 DEF RowStays
<1>4. CASE Occ[0][k] = None /\ Occ[StepCount][k] = None
  BY <1>1, <1>4 DEF OwnEntryAt
<1> QED BY <1>2, <1>3, <1>4

-----------------------------------------------------------------------------
(***************************************************************************)
(* DiskInv, action by action.  First the steps that touch neither the file *)
(* nor the directories.                                                    *)
(***************************************************************************)
QuietPc == {"Down", "Idle", "Locked", "Staged", "Step", "RbStep", "Report", "Confirm",
            "RvStart", "RvStep", "RvCleanup"}

LEMMA QuietDisk ==
  ASSUME ControlInv, DiskInv, UNCHANGED <<fs, disturbed, leaf, journal>>, pc' \in QuietPc
  PROVE  DiskInv'
<1>1. SameOwn
  BY DEF SameOwn
<1>2. PlaceTellsDisk'
  BY NoPlace DEF QuietPc
<1> QED BY <1>1, <1>2, FileKept DEF DiskInv

LEMMA UserDisk ==
  ASSUME ControlInv, DiskInv, UNCHANGED <<fs, disturbed, leaf, journal>>,
         StartApply \/ RequestCancel
  PROVE  DiskInv'
<1>1. SameOwn
  BY DEF SameOwn
<1>2. ~disturbed => FileTellsDisk'
  BY <1>1, FileKept DEF DiskInv
<1>3. CASE StartApply
  <2>1. PlaceTellsDisk'
    BY <1>3 DEF StartApply, PlaceTellsDisk
  <2> QED BY <1>2, <2>1 DEF DiskInv
<1>4. CASE RequestCancel
  <2>1. ~disturbed => PlaceTellsDisk'
    BY <1>1, <1>4, PlaceKept DEF DiskInv, RequestCancel
  <2> QED BY <1>2, <2>1 DEF DiskInv
<1> QED BY <1>3, <1>4

LEMMA EnvironmentDisk == ControlInv /\ DiskInv /\ Environment => DiskInv'
<1> SUFFICES ASSUME ControlInv, DiskInv, Environment, ~disturbed'
             PROVE  FileTellsDisk' /\ PlaceTellsDisk'
  BY DEF DiskInv
<1>1. ~disturbed /\ SameOwn
  BY EnvironmentSpares DEF ControlInv, TypeOK
<1>2. leaf' = leaf /\ journal' = journal /\ pc' = pc /\ at' = at
  BY DEF Environment, journalVars, execVars
<1> QED BY <1>1, <1>2, FileKept, PlaceKept DEF DiskInv

LEMMA RemoveDisk ==
  ASSUME ControlInv, DiskInv, UNCHANGED <<fs, disturbed>>, leaf' = "Absent",
         leaf # "Active" \/ journal.terminal # "None", pc' \in QuietPc
  PROVE  DiskInv'
<1>1. SameOwn /\ 0 \in 0..StepCount /\ StepCount \in 0..StepCount
  BY Sizes DEF SameOwn
<1>2. PlaceTellsDisk'
  BY NoPlace DEF QuietPc
<1>3. ~disturbed => Position(0)' \/ Position(StepCount)'
  BY <1>1, SettledPosition, OwnKept DEF DiskInv
<1> QED BY <1>2, <1>3 DEF DiskInv, FileTellsDisk

\* A journal that may be deleted is settled.
LEMMA DeletableIsSettled ==
  ASSUME ControlInv, MayDelete
  PROVE  leaf # "Active" \/ journal.terminal # "None"
BY DEF ControlInv, NameTellsContent, MayDelete, Clean, IsPhysicallyEmptyCandidate

LEMMA StartupDisk == ControlInv /\ DiskInv /\ Startup => DiskInv'
<1> SUFFICES ASSUME ControlInv, DiskInv, Startup PROVE DiskInv'
  OBVIOUS
<1>1. pc' \in QuietPc /\ UNCHANGED <<fs, disturbed>>
  BY DEF Startup, StartupNoJournal, StartupActive, StartupEmptyCandidate, StartupCandidate,
     QuietPc
<1>2. \/ leaf' = "Absent" /\ leaf # "Active"
      \/ UNCHANGED <<leaf, journal>>
  BY DEF Startup, StartupNoJournal, StartupActive, StartupEmptyCandidate, StartupCandidate,
     Open, Remove, journalVars
<1> QED BY <1>1, <1>2, RemoveDisk, QuietDisk

LEMMA CleanupDisk ==
  ControlInv /\ DiskInv /\ (HandleCompletedExecution \/ CleanupAfterRecovery \/ DiscardStagedIntent)
    => DiskInv'
<1> SUFFICES ASSUME ControlInv, DiskInv,
                    HandleCompletedExecution \/ CleanupAfterRecovery \/ DiscardStagedIntent
             PROVE  DiskInv'
  OBVIOUS
<1>1. pc' \in QuietPc /\ UNCHANGED <<fs, disturbed>>
  BY DEF HandleCompletedExecution, CleanupAfterRecovery, DiscardStagedIntent, Goto, QuietPc
<1>2. \/ leaf' = "Absent" /\ (leaf # "Active" \/ journal.terminal # "None")
      \/ UNCHANGED <<leaf, journal>>
  BY DeletableIsSettled DEF HandleCompletedExecution, CleanupAfterRecovery, DiscardStagedIntent,
     CleanupAllowed, Remove, journalVars
<1> QED BY <1>1, <1>2, RemoveDisk, QuietDisk

(***************************************************************************)
(* From the creation of the journal to its promotion.                      *)
(***************************************************************************)
LEMMA CreateJournalDisk == ControlInv /\ DiskInv /\ CreateJournal => DiskInv'
<1> SUFFICES ASSUME ControlInv, DiskInv, CreateJournal, ~disturbed'
             PROVE  FileTellsDisk' /\ PlaceTellsDisk'
  BY DEF DiskInv
<1>1. SameOwn /\ ~disturbed /\ 0 \in 0..StepCount /\ StepCount \in 0..StepCount
  BY Sizes DEF CreateJournal, SameOwn
<1>2. leaf # "Active" /\ leaf' # "Active" /\ pc = "Create"
  BY DEF CreateJournal, CreateCandidate, ControlInv, PlaceTellsJournal
<1>3. FileTellsDisk'
  BY <1>1, <1>2, OwnKept DEF DiskInv, FileTellsDisk
<1>4. PICK n : n = at
  OBVIOUS
<1>5. \A i \in 1..(n - 1) : i \in 1..RowCount /\ RowStays(Rows[i])
  BY <1>1, <1>2, <1>4, Sizes DEF ControlInv, PlaceTellsJournal, DiskInv, PlaceTellsDisk
<1>6. \A i \in 1..(n - 1) : RowStays(Rows[i])'
  BY <1>1, <1>5, RowKept
<1>7. PlaceTellsDisk'
  BY <1>4, <1>6 DEF CreateJournal, Goto, PlaceTellsDisk
<1> QED BY <1>3, <1>7

LEMMA FreezeRowDisk == ControlInv /\ DiskInv /\ FreezeRow => DiskInv'
<1> SUFFICES ASSUME ControlInv, DiskInv, FreezeRow, ~disturbed'
             PROVE  FileTellsDisk' /\ PlaceTellsDisk'
  BY DEF DiskInv
<1>1. SameOwn /\ ~disturbed /\ fs' = fs
  BY DEF FreezeRow, SameOwn
<1>2. FileTellsDisk'
  BY <1>1, FileKept DEF DiskInv, FreezeRow, journalVars
<1>3. CASE pc' = "Report"
  BY <1>2, <1>3, NoPlace
<1>4. CASE at' = at + 1 /\ pc' = pc /\ RowIsFresh(Rows[at])
  <2>1. PICK n : n = at
    OBVIOUS
  <2>2. n \in 1..RowCount /\ RowCount \in Nat
    BY <2>1, Sizes DEF FreezeRow, ControlInv, PlaceTellsJournal
  <2>3. \A i \in 1..(n - 1) : i \in 1..RowCount /\ RowStays(Rows[i])
    BY <1>1, <2>1, <2>2 DEF FreezeRow, DiskInv, PlaceTellsDisk
  <2>4. RowStays(Rows[n])
    BY <1>4, <2>1, NamesAssumption DEF RowIsFresh, RowStays, OwnEntryAt
  <2>5. \A i \in 1..n : RowStays(Rows[i])'
    BY <1>1, <2>2, <2>3, <2>4, RowKept
  <2>6. 1..(at' - 1) = 1..n
    BY <1>4, <2>1, <2>2
  <2>7. PlaceTellsDisk'
    BY <1>4, <2>5, <2>6 DEF FreezeRow, PlaceTellsDisk
  <2> QED BY <1>2, <2>7
<1> QED BY <1>3, <1>4 DEF FreezeRow, Return

LEMMA FreezeTemporariesDisk == ControlInv /\ DiskInv /\ FreezeTemporaries => DiskInv'
<1> SUFFICES ASSUME ControlInv, DiskInv, FreezeTemporaries, ~disturbed'
             PROVE  FileTellsDisk' /\ PlaceTellsDisk'
  BY DEF DiskInv
<1>1. SameOwn /\ ~disturbed /\ 0 \in 0..StepCount
  BY Sizes DEF FreezeTemporaries, SameOwn
<1>2. FileTellsDisk'
  BY <1>1, FileKept DEF DiskInv, FreezeTemporaries, journalVars
<1>3. CASE pc' = "Report"
  BY <1>2, <1>3, NoPlace
<1>4. CASE pc' = "Begin"
  <2>1. leaf # "Active"
    BY DEF FreezeTemporaries, ControlInv, PlaceTellsJournal, PreIntentPc, InCandidate
  <2>2. \A i \in 1..RowCount : RowStays(Rows[i])
    BY <1>1, Sizes DEF FreezeTemporaries, DiskInv, PlaceTellsDisk
  <2>3. Position(0)
    BY <1>1, <2>1, <2>2, FrozenPosition DEF DiskInv, FileTellsDisk
  <2>4. Position(0)'
    BY <1>1, <2>3, OwnKept
  <2>5. PlaceTellsDisk'
    BY <1>4, <2>4 DEF PlaceTellsDisk
  <2> QED BY <1>2, <2>5
<1> QED BY <1>3, <1>4 DEF FreezeTemporaries, Return, Goto

LEMMA BeginTransactionDisk == ControlInv /\ DiskInv /\ BeginTransaction => DiskInv'
<1> SUFFICES ASSUME ControlInv, DiskInv, BeginTransaction, ~disturbed'
             PROVE  FileTellsDisk' /\ PlaceTellsDisk'
  BY DEF DiskInv
<1>1. SameOwn /\ ~disturbed /\ 0 \in 0..StepCount
  BY Sizes DEF BeginTransaction, SameOwn, fsVars
<1>2. FileTellsDisk'
  BY <1>1, FileKept DEF DiskInv, BeginTransaction, journalVars
<1>3. Position(0)'
  BY <1>1, OwnKept DEF BeginTransaction, DiskInv, PlaceTellsDisk
<1>4. PlaceTellsDisk'
  BY <1>3 DEF BeginTransaction, Return, PlaceTellsDisk
<1> QED BY <1>2, <1>4

LEMMA AppendIntentDisk == ControlInv /\ DiskInv /\ AppendIntent => DiskInv'
<1> SUFFICES ASSUME ControlInv, DiskInv, AppendIntent, ~disturbed'
             PROVE  FileTellsDisk' /\ PlaceTellsDisk'
  BY DEF DiskInv
<1>1. SameOwn /\ ~disturbed /\ 0 \in 0..StepCount
  BY Sizes DEF AppendIntent, SameOwn
<1>2. Position(0)'
  BY <1>1, OwnKept DEF AppendIntent, DiskInv, PlaceTellsDisk
<1>3. leaf' # "Active"
  BY DEF AppendIntent, ControlInv, PlaceTellsJournal, PreIntentPc, InCandidate, AppendOk,
     AppendNotAppended, AppendMayHaveAppended, journalVars
<1>4. PlaceTellsDisk'
  BY <1>2 DEF AppendIntent, Return, Goto, PlaceTellsDisk
<1> QED BY <1>2, <1>3, <1>4 DEF FileTellsDisk

LEMMA PromoteCandidateDisk == ControlInv /\ DiskInv /\ PromoteCandidate => DiskInv'
<1> SUFFICES ASSUME ControlInv, DiskInv, PromoteCandidate, ~disturbed'
             PROVE  FileTellsDisk' /\ PlaceTellsDisk'
  BY DEF DiskInv
<1>1. SameOwn /\ ~disturbed /\ 0 \in 0..StepCount
  BY Sizes DEF PromoteCandidate, SameOwn
<1>2. Position(0)'
  BY <1>1, OwnKept DEF PromoteCandidate, DiskInv, PlaceTellsDisk
<1>3. journal' = IntentOnly
  BY DEF PromoteCandidate, PromoteOk, PromoteUncertain, ControlInv, PlaceTellsJournal
<1>4. 0 \in Readings(journal')
  BY <1>3, ShapeOfIntentOnly, ReadingsOfShape
<1>5. FileTellsDisk'
  BY <1>2, <1>4 DEF FileTellsDisk
<1>6. PlaceTellsDisk'
  BY NoPlace DEF PromoteCandidate, Return
<1> QED BY <1>5, <1>6

-----------------------------------------------------------------------------
(***************************************************************************)
(* An append in the loops: j is the number of steps in effect, and both    *)
(* the old and the new stream admit it.                                    *)
(***************************************************************************)
LEMMA LoopAppendDisk ==
  ASSUME NEW rec, AnyAppend(rec), InActive, UNCHANGED <<fs, disturbed>>,
         NEW j \in 0..StepCount, ~disturbed => Position(j),
         j \in Readings(journal), j \in Readings(ReplayStep(journal, rec)),
         \/ pc' \in QuietPc
         \/ pc' = "Rename" /\ j = at' - 1
         \/ pc' \in {"RbRename", "RvRename"} /\ j = at'
  PROVE  DiskInv'
<1> SUFFICES ASSUME ~disturbed' PROVE FileTellsDisk' /\ PlaceTellsDisk'
  BY DEF DiskInv
<1>1. FileTellsDisk' /\ Position(j)'
  BY AppendDisk
<1>2. CASE pc' \in QuietPc
  BY <1>1, <1>2, NoPlace DEF QuietPc
<1>3. CASE pc' = "Rename" /\ j = at' - 1
  BY <1>1, <1>3 DEF PlaceTellsDisk
<1>4. CASE pc' \in {"RbRename", "RvRename"} /\ j = at'
  BY <1>1, <1>4 DEF PlaceTellsDisk
<1> QED BY <1>2, <1>3, <1>4

\* Without a step in doubt the journal alone tells how many are in effect.
LEMMA KnownPosition ==
  ASSUME DiskInv, ~disturbed, leaf = "Active", NEW m, NEW r, Shape(journal, m, r),
         NothingPrepared(journal)
  PROVE  Position(r)
<1>1. Readings(journal) = {r}
  BY ReadingsOfShape
<1> QED BY <1>1 DEF DiskInv, FileTellsDisk

LEMMA PrepareForwardDisk == ControlInv /\ DiskInv /\ PrepareForward => DiskInv'
<1> SUFFICES ASSUME ControlInv, DiskInv, PrepareForward PROVE DiskInv'
  OBVIOUS
<1>1. /\ InActive /\ at \in 1..StepCount /\ ~journal.rollback_started
      /\ Shape(journal, at - 1, at - 1) /\ InProgress(journal) /\ NothingPrepared(journal)
  BY Sizes DEF PrepareForward, ControlInv, PlaceTellsJournal, Doubt, InProgress, NothingPrepared
<1>2. PICK j : j = at - 1
  OBVIOUS
<1>3. j \in 0..(StepCount - 1) /\ j \in 0..StepCount /\ j + 1 = at
  BY <1>1, <1>2, Sizes
<1> DEFINE next == ReplayStep(journal, Prepared(j + 1, "Forward"))
<1>4. Shape(next, j, j)
  BY <1>1, <1>2, <1>3, ReplayPreparedForward
<1>5. j \in Readings(journal) /\ j \in Readings(next)
  BY <1>1, <1>2, <1>4, ReadingsOfShape
<1>6. ~disturbed => Position(j)
  BY <1>1, <1>2, KnownPosition DEF InActive
<1>7. AnyAppend(Prepared(j + 1, "Forward")) /\ UNCHANGED <<fs, disturbed>>
  BY <1>3 DEF PrepareForward, AnyAppend
<1>8. pc' \in QuietPc \/ (pc' = "Rename" /\ j = at' - 1)
  BY <1>2 DEF PrepareForward, Goto, StartRollback, Return, QuietPc
<1> QED BY <1>1, <1>3, <1>5, <1>6, <1>7, <1>8, LoopAppendDisk

LEMMA RecordNotAppliedDisk == ControlInv /\ DiskInv /\ RecordNotApplied => DiskInv'
<1> SUFFICES ASSUME ControlInv, DiskInv, RecordNotApplied PROVE DiskInv'
  OBVIOUS
<1>1. /\ InActive /\ at \in StepNumber
      /\ Shape(journal, at - 1, at - 1) /\ InProgress(journal)
      /\ journal.forward_prepared = at
  BY DEF RecordNotApplied, ControlInv, PlaceTellsJournal, ForwardInDoubtPc, Doubt, InProgress
<1>2. PICK j : j = at - 1
  OBVIOUS
<1>3. j \in 0..(StepCount - 1) /\ j \in 0..StepCount /\ j + 1 = at
  BY <1>1, <1>2, Sizes DEF StepNumber
<1> DEFINE next == ReplayStep(journal, NotApplied(j + 1, "Forward"))
<1>4. Shape(next, j, j)
  BY <1>1, <1>2, <1>3, ReplayNotAppliedForward
<1>5. j \in Readings(journal) /\ j \in Readings(next)
  BY <1>1, <1>2, <1>4, ReadingsOfShape
<1>6. ~disturbed => Position(j)
  BY <1>2 DEF RecordNotApplied, DiskInv, PlaceTellsDisk
<1>7. AnyAppend(NotApplied(j + 1, "Forward")) /\ UNCHANGED <<fs, disturbed>>
  BY <1>3 DEF RecordNotApplied, AnyAppend
<1>8. pc' \in QuietPc
  BY DEF RecordNotApplied, StartRollback, Return, QuietPc
<1> QED BY <1>1, <1>3, <1>5, <1>6, <1>7, <1>8, LoopAppendDisk

LEMMA RecordCompletedDisk == ControlInv /\ DiskInv /\ RecordCompleted => DiskInv'
<1> SUFFICES ASSUME ControlInv, DiskInv, RecordCompleted PROVE DiskInv'
  OBVIOUS
<1>1. /\ InActive /\ at \in StepNumber
      /\ Shape(journal, at - 1, at - 1) /\ InProgress(journal)
      /\ journal.forward_prepared = at /\ at # NoStep
  BY StepFacts
     DEF RecordCompleted, ControlInv, PlaceTellsJournal, ForwardInDoubtPc, Doubt, InProgress
<1>2. PICK j : j = at
  OBVIOUS
<1>3. j - 1 \in 0..(StepCount - 1) /\ j \in 0..StepCount /\ (j - 1) + 1 = j
  BY <1>1, <1>2, Sizes DEF StepNumber
<1> DEFINE next == ReplayStep(journal, Completed(j, "Forward"))
<1>4. Shape(next, j, j)
  BY <1>1, <1>2, <1>3, ReplayCompletedForward
<1>5. Readings(journal) = {j - 1, (j - 1) + 1}
  BY <1>1, <1>2, ReadingsOfShape
<1>6. j \in Readings(journal) /\ j \in Readings(next)
  BY <1>3, <1>4, <1>5, ReadingsOfShape
<1>7. ~disturbed => Position(j)
  BY <1>2 DEF RecordCompleted, DiskInv, PlaceTellsDisk
<1>8. AnyAppend(Completed(j, "Forward")) /\ UNCHANGED <<fs, disturbed>>
  BY <1>2 DEF RecordCompleted, AnyAppend
<1>9. pc' \in QuietPc
  BY DEF RecordCompleted, Return, QuietPc
<1> QED BY <1>1, <1>3, <1>6, <1>7, <1>8, <1>9, LoopAppendDisk

LEMMA CommitDisk == ControlInv /\ DiskInv /\ Commit => DiskInv'
<1> SUFFICES ASSUME ControlInv, DiskInv, Commit PROVE DiskInv'
  OBVIOUS
<1>1. /\ InActive /\ Shape(journal, StepCount, StepCount) /\ InProgress(journal)
      /\ NothingPrepared(journal) /\ StepCount \in 0..StepCount
  <2>1. at - 1 = StepCount
    BY Sizes DEF Commit
  <2> QED BY <2>1, Sizes
          DEF Commit, ControlInv, PlaceTellsJournal, Doubt, InProgress, NothingPrepared
<1> DEFINE next == ReplayStep(journal, Terminal("Committed"))
<1>2. Shape(next, StepCount, StepCount)
  BY <1>1, ReplayCommitted
<1>3. StepCount \in Readings(journal) /\ StepCount \in Readings(next)
  BY <1>1, <1>2, ReadingsOfShape
<1>4. ~disturbed => Position(StepCount)
  BY <1>1, KnownPosition DEF InActive
<1>5. AnyAppend(Terminal("Committed")) /\ UNCHANGED <<fs, disturbed>> /\ pc' \in QuietPc
  BY DEF Commit, AnyAppend, Return, QuietPc
<1> QED BY <1>1, <1>3, <1>4, <1>5, LoopAppendDisk

LEMMA PrepareRollbackDisk == ControlInv /\ DiskInv /\ PrepareRollback => DiskInv'
<1> SUFFICES ASSUME ControlInv, DiskInv, PrepareRollback PROVE DiskInv'
  OBVIOUS
<1>1. /\ InActive /\ at \in StepNumber /\ Applied(at)
      /\ InProgress(journal) /\ NothingPrepared(journal)
  BY Sizes DEF PrepareRollback, ControlInv, PlaceTellsJournal, Doubt, InProgress,
     NothingPrepared, StepNumber
<1>2. PICK j : j = at
  OBVIOUS
<1>3. PICK m \in 0..StepCount : Shape(journal, m, j)
  BY <1>1, <1>2 DEF Applied
<1> DEFINE next == ReplayStep(journal, Prepared(j, "Rollback"))
<1>4. Shape(next, m, j)
  BY <1>1, <1>2, <1>3, ReplayPreparedRollback
<1>5. j \in 0..StepCount /\ j \in Readings(journal) /\ j \in Readings(next)
  BY <1>3, <1>4, ReadingsOfShape
<1>6. ~disturbed => Position(j)
  BY <1>1, <1>3, KnownPosition DEF InActive
<1>7. AnyAppend(Prepared(j, "Rollback")) /\ UNCHANGED <<fs, disturbed>>
  BY <1>2 DEF PrepareRollback, AnyAppend
<1>8. pc' \in QuietPc \/ (pc' = "RbRename" /\ j = at')
  BY <1>2 DEF PrepareRollback, Goto, Return, QuietPc
<1> QED BY <1>1, <1>5, <1>6, <1>7, <1>8, LoopAppendDisk

LEMMA RollbackNotAppliedDisk ==
  ControlInv /\ DiskInv /\ (RecordRollbackNotApplied \/ RecordReverseNotApplied) => DiskInv'
<1> SUFFICES ASSUME ControlInv, DiskInv, RecordRollbackNotApplied \/ RecordReverseNotApplied
             PROVE  DiskInv'
  OBVIOUS
<1>1. /\ InActive /\ at \in StepNumber /\ Applied(at)
      /\ InProgress(journal) /\ journal.rollback_prepared = at
  BY DEF RecordRollbackNotApplied, RecordReverseNotApplied, ControlInv, PlaceTellsJournal,
     Doubt, InProgress, RollbackInDoubtPc, ReverseInDoubtPc
<1>2. PICK j : j = at
  OBVIOUS
<1>3. PICK m \in 0..StepCount : Shape(journal, m, j)
  BY <1>1, <1>2 DEF Applied
<1> DEFINE next == ReplayStep(journal, NotApplied(j, "Rollback"))
<1>4. Shape(next, m, j)
  BY <1>1, <1>2, <1>3, ReplayNotAppliedRollback
<1>5. j \in 0..StepCount /\ j \in Readings(journal) /\ j \in Readings(next)
  BY <1>3, <1>4, ReadingsOfShape
<1>6. ~disturbed => Position(j)
  BY <1>2 DEF RecordRollbackNotApplied, RecordReverseNotApplied, DiskInv, PlaceTellsDisk
<1>7. AnyAppend(NotApplied(j, "Rollback")) /\ UNCHANGED <<fs, disturbed>>
  BY <1>2 DEF RecordRollbackNotApplied, RecordReverseNotApplied, AnyAppend
<1>8. pc' \in QuietPc
  BY DEF RecordRollbackNotApplied, RecordReverseNotApplied, Finish, Return, QuietPc
<1> QED BY <1>1, <1>5, <1>6, <1>7, <1>8, LoopAppendDisk

LEMMA RollbackCompletedDisk ==
  ControlInv /\ DiskInv /\ (RecordRollbackCompleted \/ RecordReverseCompleted) => DiskInv'
<1> SUFFICES ASSUME ControlInv, DiskInv, RecordRollbackCompleted \/ RecordReverseCompleted
             PROVE  DiskInv'
  OBVIOUS
<1>1. /\ InActive /\ at \in StepNumber /\ Applied(at)
      /\ InProgress(journal) /\ journal.rollback_prepared = at /\ at # NoStep
  BY StepFacts
     DEF RecordRollbackCompleted, RecordReverseCompleted, ControlInv, PlaceTellsJournal,
         Doubt, InProgress, RollbackInDoubtPc, ReverseInDoubtPc
<1>2. PICK i : i = at
  OBVIOUS
<1>3. PICK m \in 0..StepCount : Shape(journal, m, i)
  BY <1>1, <1>2 DEF Applied
<1> DEFINE next == ReplayStep(journal, Completed(i, "Rollback"))
<1>4. Shape(next, m, i - 1)
  BY <1>1, <1>2, <1>3, ReplayCompletedRollback
<1>5. Readings(journal) = {i, i - 1}
  BY <1>1, <1>2, <1>3, ReadingsOfShape
<1>6. i - 1 \in 0..StepCount /\ i - 1 \in Readings(journal) /\ i - 1 \in Readings(next)
  BY <1>4, <1>5, ReadingsOfShape
<1>7. ~disturbed => Position(i - 1)
  BY <1>2 DEF RecordRollbackCompleted, RecordReverseCompleted, DiskInv, PlaceTellsDisk
<1>8. AnyAppend(Completed(i, "Rollback")) /\ UNCHANGED <<fs, disturbed>>
  BY <1>2 DEF RecordRollbackCompleted, RecordReverseCompleted, AnyAppend
<1>9. pc' \in QuietPc
  BY DEF RecordRollbackCompleted, RecordReverseCompleted, Finish, Goto, Return, QuietPc
<1> QED BY <1>1, <1>6, <1>7, <1>8, <1>9, LoopAppendDisk

\* The place and the journal agree that nothing is left to reverse.
LEMMA FinishRollbackDisk ==
  ControlInv /\ DiskInv /\ (FinishRollback \/ FinishRecovery) => DiskInv'
<1> SUFFICES ASSUME ControlInv, DiskInv, FinishRollback \/ FinishRecovery PROVE DiskInv'
  OBVIOUS
<1>1. InActive /\ InProgress(journal) /\ NothingPrepared(journal)
  BY DEF FinishRollback, FinishRecovery, ControlInv, PlaceTellsJournal, Doubt, InProgress,
     NothingPrepared
<1>2. PICK m \in 0..StepCount : Shape(journal, m, 0)
  <2>1. CASE FinishRollback
    BY <2>1 DEF FinishRollback, ControlInv, PlaceTellsJournal, Applied
  <2>2. CASE FinishRecovery
    <3>1. PICK m, r \in 0..StepCount : Shape(journal, m, r)
      BY DEF ControlInv, Shaped
    <3>2. 1..r = {}
      BY <2>2, <3>1, RemainingOfShape DEF FinishRecovery
    <3>3. r = 0
      BY <3>1, <3>2, Sizes
    <3> QED BY <3>1, <3>3
  <2> QED BY <2>1, <2>2
<1> DEFINE next == ReplayStep(journal, Terminal("RolledBack"))
<1>3. Shape(next, m, 0)
  BY <1>1, <1>2, ReplayRolledBack
<1>4. 0 \in 0..StepCount /\ 0 \in Readings(journal) /\ 0 \in Readings(next)
  BY <1>2, <1>3, ReadingsOfShape
<1>5. ~disturbed => Position(0)
  BY <1>1, <1>2, KnownPosition DEF InActive
<1>6. AnyAppend(Terminal("RolledBack")) /\ UNCHANGED <<fs, disturbed>> /\ pc' \in QuietPc
  BY DEF FinishRollback, FinishRecovery, AnyAppend, Finish, Return, QuietPc
<1> QED BY <1>1, <1>4, <1>5, <1>6, LoopAppendDisk

(***************************************************************************)
(* The three moves.  An uncertain one leaves both readings open.           *)
(***************************************************************************)
LEMMA RenameForwardDisk == ControlInv /\ DiskInv /\ RenameForward => DiskInv'
<1> SUFFICES ASSUME ControlInv, DiskInv, RenameForward, ~disturbed'
             PROVE  FileTellsDisk' /\ PlaceTellsDisk'
  BY DEF DiskInv
<1>1. /\ InActive /\ at \in StepNumber /\ at # NoStep
      /\ Shape(journal, at - 1, at - 1) /\ journal.forward_prepared = at
  BY StepFacts DEF RenameForward, ControlInv, PlaceTellsJournal, ForwardInDoubtPc, Doubt
<1>2. PICK i \in StepNumber : i = at
  BY <1>1
<1>3. /\ i \in Nat /\ i - 1 \in 0..StepCount /\ i \in 0..StepCount /\ (i - 1) + 1 = i
      /\ FsTypeOK
  BY StepFacts DEF ControlInv, TypeOK
<1>4. ~disturbed /\ UNCHANGED <<leaf, journal>> /\ at' = at
  BY DEF RenameForward, RenameOk, RenameNotApplied, RenameMayHaveApplied, journalVars, Goto,
     Return
<1>5. Readings(journal') = {i - 1, i} /\ leaf' = "Active"
  BY <1>1, <1>2, <1>3, <1>4, ReadingsOfShape DEF InActive
<1>6. Position(i - 1)
  BY <1>2, <1>4 DEF RenameForward, DiskInv, PlaceTellsDisk
<1>7. CASE fs' = fs
  <2>1. Position(i - 1)'
    BY <1>3, <1>6, <1>7, OwnKept DEF SameOwn
  <2>2. pc' \in {"NotApplied", "Report"} \/ (pc' = "Complete" /\ fs' = ApplyStep(fs, Steps[i]))
    BY <1>2 DEF RenameForward, RenameOk, Goto, Return
  <2>3. CASE pc' \in {"NotApplied", "Report"}
    BY <1>2, <1>4, <1>5, <2>1, <2>3 DEF FileTellsDisk, PlaceTellsDisk
  <2>4. CASE pc' = "Complete" /\ fs' = ApplyStep(fs, Steps[i])
    <3>1. Position(i)'
      BY <1>3, <1>6, <2>4, MovedForward
    <3> QED BY <1>2, <1>4, <1>5, <2>4, <3>1 DEF FileTellsDisk, PlaceTellsDisk
  <2> QED BY <2>2, <2>3, <2>4
<1>8. CASE fs' = ApplyStep(fs, Steps[i]) /\ pc' \in {"Complete", "Report"}
  <2>1. Position(i)'
    BY <1>3, <1>6, <1>8, MovedForward
  <2> QED BY <1>2, <1>4, <1>5, <1>8, <2>1 DEF FileTellsDisk, PlaceTellsDisk
<1> QED
  BY <1>2, <1>7, <1>8 DEF RenameForward, RenameOk, RenameNotApplied, RenameMayHaveApplied,
     Goto, Return

LEMMA RenameBackDisk ==
  ControlInv /\ DiskInv /\ (RenameRollback \/ RenameReverse) => DiskInv'
<1> SUFFICES ASSUME ControlInv, DiskInv, RenameRollback \/ RenameReverse, ~disturbed'
             PROVE  FileTellsDisk' /\ PlaceTellsDisk'
  BY DEF DiskInv
<1>1. /\ InActive /\ at \in StepNumber /\ at # NoStep
      /\ Applied(at) /\ journal.rollback_prepared = at
  BY StepFacts DEF RenameRollback, RenameReverse, ControlInv, PlaceTellsJournal,
     RollbackInDoubtPc, ReverseInDoubtPc, Doubt
<1>2. PICK i \in StepNumber : i = at
  BY <1>1
<1>3. i - 1 \in 0..StepCount /\ i \in 0..StepCount /\ FsTypeOK
  BY StepFacts DEF ControlInv, TypeOK
<1>4. ~disturbed /\ UNCHANGED <<leaf, journal>> /\ at' = at
  BY DEF RenameRollback, RenameReverse, RenameOk, RenameNotApplied, RenameMayHaveApplied,
     journalVars, Goto, Return, Finish
<1>5. Readings(journal') = {i, i - 1} /\ leaf' = "Active"
  BY <1>1, <1>2, <1>4, ReadingsOfShape DEF InActive, Applied
<1>6. Position(i)
  BY <1>2, <1>4 DEF RenameRollback, RenameReverse, DiskInv, PlaceTellsDisk
<1>7. \/ fs' = fs /\ pc' \in {"RbNotApplied", "RvNotApplied", "Report", "Locked"}
      \/ /\ fs' = ApplyStep(fs, Reverse(Steps[i]))
         /\ pc' \in {"RbComplete", "RvComplete", "Report", "Locked"}
  BY <1>2 DEF RenameRollback, RenameReverse, RenameOk, RenameNotApplied, RenameMayHaveApplied,
     Goto, Return, Finish
<1>8. CASE fs' = fs /\ pc' \in {"RbNotApplied", "RvNotApplied", "Report", "Locked"}
  <2>1. Position(i)'
    BY <1>3, <1>6, <1>8, OwnKept DEF SameOwn
  <2> QED BY <1>2, <1>4, <1>5, <1>8, <2>1 DEF FileTellsDisk, PlaceTellsDisk
<1>9. CASE /\ fs' = ApplyStep(fs, Reverse(Steps[i]))
           /\ pc' \in {"RbComplete", "RvComplete", "Report", "Locked"}
  <2>1. Position(i - 1)'
    BY <1>3, <1>6, <1>9, MovedBack
  <2> QED BY <1>2, <1>4, <1>5, <1>9, <2>1 DEF FileTellsDisk, PlaceTellsDisk
<1> QED BY <1>7, <1>8, <1>9

(***************************************************************************)
(* Recovery: what it observes decides which reading it records.            *)
(***************************************************************************)
\* The two occupancies that recovery compares with the directories.
LEMMA ObservedReadings ==
  ASSUME NEW m, NEW r, Shape(journal, m, r)
  PROVE  /\ ExpectedOccupancy = Occ[r]
         /\ journal.forward_prepared # NoStep => AppliedOccupancy = Occ[r + 1]
         /\ journal.rollback_prepared # NoStep => AppliedOccupancy = Occ[r - 1]
<1>1. ExpectedOccupancy = Occ[r] /\ r \in 0..StepCount
  BY RemainingOfShape, ShapedOf DEF ExpectedOccupancy
<1>2. ASSUME journal.forward_prepared # NoStep PROVE AppliedOccupancy = Occ[r + 1]
  <2>1. journal.forward_prepared = r + 1 /\ r + 1 \in StepNumber
    BY <1>2 DEF Shape, ReplayState
  <2>2. (r + 1) - 1 = r
    BY <1>1
  <2> QED BY <1>1, <1>2, <2>1, <2>2, StepFacts DEF AppliedOccupancy, DoubtfulStep
<1>3. ASSUME journal.rollback_prepared # NoStep PROVE AppliedOccupancy = Occ[r - 1]
  <2>1. /\ journal.rollback_prepared = r /\ r \in StepNumber
        /\ journal.forward_prepared = NoStep
    BY <1>3 DEF Shape, ReplayState
  <2> QED BY <1>1, <2>1, ReverseUndoes DEF AppliedOccupancy, DoubtfulStep
<1> QED BY <1>1, <1>2, <1>3

LEMMA ReconcileDisk == ControlInv /\ DiskInv /\ Reconcile => DiskInv'
<1> SUFFICES ASSUME ControlInv, DiskInv, Reconcile PROVE DiskInv'
  OBVIOUS
<1>1. /\ InActive /\ journal.intent /\ ~Clean(journal) /\ Unambiguous
      /\ UNCHANGED <<fs, disturbed>> /\ pc' \in QuietPc
  BY DEF Reconcile, ControlInv, PlaceTellsJournal, NameTellsContent, InActive, Goto, Finish,
     QuietPc
<1>2. PICK m, r \in 0..StepCount : Shape(journal, m, r)
  BY DEF ControlInv, Shaped
<1>3. InProgress(journal) /\ StepCount \in Nat
  BY <1>1, <1>2, Sizes DEF Clean, InProgress, Shape
<1>4. CASE NothingPrepared(journal)
  BY <1>1, <1>4, QuietDisk DEF Reconcile, journalVars
<1>5. CASE journal.forward_prepared # NoStep
  <2>1. /\ journal.forward_prepared = r + 1 /\ r + 1 \in StepNumber
        /\ m = r /\ r \in 0..(StepCount - 1) /\ r + 1 \in 0..StepCount
        /\ (r + 1) - 1 = r
    BY <1>2, <1>3, <1>5 DEF Shape, ReplayState, StepNumber
  <2>2. Readings(journal) = {r, r + 1}
    BY <1>2, <1>5, ReadingsOfShape
  <2>3. CASE fs = AppliedOccupancy
    <3>1. Settled(TRUE) = Completed(r + 1, "Forward")
      BY <1>5, <2>1 DEF Settled
    <3>2. Shape(ReplayStep(journal, Completed(r + 1, "Forward")), r + 1, r + 1)
      BY <1>2, <1>3, <2>1, ReplayCompletedForward
    <3>3. Position(r + 1)
      BY <1>2, <1>5, <2>1, <2>3, ObservedReadings, ExactPosition
    <3>4. AnyAppend(Completed(r + 1, "Forward"))
      BY <1>5, <2>3, <3>1 DEF Reconcile, NothingPrepared, AnyAppend
    <3>5. r + 1 \in Readings(ReplayStep(journal, Completed(r + 1, "Forward")))
      BY <3>2, ReadingsOfShape
    <3> QED BY <1>1, <2>1, <2>2, <3>3, <3>4, <3>5, LoopAppendDisk
  <2>4. CASE fs # AppliedOccupancy
    <3>1. Settled(FALSE) = NotApplied(r + 1, "Forward")
      BY <1>5, <2>1 DEF Settled
    <3>2. Shape(ReplayStep(journal, NotApplied(r + 1, "Forward")), r, r)
      BY <1>2, <1>3, <2>1, ReplayNotAppliedForward
    <3>3. Position(r)
      <4>1. fs = ExpectedOccupancy
        BY <1>1, <1>5, <2>4 DEF Unambiguous, NothingPrepared
      <4> QED BY <1>2, <4>1, ObservedReadings, ExactPosition
    <3>4. AnyAppend(NotApplied(r + 1, "Forward"))
      BY <1>5, <2>4, <3>1 DEF Reconcile, NothingPrepared, AnyAppend
    <3>5. r \in Readings(ReplayStep(journal, NotApplied(r + 1, "Forward")))
      BY <3>2, ReadingsOfShape
    <3> QED BY <1>1, <1>2, <2>2, <3>3, <3>4, <3>5, LoopAppendDisk
  <2> QED BY <2>3, <2>4
<1>6. CASE journal.rollback_prepared # NoStep
  <2>1. /\ journal.rollback_prepared = r /\ r \in StepNumber
        /\ journal.forward_prepared = NoStep /\ r - 1 \in 0..StepCount
    BY <1>2, <1>3, <1>6, StepFacts DEF Shape, ReplayState
  <2>2. Readings(journal) = {r, r - 1}
    BY <1>2, <1>6, ReadingsOfShape
  <2>3. CASE fs = AppliedOccupancy
    <3>1. Settled(TRUE) = Completed(r, "Rollback")
      BY <2>1 DEF Settled
    <3>2. Shape(ReplayStep(journal, Completed(r, "Rollback")), m, r - 1)
      BY <1>2, <1>3, <2>1, ReplayCompletedRollback
    <3>3. Position(r - 1)
      BY <1>2, <1>6, <2>1, <2>3, ObservedReadings, ExactPosition
    <3>4. AnyAppend(Completed(r, "Rollback"))
      BY <1>6, <2>3, <3>1 DEF Reconcile, NothingPrepared, AnyAppend
    <3>5. r - 1 \in Readings(ReplayStep(journal, Completed(r, "Rollback")))
      BY <3>2, ReadingsOfShape
    <3> QED BY <1>1, <2>1, <2>2, <3>3, <3>4, <3>5, LoopAppendDisk
  <2>4. CASE fs # AppliedOccupancy
    <3>1. Settled(FALSE) = NotApplied(r, "Rollback")
      BY <2>1 DEF Settled
    <3>2. Shape(ReplayStep(journal, NotApplied(r, "Rollback")), m, r)
      BY <1>2, <1>3, <2>1, ReplayNotAppliedRollback
    <3>3. Position(r)
      <4>1. fs = ExpectedOccupancy
        BY <1>1, <1>6, <2>4 DEF Unambiguous, NothingPrepared
      <4> QED BY <1>2, <4>1, ObservedReadings, ExactPosition
    <3>4. AnyAppend(NotApplied(r, "Rollback"))
      BY <1>6, <2>4, <3>1 DEF Reconcile, NothingPrepared, AnyAppend
    <3>5. r \in Readings(ReplayStep(journal, NotApplied(r, "Rollback")))
      BY <3>2, ReadingsOfShape
    <3> QED BY <1>1, <1>2, <2>2, <3>3, <3>4, <3>5, LoopAppendDisk
  <2> QED BY <2>3, <2>4
<1> QED BY <1>4, <1>5, <1>6 DEF NothingPrepared

LEMMA PrepareReverseDisk == ControlInv /\ DiskInv /\ PrepareReverse => DiskInv'
<1> SUFFICES ASSUME ControlInv, DiskInv, PrepareReverse PROVE DiskInv'
  OBVIOUS
<1>1. InActive /\ InProgress(journal) /\ NothingPrepared(journal)
  BY DEF PrepareReverse, ControlInv, PlaceTellsJournal, Doubt, InProgress, NothingPrepared
<1>2. PICK m, r \in 0..StepCount : Shape(journal, m, r)
  BY DEF ControlInv, Shaped
<1>3. LastRemaining(journal) = r /\ r \in StepNumber
  <2>1. Remaining(journal) = 1..r /\ LastRemaining(journal) = r
    BY <1>2, RemainingOfShape
  <2> QED BY <1>2, <2>1, Sizes DEF PrepareReverse, StepNumber
<1>4. Shape(ReplayStep(journal, Prepared(r, "Rollback")), m, r)
  BY <1>1, <1>2, <1>3, ReplayPreparedRollback
<1>5. r \in Readings(journal) /\ r \in Readings(ReplayStep(journal, Prepared(r, "Rollback")))
  BY <1>2, <1>4, ReadingsOfShape
<1>6. ~disturbed => Position(r)
  BY <1>1, <1>2, KnownPosition DEF InActive
<1>7. AnyAppend(Prepared(r, "Rollback")) /\ UNCHANGED <<fs, disturbed>>
  BY <1>3 DEF PrepareReverse, AnyAppend
<1>8. pc' \in QuietPc \/ (pc' = "RvRename" /\ r = at')
  BY <1>3 DEF PrepareReverse, Finish, QuietPc
<1> QED BY <1>1, <1>2, <1>5, <1>6, <1>7, <1>8, LoopAppendDisk

(***************************************************************************)
(* The remaining steps leave the file and the directories alone.           *)
(***************************************************************************)
LEMMA RestDisk ==
  ControlInv /\ DiskInv /\ (\/ CancelForward \/ RecoveryNotRequired \/ RecoveryBlocked
                            \/ ConfirmRecovery \/ DeclineRecovery \/ Exit \/ Crash)
    => DiskInv'
<1> SUFFICES ASSUME ControlInv, DiskInv,
                    \/ CancelForward \/ RecoveryNotRequired \/ RecoveryBlocked
                    \/ ConfirmRecovery \/ DeclineRecovery \/ Exit \/ Crash
             PROVE  DiskInv'
  OBVIOUS
<1>1. UNCHANGED <<fs, disturbed, leaf, journal>>
  BY DEF CancelForward, RecoveryNotRequired, RecoveryBlocked, ConfirmRecovery, DeclineRecovery,
     Exit, Crash, ProcessGone, CloseHandle, fsVars, journalVars
<1>2. pc' \in QuietPc
  BY DEF CancelForward, RecoveryNotRequired, RecoveryBlocked, ConfirmRecovery, DeclineRecovery,
     Exit, Crash, ProcessGone, StartRollback, Finish, Goto, QuietPc
<1> QED BY <1>1, <1>2, QuietDisk

LEMMA StutterDisk == ControlInv /\ DiskInv /\ UNCHANGED vars => DiskInv'
<1> SUFFICES ASSUME ControlInv, DiskInv, UNCHANGED vars PROVE DiskInv'
  OBVIOUS
<1>1. SameOwn /\ leaf' = leaf /\ journal' = journal /\ pc' = pc /\ at' = at
      /\ disturbed' = disturbed
  BY DEF SameOwn, vars, fsVars, journalVars, execVars
<1> QED BY <1>1, FileKept, PlaceKept DEF DiskInv

LEMMA NextDisk == ControlInv /\ DiskInv /\ [Next]_vars => DiskInv'
<1> SUFFICES ASSUME ControlInv, DiskInv, [Next]_vars PROVE DiskInv'
  OBVIOUS
<1>1. CASE Startup
  BY <1>1, StartupDisk
<1>2. CASE User
  <2>1. StartApply \/ RequestCancel => UNCHANGED <<fs, disturbed, leaf, journal>>
    BY DEF StartApply, RequestCancel, fsVars, journalVars
  <2> QED BY <1>2, <2>1, UserDisk, RestDisk, CleanupDisk DEF User
<1>3. CASE ExecutorStep
  BY <1>3, CreateJournalDisk, FreezeRowDisk, FreezeTemporariesDisk, BeginTransactionDisk,
     AppendIntentDisk, PromoteCandidateDisk, RestDisk, PrepareForwardDisk, RenameForwardDisk,
     RecordNotAppliedDisk, RecordCompletedDisk, CommitDisk, PrepareRollbackDisk, RenameBackDisk,
     RollbackNotAppliedDisk, RollbackCompletedDisk, FinishRollbackDisk, CleanupDisk
     DEF ExecutorStep
<1>4. CASE RecoveryStep
  BY <1>4, RestDisk, ReconcileDisk, PrepareReverseDisk, RenameBackDisk, RollbackNotAppliedDisk,
     RollbackCompletedDisk, FinishRollbackDisk, CleanupDisk DEF RecoveryStep
<1>5. CASE Crash
  BY <1>5, RestDisk
<1>6. CASE Environment
  BY <1>6, EnvironmentDisk
<1>7. CASE UNCHANGED vars
  BY <1>7, StutterDisk
<1> QED BY <1>1, <1>2, <1>3, <1>4, <1>5, <1>6, <1>7 DEF Next

LEMMA InitDisk == Init => DiskInv
<1> SUFFICES ASSUME Init PROVE DiskInv
  OBVIOUS
<1>1. fs = Occ[0] /\ 0 \in 0..StepCount
  BY Sizes DEF Init, FsInit
<1>2. Position(0)
  BY <1>1, ExactPosition
<1> QED BY <1>2 DEF Init, JournalInit, ExecInit, DiskInv, FileTellsDisk, PlaceTellsDisk

(***************************************************************************)
(* DiskInv holds in every reachable state: as long as other processes      *)
(* leave the plan's entries alone, the journal's name and content and the  *)
(* program's place say how many steps are in effect.                       *)
(***************************************************************************)
THEOREM DiskCorrect == Spec => []DiskInv
<1>1. Init => DiskInv
  BY InitDisk
<1>2. ControlInv /\ DiskInv /\ [Next]_vars => DiskInv'
  BY NextDisk
<1> QED BY <1>1, <1>2, ControlCorrect, PTL DEF Spec

LEMMA DiskTracked == ControlInv /\ DiskInv => JournalTracksFiles
<1> SUFFICES ASSUME ControlInv, DiskInv, ~disturbed, leaf = "Active"
             PROVE  \/ OwnEntriesAt(ExpectedOccupancy)
                    \/ ~NothingPrepared(journal) /\ OwnEntriesAt(AppliedOccupancy)
  BY DEF JournalTracksFiles
<1>1. PICK m, r \in 0..StepCount : Shape(journal, m, r)
  BY DEF ControlInv, Shaped
<1>2. PICK j \in Readings(journal) : OwnEntriesAt(Occ[j])
  BY DEF DiskInv, FileTellsDisk, Position
<1>3. CASE NothingPrepared(journal)
  BY <1>1, <1>2, <1>3, ReadingsOfShape, ObservedReadings
<1>4. CASE journal.forward_prepared # NoStep
  BY <1>1, <1>2, <1>4, ReadingsOfShape, ObservedReadings DEF NothingPrepared
<1>5. CASE journal.rollback_prepared # NoStep
  BY <1>1, <1>2, <1>5, ReadingsOfShape, ObservedReadings DEF NothingPrepared
<1> QED BY <1>3, <1>4, <1>5 DEF NothingPrepared

(***************************************************************************)
(* Recovery can rely on the journal, for plans of every size and after any *)
(* crashes: the files are where transition_state's first reading says, or  *)
(* where its second reading of the one step in doubt says.                 *)
(***************************************************************************)
THEOREM JournalTracks == Spec => []JournalTracksFiles
BY DiskTracked, ControlCorrect, DiskCorrect, PTL

-----------------------------------------------------------------------------
(***************************************************************************)
(* Names are neither lost nor doubled.                                     *)
(***************************************************************************)
LEMMA MoveKeepsNames ==
  ASSUME NEW occ \in [Keys -> Occupant], NEW s,
         s.source \in Keys, s.destination \in Keys, s.source # s.destination,
         s.identity \in Identities, Movable(occ, s), NEW i \in Identities
  PROVE  Cardinality(NamesOf(ApplyStep(occ, s), i)) = Cardinality(NamesOf(occ, i))
<1> DEFINE before == NamesOf(occ, i)
           after == NamesOf(ApplyStep(occ, s), i)
<1>1. IsFiniteSet(before)
  <2>1. before \subseteq Keys
    BY DEF NamesOf
  <2> QED BY <2>1, KeysAssumption, FS_Subset
<1>2. i # None /\ s.identity # None
  BY NamesAssumption
<1>3. CASE i # s.identity
  <2>1. after = before
    BY <1>2, <1>3 DEF NamesOf, ApplyStep, Movable
  <2> QED BY <2>1
<1>4. CASE i = s.identity
  <2>1. s.source \in before /\ s.destination \notin before
    BY <1>2, <1>4 DEF NamesOf, Movable
  <2>2. after = (before \ {s.source}) \cup {s.destination}
    BY <1>2, <1>4 DEF NamesOf, ApplyStep, Movable
  <2>3. /\ IsFiniteSet(before \ {s.source})
        /\ Cardinality(before \ {s.source}) = Cardinality(before) - 1
    BY <1>1, <2>1, FS_RemoveElement
  <2>4. Cardinality(after) = Cardinality(before \ {s.source}) + 1
    BY <2>1, <2>2, <2>3, FS_AddElement
  <2>5. Cardinality(before) \in Nat
    BY <1>1, FS_CardinalityType
  <2> QED BY <2>3, <2>4, <2>5
<1> QED BY <1>3, <1>4

LEMMA SameOwnKeepsNames ==
  ASSUME SameOwn, NEW i \in Identities
  PROVE  NamesOf(fs', i) = NamesOf(fs, i)
BY DEF SameOwn, NamesOf

\* A rename of the program moves one name of the file, or none.
LEMMA RenamesKeepNames ==
  ASSUME ControlInv, RenameForward \/ RenameRollback \/ RenameReverse, NEW i \in Identities
  PROVE  Cardinality(NamesOf(fs', i)) = Cardinality(NamesOf(fs, i))
<1>1. at \in StepNumber /\ fs \in [Keys -> Occupant]
  BY DEF RenameForward, RenameRollback, RenameReverse, ControlInv, PlaceTellsJournal,
     ForwardInDoubtPc, RollbackInDoubtPc, ReverseInDoubtPc, TypeOK, FsTypeOK
<1>2. \/ fs' = fs
      \/ Movable(fs, Steps[at]) /\ fs' = ApplyStep(fs, Steps[at])
      \/ Movable(fs, Reverse(Steps[at])) /\ fs' = ApplyStep(fs, Reverse(Steps[at]))
  BY DEF RenameForward, RenameRollback, RenameReverse, RenameOk, RenameNotApplied,
     RenameMayHaveApplied
<1>3. CASE fs' = fs
  BY <1>3
<1>4. CASE Movable(fs, Steps[at]) /\ fs' = ApplyStep(fs, Steps[at])
  BY <1>1, <1>4, StepFacts, MoveKeepsNames
<1>5. CASE Movable(fs, Reverse(Steps[at])) /\ fs' = ApplyStep(fs, Reverse(Steps[at]))
  <2> DEFINE s == Reverse(Steps[at])
  <2>1. /\ s.source \in Keys /\ s.destination \in Keys /\ s.source # s.destination
        /\ s.identity \in Identities
    BY <1>1, StepFacts DEF Reverse
  <2> HIDE DEF s
  <2> QED BY <1>1, <1>5, <2>1, MoveKeepsNames DEF s
<1> QED BY <1>2, <1>3, <1>4, <1>5

\* A step of the program that is not a rename leaves the directories alone.
LEMMA OnlyRenamesOrOthersMove ==
  ASSUME Next, fs' # fs
  PROVE  RenameForward \/ RenameRollback \/ RenameReverse \/ Environment
<1>1. CASE Startup \/ User \/ Crash
  BY <1>1 DEF Startup, User, StartApply, RequestCancel, ConfirmRecovery, DeclineRecovery,
     DiscardStagedIntent, Exit, Crash, execVars, fsVars
<1>2. CASE ExecutorStep
  BY <1>2 DEF ExecutorStep, CreateJournal, FreezeRow, FreezeTemporaries, BeginTransaction,
     AppendIntent, PromoteCandidate, CancelForward, PrepareForward, RecordNotApplied,
     RecordCompleted, Commit, PrepareRollback, RecordRollbackNotApplied,
     RecordRollbackCompleted, FinishRollback, HandleCompletedExecution, fsVars
<1>3. CASE RecoveryStep
  BY <1>3 DEF RecoveryStep, RecoveryNotRequired, RecoveryBlocked, Reconcile, PrepareReverse,
     RecordReverseNotApplied, RecordReverseCompleted, FinishRecovery, CleanupAfterRecovery,
     fsVars
<1> QED BY <1>1, <1>2, <1>3 DEF Next

\* Only other processes disturb the plan's entries, and that cannot be undone.
LEMMA DisturbedStays ==
  ASSUME TypeOK, Next
  PROVE  /\ disturbed => disturbed'
         /\ ~Environment => disturbed' = disturbed
<1>1. CASE Startup \/ User \/ Crash
  BY <1>1 DEF Startup, User, StartApply, RequestCancel, ConfirmRecovery, DeclineRecovery,
     DiscardStagedIntent, Exit, Crash, execVars, fsVars
<1>2. CASE ExecutorStep
  BY <1>2 DEF ExecutorStep, CreateJournal, FreezeRow, FreezeTemporaries, BeginTransaction,
     AppendIntent, PromoteCandidate, CancelForward, PrepareForward, RecordNotApplied,
     RecordCompleted, Commit, PrepareRollback, RecordRollbackNotApplied,
     RecordRollbackCompleted, FinishRollback, HandleCompletedExecution, RenameForward,
     RenameRollback, RenameOk, RenameNotApplied, RenameMayHaveApplied, fsVars
<1>3. CASE RecoveryStep
  BY <1>3 DEF RecoveryStep, RecoveryNotRequired, RecoveryBlocked, Reconcile, PrepareReverse,
     RecordReverseNotApplied, RecordReverseCompleted, FinishRecovery, CleanupAfterRecovery,
     RenameReverse, RenameOk, RenameNotApplied, RenameMayHaveApplied, fsVars
<1>4. CASE Environment
  <2>1. PICK k \in Keys, x \in Occupant : Interfere(k, x)
    BY <1>4 DEF Environment
  <2>2. disturbed => disturbed'
    BY <2>1, Zenon DEF Interfere
  <2> QED BY <1>4, <2>2
<1> QED BY <1>1, <1>2, <1>3, <1>4 DEF Next

LEMMA NextNames == ControlInv /\ NothingLost /\ [Next]_vars => NothingLost'
<1> SUFFICES ASSUME ControlInv, NothingLost, [Next]_vars, ~disturbed', NEW i \in Identities
             PROVE  Cardinality(NamesOf(fs', i)) = Cardinality(NamesOf(Occ[0], i))
  BY DEF NothingLost
<1>1. CASE UNCHANGED vars
  BY <1>1 DEF NothingLost, vars, fsVars
<1>2. CASE Next
  <2>1. Cardinality(NamesOf(fs, i)) = Cardinality(NamesOf(Occ[0], i))
    BY <1>2, DisturbedStays DEF NothingLost, ControlInv
  <2>2. CASE Environment
    BY <2>1, <2>2, EnvironmentSpares, SameOwnKeepsNames DEF ControlInv, TypeOK
  <2>3. CASE RenameForward \/ RenameRollback \/ RenameReverse
    BY <2>1, <2>3, RenamesKeepNames
  <2>4. CASE fs' = fs
    BY <2>1, <2>4
  <2> QED BY <1>2, <2>2, <2>3, <2>4, OnlyRenamesOrOthersMove
<1> QED BY <1>1, <1>2

(***************************************************************************)
(* No name of a file is lost and none is doubled, for plans of every size, *)
(* hard links included: rename_no_replace is the only step of the program  *)
(* that moves a name, forward, in rollback and in recovery, and it moves   *)
(* exactly one.                                                            *)
(***************************************************************************)
THEOREM NamesKept == Spec => []NothingLost
<1>1. Init => NothingLost
  BY DEF Init, FsInit, NothingLost
<1>2. ControlInv /\ NothingLost /\ [Next]_vars => NothingLost'
  BY NextNames
<1> QED BY <1>1, <1>2, ControlCorrect, PTL DEF Spec

-----------------------------------------------------------------------------
(***************************************************************************)
(* The report.  What forward_state and rollback_state write into it is     *)
(* what the steps in effect have done to the row.                          *)
(***************************************************************************)
LEMMA ProgressOfNone == \A e \in Entries : EntryProgress(0, e) = "Restored"
BY DEF EntryProgress

LEMMA ProgressForward ==
  ASSUME NEW i \in StepNumber, NEW e \in Entries
  PROVE  EntryProgress(i, e) =
           IF e = Steps[i].entry THEN forward_state(Steps[i].phase) ELSE EntryProgress(i - 1, e)
<1>1. i \in Nat /\ i >= 1 /\ i \in 1..StepCount
  BY StepFacts DEF StepNumber
<1>2. \A j : j \in 1..i <=> j \in 1..(i - 1) \/ j = i
  BY <1>1
<1>3. CASE e # Steps[i].entry
  BY <1>2, <1>3 DEF EntryProgress
<1>4. CASE e = Steps[i].entry /\ Steps[i].phase # "IntoTemporary"
  BY <1>2, <1>4 DEF EntryProgress, forward_state
<1>5. CASE e = Steps[i].entry /\ Steps[i].phase = "IntoTemporary"
  <2>1. \A j \in 1..(i - 1) : Steps[j].entry # e
    BY <1>1, <1>5, ProgressAssumption DEF ValidRows, PhasesPaired
  <2> QED BY <1>2, <1>5, <2>1 DEF EntryProgress, forward_state
<1> QED BY <1>3, <1>4, <1>5

LEMMA ProgressBack ==
  ASSUME NEW i \in StepNumber, NEW e \in Entries
  PROVE  EntryProgress(i - 1, e) =
           IF e = Steps[i].entry THEN rollback_state(Steps[i].phase) ELSE EntryProgress(i, e)
<1>1. i \in Nat /\ i >= 1 /\ i \in 1..StepCount
  BY StepFacts DEF StepNumber
<1>2. CASE e # Steps[i].entry
  BY <1>2, ProgressForward
<1>3. CASE e = Steps[i].entry /\ Steps[i].phase = "FromTemporary"
  <2>1. /\ \E j \in 1..(i - 1) : Steps[j].entry = e
        /\ \A j \in 1..(i - 1) : Steps[j].entry = e => Steps[j].phase = "IntoTemporary"
    BY <1>1, <1>3, ProgressAssumption DEF ValidRows, PhasesPaired
  <2> QED BY <1>3, <2>1 DEF EntryProgress, rollback_state
<1>4. CASE e = Steps[i].entry /\ Steps[i].phase # "FromTemporary"
  <2>1. \A j \in 1..(i - 1) : Steps[j].entry # e
    BY <1>1, <1>4, ProgressAssumption DEF ValidRows, PhasesPaired
  <2> QED BY <1>4, <2>1 DEF EntryProgress, rollback_state
<1> QED BY <1>2, <1>3, <1>4

\* Entry states that claim no more than n steps, with n steps in effect.
Cautious(s, n) == \A e \in Entries : s[e] \in {EntryProgress(n, e), "Indeterminate"}

LEMMA CautiousReport ==
  ASSUME ~disturbed' => \E n \in 0..StepCount : Position(n)' /\ Cautious(states', n),
         pc' = "Report",
         \/ outcome' = "RecoveryRequired"
         \/ outcome' = "Completed" /\ \A e \in Entries : states'[e] = "Applied"
         \/ outcome' = "RolledBack" /\ \A e \in Entries : states'[e] = "Restored"
  PROVE  StatesInv'
<1> SUFFICES ASSUME ~disturbed', NEW i \in 1..RowCount
             PROVE  /\ states'[Rows[i].entry] = "Applied" =>
                         fs'[Rows[i].destination] = Rows[i].identity
                    /\ states'[Rows[i].entry] = "Restored" =>
                         fs'[Rows[i].source] = Rows[i].identity
  BY DEF StatesInv, ReportTruthful
<1>1. PICK n \in 0..StepCount : Position(n)' /\ Cautious(states', n)
  OBVIOUS
<1>2. /\ Rows[i].entry \in Entries /\ Rows[i].source \in Keys /\ Rows[i].destination \in Keys
      /\ Rows[i].identity # None
  BY RowsAssumption, NamesAssumption DEF Row
<1>3. /\ EntryProgress(n, Rows[i].entry) = "Applied" =>
           Occ[n][Rows[i].destination] = Rows[i].identity
      /\ EntryProgress(n, Rows[i].entry) = "Restored" =>
           Occ[n][Rows[i].source] = Rows[i].identity
  BY ProgressAssumption DEF ValidRows
<1>4. /\ OwnEntryAt(Occ[n], Rows[i].source)' /\ OwnEntryAt(Occ[n], Rows[i].destination)'
  BY <1>1, <1>2 DEF Position, OwnEntriesAt
<1>5. states'[Rows[i].entry] \in {EntryProgress(n, Rows[i].entry), "Indeterminate"}
  BY <1>1, <1>2 DEF Cautious
<1> QED BY <1>2, <1>3, <1>4, <1>5 DEF OwnEntryAt

\* The same where the step leaves the directories alone.
LEMMA QuietReport ==
  ASSUME UNCHANGED <<fs, disturbed>>, NEW n \in 0..StepCount,
         ~disturbed => Position(n), Cautious(states', n), pc' = "Report",
         \/ outcome' = "RecoveryRequired"
         \/ outcome' = "Completed" /\ \A e \in Entries : states'[e] = "Applied"
         \/ outcome' = "RolledBack" /\ \A e \in Entries : states'[e] = "Restored"
  PROVE  StatesInv'
<1>1. ~disturbed => Position(n)'
  BY OwnKept DEF SameOwn
<1> QED BY <1>1, CautiousReport

LEMMA PositionOfPlace ==
  ASSUME ControlInv, DiskInv, ~disturbed
  PROVE  /\ pc = "Step" => Position(at - 1)
         /\ pc = "RbStep" => Position(at)
<1>1. CASE pc = "Step"
  <2>1. leaf = "Active" /\ Shape(journal, at - 1, at - 1) /\ NothingPrepared(journal)
    BY <1>1 DEF ControlInv, PlaceTellsJournal, InActive, Doubt, NothingPrepared
  <2> QED BY <1>1, <2>1, KnownPosition
<1>2. CASE pc = "RbStep"
  <2>1. leaf = "Active" /\ Applied(at) /\ NothingPrepared(journal)
    BY <1>2 DEF ControlInv, PlaceTellsJournal, InActive, Doubt, NothingPrepared
  <2>2. PICK m \in 0..StepCount : Shape(journal, m, at)
    BY <2>1 DEF Applied
  <2> QED BY <1>2, <2>1, <2>2, KnownPosition
<1> QED BY <1>1, <1>2

\* The executor goes on, with the states of n steps.
LEMMA StatesMoved ==
  ASSUME NEW n, \A e \in Entries : states'[e] = EntryProgress(n, e),
         \/ pc' \in {"Create", "Freeze", "Begin", "Intent", "Promote"} /\ n = 0
         \/ pc' \in {"Step", "Rename", "NotApplied", "RbComplete"} /\ n = at' - 1
         \/ pc' \in {"Complete", "RbStep", "RbRename"} /\ n = at'
  PROVE  StatesInv'
BY DEF StatesInv, StatesAre, ReportTruthful

\* Where nothing is said of the states.
LEMMA NoStates ==
  ASSUME \/ pc' \in {"Down", "Idle", "Locked", "Staged"} \cup RecoveryPc
         \/ pc' = "Report" /\ outcome' = "Refused"
  PROVE  StatesInv'
BY DEF StatesInv, ReportTruthful, RecoveryPc

LEMMA StatesKept ==
  ASSUME StatesInv, UNCHANGED execVars \/ (UNCHANGED <<pc, at, states, outcome>>),
         ~disturbed' => ~disturbed /\ SameOwn
  PROVE  StatesInv'
<1>1. UNCHANGED <<pc, at, states, outcome>>
  BY DEF execVars
<1>2. ReportTruthful'
  <2> SUFFICES ASSUME pc = "Report", outcome # "Refused", ~disturbed'
               PROVE  /\ \A i \in 1..RowCount :
                           /\ states[Rows[i].entry] = "Applied" =>
                                fs'[Rows[i].destination] = Rows[i].identity
                           /\ states[Rows[i].entry] = "Restored" =>
                                fs'[Rows[i].source] = Rows[i].identity
                      /\ outcome = "RolledBack" => \A e \in Entries : states[e] = "Restored"
                      /\ outcome = "Completed" => \A e \in Entries : states[e] = "Applied"
    BY <1>1 DEF ReportTruthful
  <2>1. ReportTruthful /\ SameOwn /\ ~disturbed
    BY DEF StatesInv
  <2>2. \A i \in 1..RowCount : Rows[i] \in Row
    BY RowsAssumption
  <2>3. \A i \in 1..RowCount : \A k \in Keys : fs[k] = Rows[i].identity => fs'[k] = Rows[i].identity
    BY <2>1, <2>2 DEF SameOwn, Row
  <2> QED BY <2>1, <2>2, <2>3 DEF ReportTruthful, Row
<1>3. \A n : StatesAre(n) => StatesAre(n)'
  BY <1>1 DEF StatesAre
<1> QED BY <1>1, <1>2, <1>3 DEF StatesInv, StatesAre

-----------------------------------------------------------------------------
(***************************************************************************)
(* StatesInv, action by action.                                            *)
(***************************************************************************)
LEMMA PreparationStates ==
  ControlInv /\ DiskInv /\ StatesInv
    /\ (\/ StartApply \/ CreateJournal \/ FreezeRow \/ FreezeTemporaries \/ BeginTransaction
        \/ AppendIntent \/ PromoteCandidate)
    => StatesInv'
<1> SUFFICES ASSUME ControlInv, DiskInv, StatesInv,
                    \/ StartApply \/ CreateJournal \/ FreezeRow \/ FreezeTemporaries
                    \/ BeginTransaction \/ AppendIntent \/ PromoteCandidate
             PROVE  StatesInv'
  OBVIOUS
<1>1. \A e \in Entries : states'[e] = EntryProgress(0, e)
  <2>1. CASE StartApply
    BY <2>1, ProgressOfNone DEF StartApply
  <2>2. CASE ~StartApply
    <3>1. UNCHANGED states /\ pc \in {"Create", "Freeze", "Begin", "Intent", "Promote"}
      BY <2>2 DEF CreateJournal, FreezeRow, FreezeTemporaries, BeginTransaction, AppendIntent,
         PromoteCandidate
    <3> QED BY <3>1 DEF StatesInv, StatesAre
  <2> QED BY <2>1, <2>2
<1>2. \/ pc' \in {"Create", "Freeze", "Begin", "Intent", "Promote"}
      \/ pc' = "Step" /\ at' = 1
      \/ pc' = "Locked" \/ (pc' = "Report" /\ outcome' = "Refused")
      \/ /\ pc' = "Report" /\ outcome' = "RecoveryRequired" /\ UNCHANGED <<fs, disturbed>>
         /\ pc \in {"Intent", "Promote"}
  BY DEF StartApply, CreateJournal, FreezeRow, FreezeTemporaries, BeginTransaction, AppendIntent,
     PromoteCandidate, Goto, Return
<1>3. CASE pc' \in {"Create", "Freeze", "Begin", "Intent", "Promote"} \/ (pc' = "Step" /\ at' = 1)
  BY <1>1, <1>3, StatesMoved
<1>4. CASE pc' = "Locked" \/ (pc' = "Report" /\ outcome' = "Refused")
  BY <1>4, NoStates
<1>5. CASE /\ pc' = "Report" /\ outcome' = "RecoveryRequired" /\ UNCHANGED <<fs, disturbed>>
           /\ pc \in {"Intent", "Promote"}
  <2>1. 0 \in 0..StepCount /\ (~disturbed => Position(0))
    BY <1>5, Sizes DEF DiskInv, PlaceTellsDisk
  <2> QED BY <1>1, <1>5, <2>1, QuietReport DEF Cautious
<1> QED BY <1>2, <1>3, <1>4, <1>5

\* The forward loop's appends leave the states alone, or doubt the step's entry.
LEMMA ForwardAppendStates ==
  ControlInv /\ DiskInv /\ StatesInv
    /\ (CancelForward \/ PrepareForward \/ RecordNotApplied \/ Commit)
    => StatesInv'
<1> SUFFICES ASSUME ControlInv, DiskInv, StatesInv,
                    CancelForward \/ PrepareForward \/ RecordNotApplied \/ Commit
             PROVE  StatesInv'
  OBVIOUS
<1>1. /\ pc \in {"Step", "NotApplied"} /\ UNCHANGED <<states, fs, disturbed>>
      /\ at - 1 \in 0..StepCount
  <2>1. CASE pc = "Step"
    BY <2>1, Sizes DEF CancelForward, PrepareForward, RecordNotApplied, Commit, fsVars,
       ControlInv, PlaceTellsJournal
  <2>2. CASE pc = "NotApplied"
    BY <2>2, StepFacts DEF CancelForward, PrepareForward, RecordNotApplied, Commit, fsVars,
       ControlInv, PlaceTellsJournal, ForwardInDoubtPc
  <2> QED BY <2>1, <2>2 DEF CancelForward, PrepareForward, RecordNotApplied, Commit
<1>2. PICK n \in 0..StepCount : n = at - 1
  BY <1>1
<1>3. \A e \in Entries : states'[e] = EntryProgress(n, e)
  BY <1>1, <1>2 DEF StatesInv, StatesAre
<1>4. ~disturbed => Position(n)
  BY <1>1, <1>2, PositionOfPlace DEF DiskInv, PlaceTellsDisk
<1>5. \/ pc' = "RbStep" /\ at' = n
      \/ pc' = "Rename" /\ at' - 1 = n
      \/ pc' = "Report" /\ outcome' = "RecoveryRequired"
      \/ pc' = "Report" /\ outcome' = "Completed" /\ at = StepCount + 1
  BY <1>2 DEF CancelForward, PrepareForward, RecordNotApplied, Commit, StartRollback, Goto, Return
<1>6. CASE (pc' = "RbStep" /\ at' = n) \/ (pc' = "Rename" /\ at' - 1 = n)
  BY <1>3, <1>6, StatesMoved
<1>7. CASE pc' = "Report" /\ outcome' = "RecoveryRequired"
  BY <1>1, <1>3, <1>4, <1>7, QuietReport DEF Cautious
<1>8. CASE pc' = "Report" /\ outcome' = "Completed" /\ at = StepCount + 1
  <2>1. n = StepCount
    BY <1>2, <1>8, Sizes
  <2>2. \A e \in Entries : states'[e] = "Applied"
    BY <1>3, <2>1, ProgressAssumption DEF ValidRows
  <2> QED BY <1>1, <1>3, <1>4, <1>8, <2>2, QuietReport DEF Cautious
<1> QED BY <1>5, <1>6, <1>7, <1>8

LEMMA RecordCompletedStates ==
  ControlInv /\ DiskInv /\ StatesInv /\ RecordCompleted => StatesInv'
<1> SUFFICES ASSUME ControlInv, DiskInv, StatesInv, RecordCompleted PROVE StatesInv'
  OBVIOUS
<1>1. /\ pc = "Complete" /\ at \in StepNumber /\ UNCHANGED <<fs, disturbed>>
      /\ states \in [Entries -> RenameState]
  BY DEF RecordCompleted, ControlInv, PlaceTellsJournal, ForwardInDoubtPc, TypeOK, ExecTypeOK
<1>2. PICK n \in StepNumber : n = at
  BY <1>1
<1>3. n \in 0..StepCount /\ (n + 1) - 1 = n
  BY StepFacts
<1>4. \A e \in Entries : states[e] = EntryProgress(n, e)
  BY <1>1, <1>2 DEF StatesInv, StatesAre
<1>5. ~disturbed => Position(n)
  BY <1>1, <1>2 DEF DiskInv, PlaceTellsDisk
<1>6. CASE pc' = "Step" /\ at' = at + 1 /\ UNCHANGED states
  BY <1>2, <1>3, <1>4, <1>6, StatesMoved
<1>7. CASE SetState(Steps[at].entry, "Indeterminate") /\ Return("RecoveryRequired")
  <2>1. Cautious(states', n)
    BY <1>1, <1>4, <1>7 DEF Cautious, SetState
  <2> QED BY <1>1, <1>3, <1>5, <1>7, <2>1, QuietReport DEF Return
<1> QED BY <1>6, <1>7 DEF RecordCompleted

LEMMA RenameForwardStates ==
  ControlInv /\ DiskInv /\ StatesInv /\ RenameForward => StatesInv'
<1> SUFFICES ASSUME ControlInv, DiskInv, StatesInv, RenameForward PROVE StatesInv'
  OBVIOUS
<1>1. /\ pc = "Rename" /\ at \in StepNumber /\ FsTypeOK
      /\ states \in [Entries -> RenameState]
  BY DEF RenameForward, ControlInv, PlaceTellsJournal, ForwardInDoubtPc, TypeOK, ExecTypeOK
<1>2. PICK n \in StepNumber : n = at
  BY <1>1
<1>3. n \in 0..StepCount /\ n - 1 \in 0..StepCount /\ Steps[n].entry \in Entries
  BY StepFacts
<1>4. \A e \in Entries : states[e] = EntryProgress(n - 1, e)
  BY <1>1, <1>2 DEF StatesInv, StatesAre
<1>5. ~disturbed => Position(n - 1)
  BY <1>1, <1>2 DEF DiskInv, PlaceTellsDisk
<1>6. CASE SetState(Steps[n].entry, forward_state(Steps[n].phase)) /\ Goto("Complete")
  <2>1. \A e \in Entries : states'[e] = EntryProgress(n, e)
    BY <1>1, <1>4, <1>6, ProgressForward DEF SetState
  <2> QED BY <1>2, <1>6, <2>1, StatesMoved DEF Goto
<1>7. CASE UNCHANGED states /\ Goto("NotApplied")
  BY <1>2, <1>4, <1>7, StatesMoved DEF Goto
<1>8. CASE /\ RenameMayHaveApplied(Steps[n]) /\ Return("RecoveryRequired")
           /\ SetState(Steps[n].entry, "Indeterminate")
  <2>1. Cautious(states', n - 1) /\ Cautious(states', n)
    BY <1>1, <1>4, <1>8, ProgressForward DEF Cautious, SetState
  <2>2. ~disturbed' => Position(n - 1)' \/ Position(n)'
    <3>1. CASE fs' = fs
      BY <1>3, <1>5, <1>8, <3>1, OwnKept DEF SameOwn, RenameMayHaveApplied
    <3>2. CASE fs' = ApplyStep(fs, Steps[n])
      BY <1>1, <1>5, <1>8, <3>2, MovedForward DEF RenameMayHaveApplied
    <3> QED BY <1>8, <3>1, <3>2 DEF RenameMayHaveApplied
  <2> QED BY <1>3, <1>8, <2>1, <2>2, CautiousReport DEF Return
<1> QED BY <1>2, <1>6, <1>7, <1>8 DEF RenameForward

LEMMA RollbackAppendStates ==
  ControlInv /\ DiskInv /\ StatesInv /\ (PrepareRollback \/ RecordRollbackNotApplied)
    => StatesInv'
<1> SUFFICES ASSUME ControlInv, DiskInv, StatesInv, PrepareRollback \/ RecordRollbackNotApplied
             PROVE  StatesInv'
  OBVIOUS
<1>1. /\ pc \in {"RbStep", "RbNotApplied"} /\ UNCHANGED <<fs, disturbed>>
      /\ states \in [Entries -> RenameState] /\ at \in StepNumber
  <2>1. pc = "RbStep" => at \in StepNumber
    BY Sizes DEF PrepareRollback, RecordRollbackNotApplied, ControlInv, PlaceTellsJournal, StepNumber
  <2> QED BY <2>1 DEF PrepareRollback, RecordRollbackNotApplied, ControlInv, PlaceTellsJournal,
          RollbackInDoubtPc, TypeOK, ExecTypeOK
<1>2. PICK n \in StepNumber : n = at
  BY <1>1
<1>3. n \in 0..StepCount
  BY StepFacts
<1>4. ~disturbed => Position(n)
  BY <1>1, <1>2, PositionOfPlace DEF DiskInv, PlaceTellsDisk
<1>5. CASE PrepareRollback /\ Goto("RbRename") /\ UNCHANGED states
  <2>1. \A e \in Entries : states[e] = EntryProgress(n, e)
    BY <1>2, <1>5 DEF PrepareRollback, StatesInv, StatesAre
  <2> QED BY <1>2, <1>5, <2>1, StatesMoved DEF Goto
<1>6. CASE PrepareRollback /\ SetState(Steps[at].entry, "Indeterminate") /\ Return("RecoveryRequired")
  <2>1. \A e \in Entries : states[e] = EntryProgress(n, e)
    BY <1>2, <1>6 DEF PrepareRollback, StatesInv, StatesAre
  <2>2. Cautious(states', n)
    BY <1>1, <1>6, <2>1 DEF Cautious, SetState
  <2> QED BY <1>1, <1>3, <1>4, <1>6, <2>2, QuietReport DEF Return
<1>7. CASE RecordRollbackNotApplied
  <2>1. Cautious(states', n)
    BY <1>2, <1>7 DEF RecordRollbackNotApplied, StatesInv, Cautious
  <2> QED BY <1>1, <1>3, <1>4, <1>7, <2>1, QuietReport DEF RecordRollbackNotApplied, Return
<1> QED BY <1>5, <1>6, <1>7 DEF PrepareRollback

LEMMA RenameRollbackStates ==
  ControlInv /\ DiskInv /\ StatesInv /\ RenameRollback => StatesInv'
<1> SUFFICES ASSUME ControlInv, DiskInv, StatesInv, RenameRollback PROVE StatesInv'
  OBVIOUS
<1>1. /\ pc = "RbRename" /\ at \in StepNumber /\ FsTypeOK
      /\ states \in [Entries -> RenameState]
  BY DEF RenameRollback, ControlInv, PlaceTellsJournal, RollbackInDoubtPc, TypeOK, ExecTypeOK
<1>2. PICK n \in StepNumber : n = at
  BY <1>1
<1>3. n \in 0..StepCount /\ n - 1 \in 0..StepCount /\ Steps[n].entry \in Entries
  BY StepFacts
<1>4. \A e \in Entries : states[e] = EntryProgress(n, e)
  BY <1>1, <1>2 DEF StatesInv, StatesAre
<1>5. ~disturbed => Position(n)
  BY <1>1, <1>2 DEF DiskInv, PlaceTellsDisk
<1>6. CASE SetState(Steps[n].entry, rollback_state(Steps[n].phase)) /\ Goto("RbComplete")
  <2>1. \A e \in Entries : states'[e] = EntryProgress(n - 1, e)
    BY <1>1, <1>4, <1>6, ProgressBack DEF SetState
  <2> QED BY <1>2, <1>6, <2>1, StatesMoved DEF Goto
<1>7. CASE SetState(Steps[n].entry, "Indeterminate") /\ Goto("RbNotApplied")
  <2>1. \A e \in Entries :
          states'[e] = IF e = Steps[n].entry THEN "Indeterminate" ELSE EntryProgress(n, e)
    BY <1>1, <1>4, <1>7 DEF SetState
  <2> QED BY <1>2, <1>7, <2>1 DEF Goto, StatesInv, ReportTruthful
<1>8. CASE /\ RenameMayHaveApplied(Reverse(Steps[n])) /\ Return("RecoveryRequired")
           /\ SetState(Steps[n].entry, "Indeterminate")
  <2>1. Cautious(states', n - 1) /\ Cautious(states', n)
    BY <1>1, <1>4, <1>8, ProgressBack DEF Cautious, SetState
  <2>2. ~disturbed' => Position(n - 1)' \/ Position(n)'
    <3>1. CASE fs' = fs
      BY <1>3, <1>5, <1>8, <3>1, OwnKept DEF SameOwn, RenameMayHaveApplied
    <3>2. CASE fs' = ApplyStep(fs, Reverse(Steps[n]))
      BY <1>1, <1>5, <1>8, <3>2, MovedBack DEF RenameMayHaveApplied
    <3> QED BY <1>8, <3>1, <3>2 DEF RenameMayHaveApplied
  <2> QED BY <1>3, <1>8, <2>1, <2>2, CautiousReport DEF Return
<1> QED BY <1>2, <1>6, <1>7, <1>8 DEF RenameRollback

LEMMA RollbackCompletedStates ==
  ControlInv /\ DiskInv /\ StatesInv /\ RecordRollbackCompleted => StatesInv'
<1> SUFFICES ASSUME ControlInv, DiskInv, StatesInv, RecordRollbackCompleted PROVE StatesInv'
  OBVIOUS
<1>1. /\ pc = "RbComplete" /\ at \in StepNumber /\ UNCHANGED <<fs, disturbed>>
      /\ states \in [Entries -> RenameState]
  BY DEF RecordRollbackCompleted, ControlInv, PlaceTellsJournal, RollbackInDoubtPc, TypeOK,
     ExecTypeOK
<1>2. PICK n \in 0..StepCount : n = at - 1
  BY <1>1, StepFacts
<1>3. \A e \in Entries : states[e] = EntryProgress(n, e)
  BY <1>1, <1>2 DEF StatesInv, StatesAre
<1>4. ~disturbed => Position(n)
  BY <1>1, <1>2 DEF DiskInv, PlaceTellsDisk
<1>5. CASE pc' = "RbStep" /\ at' = at - 1 /\ UNCHANGED states
  BY <1>2, <1>3, <1>5, StatesMoved
<1>6. CASE SetState(Steps[at].entry, "Indeterminate") /\ Return("RecoveryRequired")
  <2>1. Cautious(states', n)
    BY <1>1, <1>3, <1>6 DEF Cautious, SetState
  <2> QED BY <1>1, <1>4, <1>6, <2>1, QuietReport DEF Return
<1> QED BY <1>5, <1>6 DEF RecordRollbackCompleted

LEMMA FinishRollbackStates ==
  ControlInv /\ DiskInv /\ StatesInv /\ FinishRollback => StatesInv'
<1> SUFFICES ASSUME ControlInv, DiskInv, StatesInv, FinishRollback PROVE StatesInv'
  OBVIOUS
<1>1. pc = "RbStep" /\ at = 0 /\ UNCHANGED <<states, fs, disturbed>> /\ 0 \in 0..StepCount
  BY Sizes DEF FinishRollback
<1>2. \A e \in Entries : states'[e] = EntryProgress(0, e) /\ states'[e] = "Restored"
  BY <1>1, ProgressOfNone DEF StatesInv, StatesAre
<1>3. ~disturbed => Position(0)
  BY <1>1, PositionOfPlace
<1>4. pc' = "Report" /\ outcome' \in {"RolledBack", "RecoveryRequired"}
  BY DEF FinishRollback, Return
<1> QED BY <1>1, <1>2, <1>3, <1>4, QuietReport DEF Cautious

\* Startup, recovery and the end of a process report no entry states.
LEMMA OtherStates ==
  ASSUME \/ Startup \/ ConfirmRecovery \/ DeclineRecovery \/ DiscardStagedIntent \/ Exit
         \/ HandleCompletedExecution \/ RecoveryStep \/ Crash
  PROVE  StatesInv'
<1>1. pc' \in {"Down", "Idle", "Locked", "Staged"} \cup RecoveryPc
  BY DEF Startup, StartupNoJournal, StartupActive, StartupEmptyCandidate, StartupCandidate,
     ConfirmRecovery, DeclineRecovery, DiscardStagedIntent, Exit, Crash, ProcessGone,
     HandleCompletedExecution, RecoveryStep, RecoveryNotRequired, RecoveryBlocked, Reconcile,
     PrepareReverse, RenameReverse, RecordReverseNotApplied, RecordReverseCompleted,
     FinishRecovery, CleanupAfterRecovery, Goto, Finish, RecoveryPc
<1> QED BY <1>1, NoStates

LEMMA NextStates == ControlInv /\ DiskInv /\ StatesInv /\ [Next]_vars => StatesInv'
<1> SUFFICES ASSUME ControlInv, DiskInv, StatesInv, [Next]_vars PROVE StatesInv'
  OBVIOUS
<1>1. CASE Startup \/ RecoveryStep \/ Crash
  BY <1>1, OtherStates
<1>2. CASE User
  <2>1. CASE RequestCancel
    <3>1. UNCHANGED <<pc, at, states, outcome>> /\ SameOwn /\ disturbed' = disturbed
      BY <2>1 DEF RequestCancel, fsVars, SameOwn
    <3> QED BY <3>1, StatesKept
  <2> QED BY <1>2, <2>1, PreparationStates, OtherStates DEF User
<1>3. CASE ExecutorStep
  BY <1>3, PreparationStates, ForwardAppendStates, RenameForwardStates, RecordCompletedStates,
     RollbackAppendStates, RenameRollbackStates, RollbackCompletedStates, FinishRollbackStates,
     OtherStates DEF ExecutorStep
<1>4. CASE Environment
  <2>1. UNCHANGED <<pc, at, states, outcome>>
    BY <1>4 DEF Environment, execVars
  <2>2. ~disturbed' => ~disturbed /\ SameOwn
    BY <1>4, EnvironmentSpares DEF ControlInv, TypeOK
  <2> QED BY <2>1, <2>2, StatesKept
<1>5. CASE UNCHANGED vars
  <2>1. UNCHANGED <<pc, at, states, outcome>> /\ SameOwn /\ disturbed' = disturbed
    BY <1>5 DEF vars, execVars, fsVars, SameOwn
  <2> QED BY <2>1, StatesKept
<1> QED BY <1>1, <1>2, <1>3, <1>4, <1>5 DEF Next

(***************************************************************************)
(* The report of the executor is true of the disk in every reachable       *)
(* state, whichever of its appends and renames failed on the way.          *)
(***************************************************************************)
THEOREM StatesCorrect == Spec => []StatesInv
<1>1. Init => StatesInv
  BY DEF Init, ExecInit, StatesInv, ReportTruthful
<1>2. ControlInv /\ DiskInv /\ StatesInv /\ [Next]_vars => StatesInv'
  BY NextStates
<1> QED BY <1>1, <1>2, ControlCorrect, DiskCorrect, PTL DEF Spec

-----------------------------------------------------------------------------
(***************************************************************************)
(* Room in the journal, and rest after an uncertain result.                *)
(***************************************************************************)
LEMMA ForwardFrames ==
  ASSUME ControlInv, FrameBudget,
         \/ PromoteCandidate \/ CancelForward \/ PrepareForward \/ RenameForward
         \/ RecordNotApplied \/ RecordCompleted \/ Commit
  PROVE  FrameBudget'
<1>1. StepCount \in Nat /\ frames \in Nat
  BY Sizes DEF ControlInv, TypeOK, JournalTypeOK
<1>2. /\ pc = "Step" => at \in 1..(StepCount + 1)
      /\ pc \in ForwardInDoubtPc => at \in 1..StepCount
  BY DEF ControlInv, PlaceTellsJournal, StepNumber
<1>3. CASE PromoteCandidate
  BY <1>3 DEF PromoteCandidate, PromoteOk, PromoteUncertain, Return, FrameBudget,
     ForwardInDoubtPc, RollbackInDoubtPc
<1>4. CASE CancelForward
  BY <1>1, <1>2, <1>4 DEF CancelForward, StartRollback, journalVars, FrameBudget,
     ForwardInDoubtPc, RollbackInDoubtPc
<1>5. CASE PrepareForward
  BY <1>1, <1>2, <1>5 DEF PrepareForward, AppendOk, AppendNotAppended, AppendMayHaveAppended,
     StartRollback, Goto, Return, journalVars, FrameBudget, ForwardInDoubtPc, RollbackInDoubtPc
<1>6. CASE RenameForward
  BY <1>6 DEF RenameForward, Goto, Return, journalVars, FrameBudget, ForwardInDoubtPc,
     RollbackInDoubtPc
<1>7. CASE RecordNotApplied
  BY <1>1, <1>2, <1>7 DEF RecordNotApplied, AppendOk, StartRollback, Return, FrameBudget,
     ForwardInDoubtPc, RollbackInDoubtPc
<1>8. CASE RecordCompleted
  BY <1>1, <1>2, <1>8 DEF RecordCompleted, AppendOk, Return, FrameBudget,
     ForwardInDoubtPc, RollbackInDoubtPc
<1>9. CASE Commit
  BY <1>9 DEF Commit, Return, FrameBudget, ForwardInDoubtPc, RollbackInDoubtPc
<1> QED BY <1>3, <1>4, <1>5, <1>6, <1>7, <1>8, <1>9

LEMMA RollbackFrames ==
  ASSUME ControlInv, FrameBudget,
         \/ PrepareRollback \/ RenameRollback \/ RecordRollbackNotApplied
         \/ RecordRollbackCompleted \/ FinishRollback
  PROVE  FrameBudget'
<1>1. StepCount \in Nat /\ frames \in Nat
  BY Sizes DEF ControlInv, TypeOK, JournalTypeOK
<1>2. /\ pc = "RbStep" => at \in 0..StepCount
      /\ pc \in RollbackInDoubtPc => at \in 1..StepCount
  BY DEF ControlInv, PlaceTellsJournal, StepNumber
<1>3. CASE PrepareRollback
  BY <1>1, <1>2, <1>3 DEF PrepareRollback, AppendOk, Goto, Return, FrameBudget,
     ForwardInDoubtPc, RollbackInDoubtPc
<1>4. CASE RenameRollback
  BY <1>4 DEF RenameRollback, Goto, Return, journalVars, FrameBudget, ForwardInDoubtPc,
     RollbackInDoubtPc
<1>5. CASE RecordRollbackCompleted
  BY <1>1, <1>2, <1>5 DEF RecordRollbackCompleted, AppendOk, Return, FrameBudget,
     ForwardInDoubtPc, RollbackInDoubtPc
<1>6. CASE RecordRollbackNotApplied \/ FinishRollback
  BY <1>6 DEF RecordRollbackNotApplied, FinishRollback, Return, FrameBudget,
     ForwardInDoubtPc, RollbackInDoubtPc
<1> QED BY <1>3, <1>4, <1>5, <1>6

LEMMA NextFrames == ControlInv /\ FrameBudget /\ [Next]_vars => FrameBudget'
<1> SUFFICES ASSUME ControlInv, FrameBudget, [Next]_vars PROVE FrameBudget'
  OBVIOUS
<1>1. CASE pc' \in {"Create", "Freeze", "Begin", "Intent", "Report", "Down", "Idle", "Locked",
                    "Staged"} \cup RecoveryPc
  BY <1>1 DEF FrameBudget, RecoveryPc, ForwardInDoubtPc, RollbackInDoubtPc
<1>2. CASE UNCHANGED <<pc, at, frames>>
  BY <1>2 DEF FrameBudget
<1>3. CASE Startup \/ RecoveryStep \/ Crash
  <2>1. pc' \in {"Down", "Idle", "Locked", "Staged"} \cup RecoveryPc
    BY <1>3 DEF Startup, StartupNoJournal, StartupActive, StartupEmptyCandidate,
       StartupCandidate, Crash, ProcessGone, RecoveryStep, RecoveryNotRequired,
       RecoveryBlocked, Reconcile, PrepareReverse, RenameReverse, RecordReverseNotApplied,
       RecordReverseCompleted, FinishRecovery, CleanupAfterRecovery, Goto, Finish, RecoveryPc
  <2> QED BY <1>1, <2>1
<1>4. CASE User
  BY <1>1, <1>2, <1>4 DEF User, StartApply, RequestCancel, ConfirmRecovery, DeclineRecovery,
     DiscardStagedIntent, Exit, ProcessGone, Goto, RecoveryPc, journalVars
<1>5. CASE AppendIntent
  <2>1. frames = 0
    BY <1>5 DEF AppendIntent, ControlInv, PlaceTellsJournal, PreIntentPc
  <2> QED BY <1>5, <2>1 DEF AppendIntent, AppendOk, Goto, Return, FrameBudget,
          ForwardInDoubtPc, RollbackInDoubtPc
<1>6. CASE \/ CreateJournal \/ FreezeRow \/ FreezeTemporaries \/ BeginTransaction
           \/ HandleCompletedExecution
  BY <1>1, <1>2, <1>6 DEF CreateJournal, FreezeRow, FreezeTemporaries, BeginTransaction,
     HandleCompletedExecution, Goto, Return
<1>7. CASE ExecutorStep
  BY <1>5, <1>6, <1>7, ForwardFrames, RollbackFrames DEF ExecutorStep
<1>8. CASE Environment \/ UNCHANGED vars
  BY <1>2, <1>8 DEF Environment, vars, journalVars, execVars
<1> QED BY <1>3, <1>4, <1>7, <1>8 DEF Next

LEMMA NextRests == TypeOK /\ UncertainRests /\ [Next]_vars => UncertainRests'
<1> SUFFICES ASSUME TypeOK, UncertainRests, [Next]_vars PROVE UncertainRests'
  OBVIOUS
<1>1. CASE Startup \/ User \/ Crash \/ Environment \/ UNCHANGED vars
  BY <1>1 DEF Startup, User, StartApply, RequestCancel, ConfirmRecovery, DeclineRecovery,
     DiscardStagedIntent, Exit, Crash, ProcessGone, Environment, Goto, UncertainRests,
     vars, execVars
<1>2. CASE ExecutorStep
  BY <1>2 DEF ExecutorStep, CreateJournal, FreezeRow, FreezeTemporaries, BeginTransaction,
     AppendIntent, PromoteCandidate, CancelForward, PrepareForward, RenameForward,
     RecordNotApplied, RecordCompleted, Commit, PrepareRollback, RenameRollback,
     RecordRollbackNotApplied, RecordRollbackCompleted, FinishRollback,
     HandleCompletedExecution, CleanupAllowed, ReportIsFinal, Goto, Return, StartRollback,
     UncertainRests
<1>3. CASE RecoveryStep
  BY <1>3 DEF RecoveryStep, RecoveryNotRequired, RecoveryBlocked, Reconcile, PrepareReverse,
     RenameReverse, RecordReverseNotApplied, RecordReverseCompleted, FinishRecovery,
     CleanupAfterRecovery, Goto, Finish, UncertainRests
<1> QED BY <1>1, <1>2, <1>3 DEF Next

(***************************************************************************)
(* The whole inductive invariant of the transaction.                       *)
(***************************************************************************)
THEOREM TransactionCorrect == Spec => []TransactionInv
<1>1. Init => FrameBudget /\ UncertainRests
  BY DEF Init, ExecInit, FrameBudget, UncertainRests, ForwardInDoubtPc, RollbackInDoubtPc
<1>2. ControlInv /\ FrameBudget /\ UncertainRests /\ [Next]_vars =>
        FrameBudget' /\ UncertainRests'
  BY NextFrames, NextRests DEF ControlInv
<1>3. ControlInv /\ DiskInv /\ StatesInv /\ FrameBudget /\ UncertainRests => TransactionInv
  BY DEF TransactionInv
<1> QED BY <1>1, <1>2, <1>3, ControlCorrect, DiskCorrect, StatesCorrect, PTL DEF Spec

LEMMA SettledHonestly == TransactionInv => OutcomesHonest
<1> SUFFICES ASSUME TransactionInv PROVE OutcomesHonest
  OBVIOUS
<1>1. ControlInv /\ DiskInv /\ StatesInv /\ FrameBudget
  BY DEF TransactionInv
<1>2. AllOrNothing
  BY <1>1, SettledPosition DEF AllOrNothing, DiskInv, Position
<1>3. ReportTruthful
  BY <1>1 DEF StatesInv
<1>4. RefusalLeavesNothing
  <2> SUFFICES ASSUME pc = "Report", outcome = "Refused"
               PROVE  /\ ~journal.intent /\ leaf = "Candidate" /\ MayDelete
                      /\ ~disturbed => OwnEntriesAt(Occ[0]) \/ OwnEntriesAt(Occ[StepCount])
    BY DEF RefusalLeavesNothing
  <2>1. InCandidate /\ journal = EmptyReplay
    BY <1>1 DEF ControlInv, PlaceTellsJournal
  <2>2. ~journal.intent /\ leaf = "Candidate" /\ MayDelete
    BY <2>1 DEF InCandidate, EmptyReplay, MayDelete, IsPhysicallyEmptyCandidate
  <2> QED BY <1>1, <2>2 DEF DiskInv, FileTellsDisk, Position
<1>5. ExecutorNeverFull
  <2>1. StepCount \in Nat /\ frames \in Nat /\ MaxFrames \in Nat /\ MaxFrames >= 4 * StepCount + 4
    BY <1>1, Sizes, MaxFramesAssumption DEF ControlInv, TypeOK, JournalTypeOK
  <2>2. /\ pc = "Intent" => frames = 0
        /\ pc = "Step" => at \in 1..(StepCount + 1)
        /\ pc \in ForwardInDoubtPc => at \in 1..StepCount
        /\ pc = "RbStep" => at \in 0..StepCount
        /\ pc \in RollbackInDoubtPc => at \in 1..StepCount
    BY <1>1 DEF ControlInv, PlaceTellsJournal, PreIntentPc, StepNumber
  <2> QED BY <1>1, <2>1, <2>2 DEF ExecutorNeverFull, FrameBudget, ForwardInDoubtPc,
          RollbackInDoubtPc
<1> QED BY <1>2, <1>3, <1>4, <1>5 DEF OutcomesHonest

(***************************************************************************)
(* For plans of every size: a settled batch is wholly applied or wholly    *)
(* undone, the worker's report is true of the disk, a refused plan left    *)
(* nothing, and the capacity that journal_requirements reserves before     *)
(* begin covers every record the executor can need.                        *)
(***************************************************************************)
THEOREM OutcomesAreHonest == Spec => []OutcomesHonest
BY SettledHonestly, TransactionCorrect, PTL

-----------------------------------------------------------------------------
(***************************************************************************)
(* What a step of the program may never do.                                *)
(***************************************************************************)
LEMMA ForeignStep == ASSUME ControlInv, Next PROVE ForeignFilesUntouched
<1> SUFFICES ASSUME pc' # pc, NEW k \in Keys, fs[k] = Foreign PROVE fs'[k] = Foreign
  BY DEF ForeignFilesUntouched
<1>1. CASE fs' = fs
  BY <1>1
<1>2. CASE RenameForward \/ RenameRollback \/ RenameReverse
  <2>1. at \in StepNumber /\ fs \in [Keys -> Occupant]
    BY <1>2 DEF RenameForward, RenameRollback, RenameReverse, ControlInv, PlaceTellsJournal,
       ForwardInDoubtPc, RollbackInDoubtPc, ReverseInDoubtPc, TypeOK, FsTypeOK
  <2>2. \/ fs' = fs
        \/ Movable(fs, Steps[at]) /\ fs' = ApplyStep(fs, Steps[at])
        \/ Movable(fs, Reverse(Steps[at])) /\ fs' = ApplyStep(fs, Reverse(Steps[at]))
    BY <1>2 DEF RenameForward, RenameRollback, RenameReverse, RenameOk, RenameNotApplied,
       RenameMayHaveApplied
  <2>3. Steps[at].identity # Foreign /\ None # Foreign
    BY <2>1, StepFacts, NamesAssumption
  <2> QED BY <2>1, <2>2, <2>3, StepFacts DEF Movable, ApplyStep, Reverse
<1> QED BY <1>1, <1>2, OnlyRenamesMove

LEMMA UncertainStep ==
  ASSUME ControlInv, UncertainRests, Next PROVE UncertaintyFreezes
<1> SUFFICES ASSUME Uncertain, pc' # pc PROVE UNCHANGED <<fs, leaf, journal, frames, torn>>
  BY DEF UncertaintyFreezes
<1>1. pc \in {"Report", "Locked"}
  BY DEF Uncertain, ControlInv, NameTellsContent, UncertainRests
<1>2. HandleCompletedExecution \/ Exit \/ Crash
  <2>1. ~Startup
    BY <1>1 DEF Startup
  <2>2. User => Exit
    BY <1>1 DEF User, StartApply, RequestCancel, ConfirmRecovery, DeclineRecovery,
       DiscardStagedIntent
  <2>3. ExecutorStep => HandleCompletedExecution
    BY <1>1 DEF ExecutorStep, CreateJournal, FreezeRow, FreezeTemporaries, BeginTransaction,
       AppendIntent, PromoteCandidate, CancelForward, PrepareForward, RenameForward,
       RecordNotApplied, RecordCompleted, Commit, PrepareRollback, RenameRollback,
       RecordRollbackNotApplied, RecordRollbackCompleted, FinishRollback
  <2>4. ~RecoveryStep
    BY <1>1 DEF RecoveryStep, RecoveryNotRequired, RecoveryBlocked, Reconcile, PrepareReverse,
       RenameReverse, RecordReverseNotApplied, RecordReverseCompleted, FinishRecovery,
       CleanupAfterRecovery
  <2>5. ~Environment
    BY DEF Environment, execVars
  <2> QED BY <2>1, <2>2, <2>3, <2>4, <2>5 DEF Next
<1>3. ~CleanupAllowed
  BY DEF Uncertain, CleanupAllowed, ReportIsFinal, MayDelete, IsPhysicallyEmptyCandidate
<1> QED BY <1>2, <1>3 DEF HandleCompletedExecution, Exit, Crash, ProcessGone, CloseHandle,
        journalVars, fsVars

\* The content of the journal changes only before its terminal record.
LEMMA TerminalIsLast ==
  ASSUME ControlInv, Next, journal' # journal, leaf' # "Absent"
  PROVE  journal.terminal = "None"
<1>1. leaf = "Absent" => journal.terminal = "None"
  BY DEF ControlInv, NameTellsContent, EmptyReplay
<1>2. CASE Startup \/ User \/ Crash \/ Environment
  BY <1>2 DEF Startup, StartupNoJournal, StartupActive, StartupEmptyCandidate,
     StartupCandidate, Open, User, StartApply, RequestCancel, ConfirmRecovery, DeclineRecovery,
     DiscardStagedIntent, Remove, Exit, Crash, ProcessGone, CloseHandle, Environment, journalVars
<1>3. CASE ExecutorStep
  <2>1. \/ pc \in {"Create", "Intent", "Step", "RbStep"} \cup ForwardInDoubtPc \cup RollbackInDoubtPc
        \/ journal' = journal \/ leaf' = "Absent"
    BY <1>3 DEF ExecutorStep, CreateJournal, FreezeRow, FreezeTemporaries, BeginTransaction,
       AppendIntent, PromoteCandidate, PromoteOk, PromoteUncertain, CancelForward,
       PrepareForward, RenameForward, RecordNotApplied, RecordCompleted, Commit,
       PrepareRollback, RenameRollback, RecordRollbackNotApplied, RecordRollbackCompleted,
       FinishRollback, HandleCompletedExecution, Remove, journalVars, ForwardInDoubtPc,
       RollbackInDoubtPc
  <2> QED BY <1>1, <2>1 DEF ControlInv, PlaceTellsJournal, Doubt, PreIntentPc, EmptyReplay
<1>4. CASE RecoveryStep
  <2>1. \/ pc = "RvStart" /\ ~Clean(journal)
        \/ pc \in {"RvStep"} \cup ReverseInDoubtPc
        \/ journal' = journal \/ leaf' = "Absent"
    BY <1>4 DEF RecoveryStep, RecoveryNotRequired, RecoveryBlocked, Reconcile, PrepareReverse,
       RenameReverse, RecordReverseNotApplied, RecordReverseCompleted, FinishRecovery,
       CleanupAfterRecovery, Remove, journalVars, ReverseInDoubtPc
  <2> QED BY <2>1 DEF ControlInv, PlaceTellsJournal, Doubt, Clean, Shaped, Shape
<1> QED BY <1>2, <1>3, <1>4 DEF Next

LEMMA CommittedStep == ASSUME ControlInv, Next PROVE CommitIsFinal
<1> SUFFICES ASSUME journal.terminal = "Committed", pc' # pc
             PROVE  UNCHANGED fs /\ (journal' = journal \/ leaf' = "Absent")
  BY DEF CommitIsFinal
<1>1. ~RenameForward /\ ~RenameRollback /\ ~RenameReverse
  BY DEF RenameForward, RenameRollback, RenameReverse, ControlInv, PlaceTellsJournal, Doubt,
     ForwardInDoubtPc, RollbackInDoubtPc, ReverseInDoubtPc
<1> QED BY <1>1, OnlyRenamesMove, TerminalIsLast

(***************************************************************************)
(* For plans of every size: no step of the program touches a file of       *)
(* others, acts on an uncertain result, or changes a committed batch.      *)
(***************************************************************************)
THEOREM StepsAreGuarded == Spec => StepsGuarded
<1>1. ControlInv /\ UncertainRests /\ [Next]_vars =>
        [ForeignFilesUntouched /\ UncertaintyFreezes /\ CommitIsFinal]_vars
  BY ForeignStep, UncertainStep, CommittedStep
<1>2. TransactionInv => ControlInv /\ UncertainRests
  BY DEF TransactionInv
<1> QED BY <1>1, <1>2, TransactionCorrect, PTL DEF Spec, StepsGuarded

-----------------------------------------------------------------------------
(***************************************************************************)
(* The transaction implements the atomic batch.                            *)
(***************************************************************************)
LEMMA OwnAtPosition ==
  ASSUME FsTypeOK, NEW j \in 0..StepCount, Position(j)
  PROVE  OwnOccupancy = Occ[j]
<1>1. Occ[j] \in [Keys -> Identities \cup {None}] /\ None \notin Identities
  BY OccTyped, NamesAssumption
<1>2. \A k \in Keys : (IF fs[k] \in Identities THEN fs[k] ELSE None) = Occ[j][k]
  BY <1>1 DEF Position, OwnEntriesAt, OwnEntryAt
<1> QED BY <1>1, <1>2 DEF OwnOccupancy

\* The same in the next state.
LEMMA OwnAtNextPosition ==
  ASSUME NEW j \in 0..StepCount, Position(j)'
  PROVE  OwnOccupancy' = Occ[j]
<1>1. Occ[j] \in [Keys -> Identities \cup {None}] /\ None \notin Identities
  BY OccTyped, NamesAssumption
<1>2. \A k \in Keys : (IF fs'[k] \in Identities THEN fs'[k] ELSE None) = Occ[j][k]
  BY <1>1 DEF Position, OwnEntriesAt, OwnEntryAt
<1> QED BY <1>1, <1>2 DEF OwnOccupancy

LEMMA OwnUnchanged == SameOwn => OwnOccupancy' = OwnOccupancy
BY DEF SameOwn, OwnOccupancy

\* A batch step, or none that the promise can see.
BatchStep == [Batch!Next]_<<OwnOccupancy, BatchStatus>>

LEMMA DisturbStep == ASSUME disturbed' PROVE BatchStep
<1>1. OwnOccupancy' \in [Keys -> Identities \cup {None}]
  BY DEF OwnOccupancy
<1>2. BatchStatus' = "Disturbed"
  BY DEF BatchStatus
<1> QED BY <1>1, <1>2 DEF BatchStep, Batch!Next, Batch!Disturb

\* Neither the own entries nor what the batch's status is read from change.
LEMMA InvisibleStep ==
  ASSUME SameOwn, disturbed' = disturbed,
         \/ UNCHANGED <<leaf, journal>>
         \/ /\ leaf # "Active" \/ journal.terminal # "None"
            /\ leaf' # "Active" \/ journal'.terminal # "None"
  PROVE  BatchStep
<1>1. BatchStatus' = BatchStatus
  BY DEF BatchStatus
<1> QED BY <1>1, OwnUnchanged DEF BatchStep

\* A record other than the terminal one may at most turn the batch back.
LEMMA ReplayEffect ==
  ASSUME NEW st \in ReplayState, NEW rec
  PROVE  LET next == ReplayStep(st, rec) IN
         /\ rec.kind \in {"Prepared", "Completed", "NotApplied"} =>
              /\ next.terminal = st.terminal
              /\ next.rollback_started \in {st.rollback_started, TRUE}
         /\ rec.kind = "Terminal" =>
              /\ next.terminal \in {st.terminal, rec.tag}
              /\ next.rollback_started = st.rollback_started
<1>1. CASE rec.kind = "Prepared"
  BY <1>1 DEF ReplayState, ReplayStep, AfterPrepared
<1>2. CASE rec.kind = "Completed"
  BY <1>2 DEF ReplayState, ReplayStep, AfterCompleted
<1>3. CASE rec.kind = "NotApplied"
  BY <1>3 DEF ReplayState, ReplayStep, AfterNotApplied
<1>4. CASE rec.kind = "Terminal"
  BY <1>4 DEF ReplayState, ReplayStep
<1> QED BY <1>1, <1>2, <1>3, <1>4

LEMMA RecordStep ==
  ASSUME ControlInv, UNCHANGED <<fs, disturbed>>, NEW rec, AnyAppend(rec), InActive,
         journal.terminal = "None", rec.kind \in {"Prepared", "Completed", "NotApplied"}
  PROVE  BatchStep
<1>1. leaf = "Active" /\ leaf' = "Active" /\ journal' \in {journal, ReplayStep(journal, rec)}
  BY AppendEffect DEF InActive
<1>2. journal \in ReplayState /\ SameOwn
  BY DEF ControlInv, TypeOK, JournalTypeOK, SameOwn
<1>3. /\ journal'.terminal = "None"
      /\ journal'.rollback_started \in {journal.rollback_started, TRUE}
  BY <1>1, <1>2, ReplayEffect
<1>4. CASE disturbed \/ journal'.rollback_started = journal.rollback_started
  BY <1>1, <1>2, <1>3, <1>4, OwnUnchanged DEF BatchStatus, BatchStep
<1>5. CASE ~disturbed /\ journal'.rollback_started # journal.rollback_started
  <2>1. journal'.rollback_started /\ ~journal.rollback_started
    BY <1>2, <1>3, <1>5 DEF ReplayState
  <2>2. BatchStatus = "Forward" /\ BatchStatus' = "Undo"
    BY <1>1, <1>3, <1>5, <2>1 DEF BatchStatus
  <2> QED BY <1>2, <2>2, OwnUnchanged DEF BatchStep, Batch!Next, Batch!TurnBack
<1> QED BY <1>4, <1>5

\* The record that says how the batch ended is written where it has ended so.
LEMMA TerminalStep ==
  ASSUME ControlInv, UNCHANGED <<fs, disturbed>>, InActive, journal.terminal = "None",
         NEW t \in {"Committed", "RolledBack"}, AnyAppend(Terminal(t)),
         ~disturbed => OwnOccupancy = (IF t = "Committed" THEN Occ[StepCount] ELSE Occ[0]),
         t = "Committed" => ~journal.rollback_started
  PROVE  BatchStep
<1>1. /\ leaf = "Active" /\ leaf' = "Active"
      /\ journal' \in {journal, ReplayStep(journal, Terminal(t))}
  BY AppendEffect DEF InActive
<1>2. journal \in ReplayState /\ SameOwn
  BY DEF ControlInv, TypeOK, JournalTypeOK, SameOwn
<1>3. Terminal(t).kind = "Terminal" /\ Terminal(t).tag = t
  BY DEF Terminal
<1>4. /\ journal'.terminal \in {"None", t}
      /\ journal'.rollback_started = journal.rollback_started
  BY <1>1, <1>2, <1>3, ReplayEffect
<1>5. CASE disturbed \/ journal'.terminal = "None"
  BY <1>1, <1>2, <1>4, <1>5, OwnUnchanged DEF BatchStatus, BatchStep
<1>6. CASE ~disturbed /\ journal'.terminal # "None"
  <2>1. BatchStatus' = "Settled" /\ OwnOccupancy' = OwnOccupancy
    BY <1>1, <1>2, <1>6, OwnUnchanged DEF BatchStatus
  <2>2. /\ BatchStatus \in {"Forward", "Undo"}
        /\ t = "Committed" => BatchStatus = "Forward"
    BY <1>1, <1>6 DEF BatchStatus
  <2>3. CASE t = "Committed"
    BY <1>6, <2>1, <2>2, <2>3 DEF BatchStep, Batch!Next, Batch!Commit
  <2>4. CASE t = "RolledBack"
    BY <1>6, <2>1, <2>2, <2>4 DEF BatchStep, Batch!Next, Batch!Restore
  <2> QED BY <2>3, <2>4
<1> QED BY <1>5, <1>6

-----------------------------------------------------------------------------
(***************************************************************************)
(* Every action is a step of the batch or invisible to it.                 *)
(***************************************************************************)
LEMMA RenameForwardBatch == ControlInv /\ DiskInv /\ RenameForward => BatchStep
<1> SUFFICES ASSUME ControlInv, DiskInv, RenameForward, ~disturbed'
             PROVE  BatchStep
  BY DisturbStep
<1>1. /\ FsTypeOK /\ at \in StepNumber /\ disturbed' = disturbed
      /\ UNCHANGED <<leaf, journal>> /\ leaf = "Active" /\ journal.terminal = "None"
      /\ ~journal.rollback_started
  <2>1. InActive /\ at \in StepNumber /\ Doubt(at, NoStep) /\ Shape(journal, at - 1, at - 1)
    BY DEF RenameForward, ControlInv, PlaceTellsJournal, ForwardInDoubtPc
  <2>2. ~journal.rollback_started
    BY <2>1, StepFacts DEF Doubt, Shape
  <2> QED BY <2>1, <2>2 DEF RenameForward, RenameOk, RenameNotApplied, RenameMayHaveApplied,
          ControlInv, TypeOK, InActive, Doubt, journalVars
<1>2. PICK n \in StepNumber : n = at
  BY <1>1
<1>3. n \in 0..StepCount /\ n - 1 \in 0..StepCount /\ n \in 1..StepCount
  BY StepFacts DEF StepNumber
<1>4. Position(n - 1)
  BY <1>1, <1>2 DEF RenameForward, DiskInv, PlaceTellsDisk
<1>5. CASE fs' = fs
  BY <1>1, <1>5, InvisibleStep DEF SameOwn
<1>6. CASE fs' = ApplyStep(fs, Steps[n])
  <2>1. OwnOccupancy = Occ[n - 1]
    BY <1>1, <1>3, <1>4, OwnAtPosition
  <2>2. OwnOccupancy' = Occ[n]
    BY <1>1, <1>3, <1>4, <1>6, MovedForward, OwnAtNextPosition
  <2>3. BatchStatus = "Forward" /\ BatchStatus' = "Forward"
    BY <1>1 DEF BatchStatus
  <2> QED BY <1>3, <2>1, <2>2, <2>3 DEF BatchStep, Batch!Next, Batch!MoveForward
<1> QED BY <1>2, <1>5, <1>6 DEF RenameForward, RenameOk, RenameNotApplied, RenameMayHaveApplied

LEMMA RenameBackBatch ==
  ControlInv /\ DiskInv /\ (RenameRollback \/ RenameReverse) => BatchStep
<1> SUFFICES ASSUME ControlInv, DiskInv, RenameRollback \/ RenameReverse, ~disturbed'
             PROVE  BatchStep
  BY DisturbStep
<1>1. /\ FsTypeOK /\ at \in StepNumber /\ disturbed' = disturbed
      /\ UNCHANGED <<leaf, journal>> /\ leaf = "Active" /\ journal.terminal = "None"
      /\ journal.rollback_started
  <2>1. InActive /\ at \in StepNumber /\ Doubt(NoStep, at) /\ Applied(at)
    BY DEF RenameRollback, RenameReverse, ControlInv, PlaceTellsJournal, RollbackInDoubtPc,
       ReverseInDoubtPc
  <2>2. journal.rollback_started
    BY <2>1, StepFacts DEF Doubt, Applied, Shape
  <2> QED BY <2>1, <2>2 DEF RenameRollback, RenameReverse, RenameOk, RenameNotApplied,
          RenameMayHaveApplied, ControlInv, TypeOK, InActive, Doubt, journalVars
<1>2. PICK n \in StepNumber : n = at
  BY <1>1
<1>3. n \in 0..StepCount /\ n - 1 \in 0..StepCount /\ n \in 1..StepCount
  BY StepFacts DEF StepNumber
<1>4. Position(n)
  BY <1>1, <1>2 DEF RenameRollback, RenameReverse, DiskInv, PlaceTellsDisk
<1>5. CASE fs' = fs
  BY <1>1, <1>5, InvisibleStep DEF SameOwn
<1>6. CASE fs' = ApplyStep(fs, Reverse(Steps[n]))
  <2>1. OwnOccupancy = Occ[n]
    BY <1>1, <1>3, <1>4, OwnAtPosition
  <2>2. OwnOccupancy' = Occ[n - 1]
    BY <1>1, <1>3, <1>4, <1>6, MovedBack, OwnAtNextPosition
  <2>3. BatchStatus = "Undo" /\ BatchStatus' = "Undo"
    BY <1>1 DEF BatchStatus
  <2> QED BY <1>3, <2>1, <2>2, <2>3 DEF BatchStep, Batch!Next, Batch!MoveBack
<1> QED BY <1>2, <1>5, <1>6 DEF RenameRollback, RenameReverse, RenameOk, RenameNotApplied,
        RenameMayHaveApplied

LEMMA PromoteBatch == ControlInv /\ DiskInv /\ PromoteCandidate => BatchStep
<1> SUFFICES ASSUME ControlInv, DiskInv, PromoteCandidate, ~disturbed'
             PROVE  BatchStep
  BY DisturbStep
<1>1. /\ leaf = "Candidate" /\ journal.terminal = "None" /\ ~journal.rollback_started
      /\ UNCHANGED <<fs, disturbed, journal>> /\ leaf' \in {"Candidate", "Active"}
  BY DEF PromoteCandidate, PromoteOk, PromoteUncertain, ControlInv, PlaceTellsJournal,
     InCandidate, IntentOnly, EmptyReplay
<1>2. SameOwn /\ 0 \in 0..StepCount
  BY <1>1, Sizes DEF SameOwn
<1>3. CASE leaf' = "Candidate"
  BY <1>1, <1>2, <1>3, InvisibleStep
<1>4. CASE leaf' = "Active"
  <2>1. Position(0) /\ FsTypeOK
    BY <1>1 DEF PromoteCandidate, DiskInv, PlaceTellsDisk, ControlInv, TypeOK
  <2>2. OwnOccupancy = Occ[0] /\ OwnOccupancy' = OwnOccupancy
    BY <1>2, <2>1, OwnAtPosition, OwnUnchanged
  <2>3. BatchStatus = "Settled" /\ BatchStatus' = "Forward"
    BY <1>1, <1>4 DEF BatchStatus
  <2> QED BY <2>2, <2>3 DEF BatchStep, Batch!Next, Batch!Begin
<1> QED BY <1>1, <1>3, <1>4

LEMMA ExecutorRecordsBatch ==
  ControlInv /\ (\/ PrepareForward \/ RecordNotApplied \/ RecordCompleted \/ PrepareRollback
                 \/ RecordRollbackNotApplied \/ RecordRollbackCompleted)
    => BatchStep
<1> SUFFICES ASSUME ControlInv,
                    \/ PrepareForward \/ RecordNotApplied \/ RecordCompleted \/ PrepareRollback
                    \/ RecordRollbackNotApplied \/ RecordRollbackCompleted
             PROVE  BatchStep
  OBVIOUS
<1>1. InActive /\ journal.terminal = "None"
  BY DEF PrepareForward, RecordNotApplied, RecordCompleted, PrepareRollback,
     RecordRollbackNotApplied, RecordRollbackCompleted, ControlInv, PlaceTellsJournal, Doubt,
     ForwardInDoubtPc, RollbackInDoubtPc
<1>2. UNCHANGED <<fs, disturbed>>
  BY DEF PrepareForward, RecordNotApplied, RecordCompleted, PrepareRollback,
     RecordRollbackNotApplied, RecordRollbackCompleted
<1>3. PICK d \in {"Forward", "Rollback"} :
        \/ AnyAppend(Prepared(at, d)) \/ AnyAppend(Completed(at, d)) \/ AnyAppend(NotApplied(at, d))
  BY DEF PrepareForward, RecordNotApplied, RecordCompleted, PrepareRollback,
     RecordRollbackNotApplied, RecordRollbackCompleted, AnyAppend
<1>4. /\ Prepared(at, d).kind = "Prepared" /\ Completed(at, d).kind = "Completed"
      /\ NotApplied(at, d).kind = "NotApplied"
  BY DEF Prepared, Completed, NotApplied
<1> QED BY <1>1, <1>2, <1>3, <1>4, RecordStep

LEMMA RecoveryRecordsBatch ==
  ControlInv /\ (\/ Reconcile \/ PrepareReverse \/ RecordReverseNotApplied
                 \/ RecordReverseCompleted)
    => BatchStep
<1> SUFFICES ASSUME ControlInv,
                    \/ Reconcile \/ PrepareReverse \/ RecordReverseNotApplied
                    \/ RecordReverseCompleted
             PROVE  BatchStep
  OBVIOUS
<1>1. InActive /\ journal.terminal = "None"
  BY DEF Reconcile, PrepareReverse, RecordReverseNotApplied, RecordReverseCompleted, ControlInv,
     PlaceTellsJournal, Doubt, ReverseInDoubtPc, Clean, Shaped, Shape
<1>2. UNCHANGED <<fs, disturbed>>
  BY DEF Reconcile, PrepareReverse, RecordReverseNotApplied, RecordReverseCompleted
<1>3. \/ UNCHANGED <<leaf, journal>>
      \/ \E s, d : \/ AnyAppend(Prepared(s, d)) \/ AnyAppend(Completed(s, d))
                   \/ AnyAppend(NotApplied(s, d))
  <2>1. CASE Reconcile
    BY <2>1 DEF Reconcile, Settled, AnyAppend, journalVars
  <2>2. CASE PrepareReverse \/ RecordReverseNotApplied \/ RecordReverseCompleted
    BY <2>2 DEF PrepareReverse, RecordReverseNotApplied, RecordReverseCompleted, AnyAppend
  <2> QED BY <2>1, <2>2
<1>4. CASE UNCHANGED <<leaf, journal>>
  BY <1>2, <1>4, InvisibleStep DEF SameOwn
<1>5. ASSUME NEW s, NEW d,
             AnyAppend(Prepared(s, d)) \/ AnyAppend(Completed(s, d)) \/ AnyAppend(NotApplied(s, d))
      PROVE  BatchStep
  <2>1. /\ Prepared(s, d).kind = "Prepared" /\ Completed(s, d).kind = "Completed"
        /\ NotApplied(s, d).kind = "NotApplied"
    BY DEF Prepared, Completed, NotApplied
  <2> QED BY <1>1, <1>2, <1>5, <2>1, RecordStep
<1> QED BY <1>3, <1>4, <1>5

LEMMA CommitBatch == ControlInv /\ DiskInv /\ Commit => BatchStep
<1> SUFFICES ASSUME ControlInv, DiskInv, Commit PROVE BatchStep
  OBVIOUS
<1>1. /\ InActive /\ journal.terminal = "None" /\ ~journal.rollback_started
      /\ UNCHANGED <<fs, disturbed>> /\ AnyAppend(Terminal("Committed"))
      /\ pc = "Step" /\ at = StepCount + 1 /\ FsTypeOK
  BY DEF Commit, ControlInv, PlaceTellsJournal, Doubt, AnyAppend, TypeOK
<1>2. at - 1 = StepCount /\ StepCount \in 0..StepCount
  BY <1>1, Sizes
<1>3. ~disturbed => OwnOccupancy = Occ[StepCount]
  BY <1>1, <1>2, PositionOfPlace, OwnAtPosition
<1> QED BY <1>1, <1>3, TerminalStep

LEMMA RestoreBatch == ControlInv /\ DiskInv /\ (FinishRollback \/ FinishRecovery) => BatchStep
<1> SUFFICES ASSUME ControlInv, DiskInv, FinishRollback \/ FinishRecovery PROVE BatchStep
  OBVIOUS
<1>1. /\ InActive /\ journal.terminal = "None" /\ NothingPrepared(journal) /\ FsTypeOK
      /\ UNCHANGED <<fs, disturbed>> /\ AnyAppend(Terminal("RolledBack"))
  BY DEF FinishRollback, FinishRecovery, ControlInv, PlaceTellsJournal, Doubt, AnyAppend,
     NothingPrepared, TypeOK
<1>2. 0 \in 0..StepCount
  BY Sizes
<1>3. ~disturbed => Position(0)
  <2>1. CASE FinishRollback
    BY <2>1, PositionOfPlace DEF FinishRollback
  <2>2. CASE FinishRecovery
    <3>1. PICK m, r \in 0..StepCount : Shape(journal, m, r)
      BY DEF ControlInv, Shaped
    <3>2. 1..r = {}
      BY <2>2, <3>1, RemainingOfShape DEF FinishRecovery
    <3>3. r = 0
      BY <3>1, <3>2, Sizes
    <3> QED BY <1>1, <3>1, <3>3, KnownPosition DEF InActive
  <2> QED BY <2>1, <2>2
<1>4. ~disturbed => OwnOccupancy = Occ[0]
  BY <1>1, <1>2, <1>3, OwnAtPosition
<1> QED BY <1>1, <1>4, TerminalStep

\* A file that is created, given its Intent or removed is not an unsettled journal.
LEMMA FileBatch ==
  ControlInv /\ (\/ Startup \/ CreateJournal \/ AppendIntent \/ HandleCompletedExecution
                 \/ CleanupAfterRecovery \/ DiscardStagedIntent)
    => BatchStep
<1> SUFFICES ASSUME ControlInv,
                    \/ Startup \/ CreateJournal \/ AppendIntent \/ HandleCompletedExecution
                    \/ CleanupAfterRecovery \/ DiscardStagedIntent
             PROVE  BatchStep
  OBVIOUS
<1>1. SameOwn /\ disturbed' = disturbed
  BY DEF Startup, CreateJournal, AppendIntent, HandleCompletedExecution, CleanupAfterRecovery,
     DiscardStagedIntent, SameOwn
<1>2. CASE Startup
  BY <1>1, <1>2, InvisibleStep DEF Startup, StartupNoJournal, StartupActive,
     StartupEmptyCandidate, StartupCandidate, Open, Remove, journalVars
<1>3. CASE CreateJournal
  <2>1. leaf = "Absent" /\ leaf' \in {"Absent", "Candidate"}
    BY <1>3 DEF CreateJournal, CreateCandidate, ControlInv, PlaceTellsJournal
  <2> QED BY <1>1, <2>1, InvisibleStep
<1>4. CASE AppendIntent
  <2>1. leaf = "Candidate" /\ leaf' = leaf
    BY <1>4 DEF AppendIntent, AppendOk, AppendNotAppended, AppendMayHaveAppended, journalVars,
       ControlInv, PlaceTellsJournal, PreIntentPc, InCandidate
  <2> QED BY <1>1, <2>1, InvisibleStep
<1>5. CASE HandleCompletedExecution \/ CleanupAfterRecovery \/ DiscardStagedIntent
  <2>1. \/ leaf' = "Absent" /\ (leaf # "Active" \/ journal.terminal # "None")
        \/ UNCHANGED <<leaf, journal>>
    BY <1>5, DeletableIsSettled DEF HandleCompletedExecution, CleanupAfterRecovery,
       DiscardStagedIntent, CleanupAllowed, Remove, journalVars
  <2> QED BY <1>1, <2>1, InvisibleStep
<1> QED BY <1>2, <1>3, <1>4, <1>5

\* The remaining steps change neither the file nor the own entries.
LEMMA RestBatch ==
  ASSUME \/ FreezeRow \/ FreezeTemporaries \/ BeginTransaction \/ CancelForward
         \/ StartApply \/ RequestCancel \/ ConfirmRecovery \/ DeclineRecovery
         \/ Exit \/ Crash \/ RecoveryNotRequired \/ RecoveryBlocked
         \/ UNCHANGED vars
  PROVE  BatchStep
<1>1. UNCHANGED <<fs, disturbed, leaf, journal>>
  BY DEF FreezeRow, FreezeTemporaries, BeginTransaction, CancelForward, StartApply,
     RequestCancel, ConfirmRecovery, DeclineRecovery, Exit, Crash, ProcessGone, CloseHandle,
     RecoveryNotRequired, RecoveryBlocked, vars, fsVars, journalVars
<1> QED BY <1>1, InvisibleStep DEF SameOwn

LEMMA NextBatch == ControlInv /\ DiskInv /\ [Next]_vars => BatchStep
<1> SUFFICES ASSUME ControlInv, DiskInv, [Next]_vars PROVE BatchStep
  OBVIOUS
<1>1. CASE Startup \/ Crash \/ UNCHANGED vars
  BY <1>1, FileBatch, RestBatch
<1>2. CASE User
  BY <1>2, FileBatch, RestBatch DEF User
<1>3. CASE ExecutorStep
  BY <1>3, FileBatch, RestBatch, PromoteBatch, ExecutorRecordsBatch, RenameForwardBatch,
     RenameBackBatch, CommitBatch, RestoreBatch DEF ExecutorStep
<1>4. CASE RecoveryStep
  BY <1>4, FileBatch, RestBatch, RecoveryRecordsBatch, RenameBackBatch, RestoreBatch
     DEF RecoveryStep
<1>5. CASE Environment
  <2>1. CASE disturbed'
    BY <2>1, DisturbStep
  <2>2. CASE ~disturbed'
    <3>1. ~disturbed /\ SameOwn
      BY <1>5, <2>2, EnvironmentSpares DEF ControlInv, TypeOK
    <3>2. UNCHANGED <<leaf, journal>> /\ disturbed \in BOOLEAN /\ disturbed' \in BOOLEAN
      BY <1>5, NextControl DEF Environment, journalVars, ControlInv, TypeOK, FsTypeOK, Next
    <3>3. disturbed' = disturbed
      BY <2>2, <3>1, <3>2
    <3> QED BY <3>1, <3>2, <3>3, InvisibleStep
  <2> QED BY <2>1, <2>2
<1> QED BY <1>1, <1>2, <1>3, <1>4, <1>5 DEF Next

(***************************************************************************)
(* The journalled transaction implements the atomic batch, for plans of    *)
(* every size: seen from outside, whatever crashes, restarts and           *)
(* recoveries happen, files move one step at a time, turn back at most     *)
(* once, and come to rest with all of them moved or none.                  *)
(***************************************************************************)
THEOREM TransactionImplementsBatch == Spec => ImplementsAtomicBatch
<1>1. Init => Batch!Init
  <2> SUFFICES ASSUME Init PROVE Batch!Init
    OBVIOUS
  <2>1. fs = Occ[0] /\ 0 \in 0..StepCount /\ Occ[0] \in [Keys -> Identities \cup {None}]
    BY Sizes, OccTyped DEF Init, FsInit
  <2>2. OwnOccupancy = Occ[0]
    BY <2>1, NamesAssumption DEF OwnOccupancy
  <2>3. BatchStatus = "Settled"
    BY DEF Init, FsInit, JournalInit, BatchStatus
  <2> QED BY <2>2, <2>3 DEF Batch!Init
<1>2. ControlInv /\ DiskInv /\ [Next]_vars => [Batch!Next]_<<OwnOccupancy, BatchStatus>>
  BY NextBatch DEF BatchStep
<1> QED BY <1>1, <1>2, ControlCorrect, DiskCorrect, PTL DEF Spec, ImplementsAtomicBatch, Batch!Spec
=============================================================================
