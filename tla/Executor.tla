------------------------------ MODULE Executor ------------------------------
(***************************************************************************)
(* RenameExecutor (rename/executor.rs) on the Apply worker thread, one     *)
(* action per journal append, rename or check, and the cancellation token  *)
(* the UI thread shares with it.                                           *)
(*                                                                         *)
(* `at' is the row being frozen, then the step being executed, then the    *)
(* step being reversed; while executing, the steps 1..at-1 are completed.  *)
(* A cancellation check is merged with the operation that follows it: a    *)
(* request between the two has the effect of a request after both.         *)
(***************************************************************************)
EXTENDS FileJournal

VARIABLES
  pc,       \* where the process is
  at,       \* cursor of the executor and of recovery
  token,    \* bits of the CancellationToken
  states,   \* RenameState of each entry in the execution report
  outcome   \* what the worker or recovery reported, "None" until it does

execVars == <<pc, at, token, states, outcome>>

RenameState == {"Applied", "Restored", "Indeterminate"}

ExecutorPc ==
  {"Create", "Freeze", "Begin", "Intent", "Promote",
   "Step", "Rename", "NotApplied", "Complete",
   "RbStep", "RbRename", "RbNotApplied", "RbComplete", "Report"}

RecoveryPc ==
  {"Confirm", "RvStart", "RvStep", "RvRename", "RvNotApplied",
   "RvComplete", "RvCleanup"}

Pc == {"Down", "Idle", "Locked", "Staged"} \cup ExecutorPc \cup RecoveryPc

Outcome ==
  {"None", "Completed", "RolledBack", "RecoveryRequired", "Refused",
   "Recovered", "NotRequired", "Blocked"}

Cursor == 0..(RowCount + StepCount + 1)

ExecTypeOK ==
  /\ pc \in Pc
  /\ at \in Cursor
  /\ token \subseteq {"CancelRequested", "BeginCommitted"}
  /\ states \in [Entries -> RenameState]
  /\ outcome \in Outcome

ExecInit ==
  /\ pc = "Down"
  /\ at = 0
  /\ token = {}
  /\ states = [e \in Entries |-> "Restored"]
  /\ outcome = "None"

Cancelled == "CancelRequested" \in token

forward_stateNoHop(p) == "Applied"   \* mutant

forward_state(p) == IF p = "IntoTemporary" THEN "Indeterminate" ELSE "Applied"

rollback_state(p) == IF p = "FromTemporary" THEN "Indeterminate" ELSE "Restored"

SetState(e, s) == states' = [states EXCEPT ![e] = s]

Goto(p) == pc' = p /\ UNCHANGED <<at, token, outcome>>

Return(o) == pc' = "Report" /\ outcome' = o /\ UNCHANGED <<at, token>>

(***************************************************************************)
(* The rollback walks the completed steps from the last to the first.      *)
(***************************************************************************)
StartRollback == pc' = "RbStep" /\ at' = at - 1 /\ UNCHANGED <<token, outcome>>

-----------------------------------------------------------------------------
(***************************************************************************)
(* The confirmed plan reaches a new worker, which creates the candidate    *)
(* journal.  A creation that fails may leave an empty file behind.         *)
(***************************************************************************)
StartApply ==
  /\ pc = "Idle"
  /\ pc' = "Create"
  /\ at' = 1
  /\ token' = {}
  /\ states' = [e \in Entries |-> "Restored"]
  /\ outcome' = "None"
  /\ UNCHANGED <<fsVars, journalVars>>

CreateJournal ==
  /\ pc = "Create"
  /\ \/ CreateCandidate /\ Goto("Freeze") /\ NoFault
     \/ /\ pc' = "Locked"
        /\ leaf' \in {leaf, "Candidate"}
        /\ Fault
        /\ UNCHANGED <<journal, frames, torn, phase, poisoned, at, token, outcome>>
  /\ UNCHANGED <<states, fs, disturbed>>

(***************************************************************************)
(* RequestCancel: the UI thread, at any time while the worker runs.        *)
(***************************************************************************)
RequestCancel ==
  /\ pc \in ExecutorPc
  /\ ~Cancelled
  /\ token' = token \cup {"CancelRequested"}
  /\ UNCHANGED <<pc, at, states, outcome, fsVars, journalVars>>

(***************************************************************************)
(* freeze: each row's source and destination are observed again and must   *)
(* be what the plan saw, then every temporary name must be free.  An       *)
(* observation may also fail, and so may the schedule, its capacity check  *)
(* or its authorization: all of these refuse before begin.                 *)
(***************************************************************************)
RowIsFresh(row) ==
  /\ fs[row.source] = row.identity
  /\ fs[row.destination] = Occ[0][row.destination]

TemporariesFree ==
  \A i \in StepNumber :
    Steps[i].phase = "IntoTemporary" => fs[Steps[i].destination] = None

FreezeRow ==
  /\ pc = "Freeze" /\ at <= RowCount
  /\ \/ /\ ~Cancelled /\ RowIsFresh(Rows[at]) /\ NoFault
        /\ at' = at + 1 /\ UNCHANGED <<pc, token, outcome>>
     \/ (Cancelled \/ ~RowIsFresh(Rows[at])) /\ Return("Refused") /\ NoFault
     \/ Return("Refused") /\ Fault
  /\ UNCHANGED <<states, fs, disturbed, journalVars>>

FreezeTemporaries ==
  /\ pc = "Freeze" /\ at = RowCount + 1
  /\ \/ ~Cancelled /\ TemporariesFree /\ Goto("Begin") /\ NoFault
     \/ (Cancelled \/ ~TemporariesFree) /\ Return("Refused") /\ NoFault
     \/ Return("Refused") /\ Fault
  /\ UNCHANGED <<states, fs, disturbed, journalVars>>

(***************************************************************************)
(* begin_transaction: the compare-and-swap that decides between a          *)
(* cancellation without effect and one that rolls back.                    *)
(***************************************************************************)
BeginTransaction ==
  /\ pc = "Begin"
  /\ IF token = {}
     THEN token' = {"BeginCommitted"} /\ pc' = "Intent" /\ UNCHANGED <<at, outcome>>
     ELSE Return("Refused")
  /\ UNCHANGED <<states, fsVars, journalVars>>

(***************************************************************************)
(* journal.begin: the Intent frame, then the promotion of the candidate.   *)
(***************************************************************************)
AppendIntent ==
  /\ pc = "Intent"
  /\ \/ AppendOk(Intent) /\ Goto("Promote")
     \/ AppendNotAppended /\ Return("Refused")
     \/ AppendMayHaveAppended(Intent) /\ Return("RecoveryRequired")
  /\ UNCHANGED <<states, fs, disturbed>>

PromoteCandidate ==
  /\ pc = "Promote"
  /\ \/ /\ PromoteOk
        /\ pc' = "Step" /\ at' = 1
        /\ UNCHANGED <<token, outcome>>
     \/ PromoteUncertain /\ Return("RecoveryRequired")
  /\ UNCHANGED <<states, fs, disturbed>>

-----------------------------------------------------------------------------
(***************************************************************************)
(* The forward loop.                                                       *)
(***************************************************************************)
CancelForward ==
  /\ pc = "Step" /\ Cancelled
  /\ StartRollback
  /\ UNCHANGED <<states, fsVars, journalVars>>

PrepareForwardUnlogged ==   \* mutant: moves although the record was refused
  /\ pc = "Step" /\ ~Cancelled /\ at <= StepCount
  /\ \/ AppendOk(Prepared(at, "Forward")) /\ Goto("Rename")
     \/ AppendNotAppended /\ Goto("Rename")
     \/ AppendMayHaveAppended(Prepared(at, "Forward")) /\ Return("RecoveryRequired")
  /\ UNCHANGED <<states, fs, disturbed>>

PrepareForward ==
  /\ pc = "Step" /\ ~Cancelled /\ at <= StepCount
  /\ \/ AppendOk(Prepared(at, "Forward")) /\ Goto("Rename")
     \/ AppendNotAppended /\ StartRollback
     \/ AppendMayHaveAppended(Prepared(at, "Forward")) /\ Return("RecoveryRequired")
  /\ UNCHANGED <<states, fs, disturbed>>

RenameForwardOptimistic ==   \* mutant: an uncertain move is taken as not applied
  /\ pc = "Rename"
  /\ LET s == Steps[at] IN
     \/ RenameOk(s) /\ SetState(s.entry, forward_state(s.phase)) /\ Goto("Complete")
     \/ RenameNotApplied(s) /\ UNCHANGED states /\ Goto("NotApplied")
     \/ RenameMayHaveApplied(s) /\ UNCHANGED states /\ Goto("NotApplied")
  /\ UNCHANGED journalVars

RenameForward ==
  /\ pc = "Rename"
  /\ LET s == Steps[at] IN
     \/ RenameOk(s) /\ SetState(s.entry, forward_state(s.phase)) /\ Goto("Complete")
     \/ RenameNotApplied(s) /\ UNCHANGED states /\ Goto("NotApplied")
     \/ /\ RenameMayHaveApplied(s)
        /\ SetState(s.entry, "Indeterminate")
        /\ Return("RecoveryRequired")
  /\ UNCHANGED journalVars

RecordNotApplied ==
  /\ pc = "NotApplied"
  /\ \/ AppendOk(NotApplied(at, "Forward")) /\ StartRollback
     \/ AppendNotAppended /\ Return("RecoveryRequired")
     \/ AppendMayHaveAppended(NotApplied(at, "Forward")) /\ Return("RecoveryRequired")
  /\ UNCHANGED <<states, fs, disturbed>>

RecordCompleted ==
  /\ pc = "Complete"
  /\ \/ /\ AppendOk(Completed(at, "Forward"))
        /\ pc' = "Step" /\ at' = at + 1
        /\ UNCHANGED <<token, outcome, states>>
     \/ /\ AppendNotAppended \/ AppendMayHaveAppended(Completed(at, "Forward"))
        /\ SetState(Steps[at].entry, "Indeterminate")
        /\ Return("RecoveryRequired")
  /\ UNCHANGED <<fs, disturbed>>

Commit ==
  /\ pc = "Step" /\ ~Cancelled /\ at = StepCount + 1
  /\ \/ AppendOk(Terminal("Committed")) /\ Return("Completed")
     \/ AppendNotAppended /\ Return("RecoveryRequired")
     \/ AppendMayHaveAppended(Terminal("Committed")) /\ Return("RecoveryRequired")
  /\ UNCHANGED <<states, fs, disturbed>>

-----------------------------------------------------------------------------
(***************************************************************************)
(* rollback: the completed steps in reverse; the first failure of any kind *)
(* stops it and leaves the rest to recovery.                               *)
(***************************************************************************)
PrepareRollback ==
  /\ pc = "RbStep" /\ at > 0
  /\ \/ /\ AppendOk(Prepared(at, "Rollback"))
        /\ Goto("RbRename") /\ UNCHANGED states
     \/ /\ AppendNotAppended \/ AppendMayHaveAppended(Prepared(at, "Rollback"))
        /\ SetState(Steps[at].entry, "Indeterminate")
        /\ Return("RecoveryRequired")
  /\ UNCHANGED <<fs, disturbed>>

RenameRollback ==
  /\ pc = "RbRename"
  /\ LET s == Steps[at] IN
     \/ /\ RenameOk(Reverse(s))
        /\ SetState(s.entry, rollback_state(s.phase))
        /\ Goto("RbComplete")
     \/ /\ RenameNotApplied(Reverse(s))
        /\ SetState(s.entry, "Indeterminate")
        /\ Goto("RbNotApplied")
     \/ /\ RenameMayHaveApplied(Reverse(s))
        /\ SetState(s.entry, "Indeterminate")
        /\ Return("RecoveryRequired")
  /\ UNCHANGED journalVars

RecordRollbackNotApplied ==
  /\ pc = "RbNotApplied"
  /\ \/ AppendOk(NotApplied(at, "Rollback"))
     \/ AppendNotAppended
     \/ AppendMayHaveAppended(NotApplied(at, "Rollback"))
  /\ Return("RecoveryRequired")
  /\ UNCHANGED <<states, fs, disturbed>>

RecordRollbackCompleted ==
  /\ pc = "RbComplete"
  /\ \/ /\ AppendOk(Completed(at, "Rollback"))
        /\ pc' = "RbStep" /\ at' = at - 1
        /\ UNCHANGED <<token, outcome, states>>
     \/ /\ AppendNotAppended \/ AppendMayHaveAppended(Completed(at, "Rollback"))
        /\ SetState(Steps[at].entry, "Indeterminate")
        /\ Return("RecoveryRequired")
  /\ UNCHANGED <<fs, disturbed>>

FinishRollback ==
  /\ pc = "RbStep" /\ at = 0
  /\ \/ AppendOk(Terminal("RolledBack")) /\ Return("RolledBack")
     \/ AppendNotAppended /\ Return("RecoveryRequired")
     \/ AppendMayHaveAppended(Terminal("RolledBack")) /\ Return("RecoveryRequired")
  /\ UNCHANGED <<states, fs, disturbed>>

-----------------------------------------------------------------------------
(***************************************************************************)
(* The UI thread takes the worker's report: a finished or refused          *)
(* transaction has its file removed, anything else keeps it and locks.     *)
(***************************************************************************)
ReportIsFinal ==
  \/ outcome \in {"Refused", "RolledBack"}
  \/ outcome = "Completed" /\ \A e \in Entries : states[e] = "Applied"

CleanupAllowed == ReportIsFinal /\ MayDelete

HandleCompletedExecution ==
  /\ pc = "Report"
  /\ \/ CleanupAllowed /\ Remove /\ pc' = "Idle" /\ NoFault
     \/ /\ IF CleanupAllowed THEN Fault ELSE NoFault
        /\ pc' = "Locked" /\ UNCHANGED journalVars
  /\ UNCHANGED <<at, token, states, outcome, fs, disturbed>>

ExecutorStep ==
  \/ CreateJournal \/ FreezeRow \/ FreezeTemporaries \/ BeginTransaction
  \/ AppendIntent \/ PromoteCandidate
  \/ CancelForward \/ PrepareForward \/ RenameForward \/ RecordNotApplied
  \/ RecordCompleted \/ Commit
  \/ PrepareRollback \/ RenameRollback \/ RecordRollbackNotApplied
  \/ RecordRollbackCompleted \/ FinishRollback
  \/ HandleCompletedExecution
=============================================================================
