-------------------------- MODULE RenameTransaction --------------------------
(***************************************************************************)
(* The journalled rename transaction from end to end: the executor, the    *)
(* file journal, recovery, process crashes and restarts, the user's        *)
(* decisions at startup, and other processes on the same directories.      *)
(*                                                                         *)
(* One process at a time holds the runtime lock, so `pc' names both the    *)
(* process that runs and the place it is at.                               *)
(***************************************************************************)
EXTENDS Executor, FiniteSets

\* A transaction touches finitely many directory entries.
ASSUME KeysAssumption == IsFiniteSet(Keys)

-----------------------------------------------------------------------------
(***************************************************************************)
(* RenameRecovery::rollback (rename/recovery.rs): once per process, after  *)
(* the user confirms it at startup.  It reads the retained active journal, *)
(* compares what the journal implies with what the directories hold, and   *)
(* reverses the steps that were applied.  It never moves forward.          *)
(*                                                                         *)
(* The observation of the endpoints is merged with the append it decides:  *)
(* the append does not look at the directories, so a change between the    *)
(* two has the effect of a change after both.                              *)
(***************************************************************************)
(***************************************************************************)
(* transition_state: what the journal says the keys hold, and what they    *)
(* would hold had the step left prepared been applied.                     *)
(***************************************************************************)
ExpectedOccupancy == Occ[LastRemaining(journal)]

DoubtfulStep ==
  IF journal.forward_prepared # NoStep THEN Steps[journal.forward_prepared]
  ELSE Reverse(Steps[journal.rollback_prepared])

AppliedOccupancy == ApplyStep(ExpectedOccupancy, DoubtfulStep)

SettledForward(applied) ==   \* mutant: forgets the direction of the step in doubt
  LET s == IF journal.forward_prepared # NoStep
           THEN journal.forward_prepared ELSE journal.rollback_prepared
  IN  IF applied THEN Completed(s, "Forward") ELSE NotApplied(s, "Forward")

Settled(applied) ==
  LET fwd == journal.forward_prepared # NoStep
      s == IF fwd THEN journal.forward_prepared ELSE journal.rollback_prepared
      d == IF fwd THEN "Forward" ELSE "Rollback"
  IN  IF applied THEN Completed(s, d) ELSE NotApplied(s, d)

Finish(p, o) == pc' = p /\ outcome' = o /\ UNCHANGED <<at, token, states>>

AuthorizedFailure(r) ==
  \/ AuthorizedAppendNotAppended
  \/ AuthorizedAppendMayHaveAppended(r)

-----------------------------------------------------------------------------
(***************************************************************************)
(* A Clean journal needs no move.  Occupancy that matches neither reading  *)
(* of the journal, or an endpoint that cannot be observed, blocks recovery *)
(* before it appends or moves anything.                                    *)
(***************************************************************************)
RecoveryNotRequired ==
  /\ pc = "RvStart" /\ Clean(journal)
  /\ Finish("RvCleanup", "NotRequired")
  /\ UNCHANGED <<fsVars, journalVars>>

Unambiguous ==
  IF NothingPrepared(journal) THEN fs = ExpectedOccupancy
  ELSE (fs = ExpectedOccupancy) # (fs = AppliedOccupancy)

RecoveryBlocked ==
  /\ pc = "RvStart" /\ ~Clean(journal)
  /\ IF Unambiguous THEN Fault ELSE NoFault
  /\ Finish("Locked", "Blocked")
  /\ UNCHANGED <<fs, disturbed, journalVars>>

Reconcile ==
  /\ pc = "RvStart" /\ ~Clean(journal) /\ Unambiguous
  /\ \/ /\ NothingPrepared(journal)
        /\ Goto("RvStep")
        /\ NoFault /\ UNCHANGED <<states, journalVars>>
     \/ /\ ~NothingPrepared(journal)
        /\ LET r == Settled(fs = AppliedOccupancy) IN
           \/ AuthorizedAppendOk(r) /\ Goto("RvStep") /\ UNCHANGED states
           \/ AuthorizedFailure(r) /\ Finish("Locked", "RecoveryRequired")
  /\ UNCHANGED <<fs, disturbed>>

(***************************************************************************)
(* The remaining steps, last first, and the terminal record.               *)
(***************************************************************************)
PrepareReverse ==
  /\ pc = "RvStep" /\ Remaining(journal) # {}
  /\ LET s == LastRemaining(journal) IN
     \/ /\ AuthorizedAppendOk(Prepared(s, "Rollback"))
        /\ pc' = "RvRename" /\ at' = s
        /\ UNCHANGED <<token, states, outcome>>
     \/ /\ AuthorizedFailure(Prepared(s, "Rollback"))
        /\ Finish("Locked", "RecoveryRequired")
  /\ UNCHANGED <<fs, disturbed>>

RenameReverse ==
  /\ pc = "RvRename"
  /\ LET s == Reverse(Steps[at]) IN
     \/ RenameOk(s) /\ Goto("RvComplete") /\ UNCHANGED states
     \/ RenameNotApplied(s) /\ Goto("RvNotApplied") /\ UNCHANGED states
     \/ RenameMayHaveApplied(s) /\ Finish("Locked", "RecoveryRequired")
  /\ UNCHANGED journalVars

RecordReverseNotApplied ==
  /\ pc = "RvNotApplied"
  /\ \/ AuthorizedAppendOk(NotApplied(at, "Rollback"))
     \/ AuthorizedFailure(NotApplied(at, "Rollback"))
  /\ Finish("Locked", "RecoveryRequired")
  /\ UNCHANGED <<fs, disturbed>>

RecordReverseCompleted ==
  /\ pc = "RvComplete"
  /\ \/ AuthorizedAppendOk(Completed(at, "Rollback")) /\ Goto("RvStep") /\ UNCHANGED states
     \/ /\ AuthorizedFailure(Completed(at, "Rollback"))
        /\ Finish("Locked", "RecoveryRequired")
  /\ UNCHANGED <<fs, disturbed>>

FinishRecovery ==
  /\ pc = "RvStep" /\ Remaining(journal) = {}
  /\ \/ AuthorizedAppendOk(Terminal("RolledBack")) /\ Finish("RvCleanup", "Recovered")
     \/ AuthorizedFailure(Terminal("RolledBack")) /\ Finish("Locked", "RecoveryRequired")
  /\ UNCHANGED <<fs, disturbed>>

CleanupAfterRecovery ==
  /\ pc = "RvCleanup"
  /\ \/ MayDelete /\ Remove /\ pc' = "Idle" /\ NoFault
     \/ /\ IF MayDelete THEN Fault ELSE NoFault
        /\ pc' = "Locked" /\ UNCHANGED journalVars
  /\ UNCHANGED <<at, token, states, outcome, fs, disturbed>>

RecoveryStep ==
  \/ RecoveryNotRequired \/ RecoveryBlocked \/ Reconcile
  \/ PrepareReverse \/ RenameReverse \/ RecordReverseNotApplied
  \/ RecordReverseCompleted \/ FinishRecovery
  \/ CleanupAfterRecovery

-----------------------------------------------------------------------------
vars == <<fsVars, journalVars, execVars>>

Init == FsInit /\ JournalInit /\ ExecInit

-----------------------------------------------------------------------------
(***************************************************************************)
(* initialize_safe_runtime: the two journal names are opened before        *)
(* anything else.  A readable active journal asks for recovery; an empty   *)
(* candidate is removed; a candidate with one complete Intent may be       *)
(* discarded by the user; anything else locks Apply.                       *)
(***************************************************************************)
Open(p) ==
  /\ phase' = p
  /\ UNCHANGED <<leaf, journal, frames, torn, poisoned>>

StartupNoJournal ==
  /\ leaf = "Absent"
  /\ pc' = "Idle" /\ NoFault /\ UNCHANGED journalVars

StartupActive ==
  /\ leaf = "Active"
  /\ \/ Readable /\ Open("Active") /\ pc' = "Confirm" /\ NoFault
     \/ /\ IF Readable THEN Fault ELSE NoFault
        /\ pc' = "Locked" /\ UNCHANGED journalVars

StartupEmptyCandidate ==
  /\ leaf = "Candidate" /\ frames = 0 /\ ~torn
  /\ \/ Remove /\ pc' = "Idle" /\ NoFault
     \/ Open("Candidate") /\ pc' = "Locked" /\ Fault

StartupCandidate ==
  /\ leaf = "Candidate" /\ (frames > 0 \/ torn)
  /\ \/ /\ ReadableCandidate /\ Open("Candidate") /\ NoFault
        /\ pc' = IF torn THEN "Locked" ELSE "Staged"
     \/ /\ IF ReadableCandidate THEN Fault ELSE NoFault
        /\ pc' = "Locked" /\ UNCHANGED journalVars

Startup ==
  /\ pc = "Down"
  /\ \/ StartupNoJournal \/ StartupActive
     \/ StartupEmptyCandidate \/ StartupCandidate
  /\ UNCHANGED <<at, token, states, outcome, fs, disturbed>>

(***************************************************************************)
(* The user's answers, and an orderly exit of a process with no worker.    *)
(***************************************************************************)
ConfirmRecovery ==
  /\ pc = "Confirm"
  /\ Goto("RvStart")
  /\ UNCHANGED <<states, fsVars, journalVars>>

DeclineRecovery ==
  /\ pc = "Confirm"
  /\ Goto("Locked")
  /\ UNCHANGED <<states, fsVars, journalVars>>

DiscardStagedIntent ==
  /\ pc = "Staged" /\ IsCompleteIntentCandidate /\ leaf # "Active"
  /\ \/ Remove /\ Goto("Idle") /\ NoFault
     \/ Goto("Staged") /\ UNCHANGED journalVars /\ Fault
  /\ UNCHANGED <<states, fs, disturbed>>

ProcessGone ==
  /\ CloseHandle
  /\ pc' = "Down" /\ at' = 0 /\ token' = {} /\ outcome' = "None"
  /\ states' = [e \in Entries |-> "Restored"]

Exit ==
  /\ pc \in {"Idle", "Locked", "Staged", "Confirm"}
  /\ ProcessGone
  /\ UNCHANGED fsVars

(***************************************************************************)
(* The process dies.  What an append or a rename was doing at that moment  *)
(* is the uncertain outcome of that action followed by this one.           *)
(***************************************************************************)
Crash ==
  /\ pc # "Down"
  /\ ProcessGone
  /\ Fault
  /\ UNCHANGED <<fs, disturbed>>

Environment ==
  /\ \E k \in Keys : \E x \in Occupant : Interfere(k, x)
  /\ UNCHANGED <<journalVars, execVars>>

User ==
  \/ StartApply \/ RequestCancel
  \/ ConfirmRecovery \/ DeclineRecovery \/ DiscardStagedIntent \/ Exit

Next == Startup \/ User \/ ExecutorStep \/ RecoveryStep \/ Crash \/ Environment

Spec == Init /\ [][Next]_vars

(***************************************************************************)
(* The operating system keeps running a worker that can run.  For          *)
(* progress across failures the user must also leave a locked session,     *)
(* start the program again, and accept recovery when it keeps being        *)
(* offered.                                                                *)
(***************************************************************************)
Fairness ==
  /\ WF_vars(ExecutorStep)
  /\ WF_vars(RecoveryStep)
  /\ WF_vars(Startup)
  /\ WF_vars(pc = "Locked" /\ Exit)
  /\ SF_vars(ConfirmRecovery)

FairSpec == Spec /\ Fairness

-----------------------------------------------------------------------------
TypeOK == FsTypeOK /\ JournalTypeOK /\ ExecTypeOK

(***************************************************************************)
(* The executor and recovery, across any crashes, append only what strict  *)
(* replay accepts: no crash point turns a journal into one that startup    *)
(* would refuse to read (a torn first frame of a candidate aside).         *)
(***************************************************************************)
JournalAlwaysReadable ==
  /\ ~journal.corrupt
  /\ leaf = "Active" => Readable /\ journal.intent

(***************************************************************************)
(* The journal on disk says where the files are.  While no other process   *)
(* has touched the plan's own entries, they lie where the completed steps  *)
(* put them, or where the one step left prepared would.                    *)
(***************************************************************************)
JournalTracksFiles ==
  (~disturbed /\ leaf = "Active") =>
    \/ OwnEntriesAt(ExpectedOccupancy)
    \/ ~NothingPrepared(journal) /\ OwnEntriesAt(AppliedOccupancy)

(***************************************************************************)
(* Without an active journal, or with one that carries a terminal record,  *)
(* the batch is wholly applied or wholly undone.                           *)
(***************************************************************************)
AllOrNothing ==
  (~disturbed /\ (leaf # "Active" \/ journal.terminal # "None")) =>
    OwnEntriesAt(Occ[0]) \/ OwnEntriesAt(Occ[StepCount])

(***************************************************************************)
(* No name of a file is lost and none is doubled, in the middle of a swap, *)
(* a rollback or a recovery too: each identity is at as many keys as       *)
(* before the first step (at two, when two rows are hard links of one      *)
(* file).                                                                  *)
(***************************************************************************)
NamesOf(occ, i) == {k \in Keys : occ[k] = i}

NothingLost ==
  ~disturbed =>
    \A i \in Identities :
      Cardinality(NamesOf(fs, i)) = Cardinality(NamesOf(Occ[0], i))

(***************************************************************************)
(* The report the user reads is true of the disk: an entry reported        *)
(* Applied is at its destination, one reported Restored is at its source.  *)
(* A RolledBack report has every entry back, a Completed one every entry   *)
(* moved.  (A refusal carries no entry states.)                            *)
(***************************************************************************)
ReportTruthful ==
  (pc = "Report" /\ outcome # "Refused" /\ ~disturbed) =>
    /\ \A i \in 1..RowCount :
         /\ states[Rows[i].entry] = "Applied" => fs[Rows[i].destination] = Rows[i].identity
         /\ states[Rows[i].entry] = "Restored" => fs[Rows[i].source] = Rows[i].identity
    /\ outcome = "RolledBack" => \A e \in Entries : states[e] = "Restored"
    /\ outcome = "Completed" => \A e \in Entries : states[e] = "Applied"

(***************************************************************************)
(* A plan whose cancellation won against begin_transaction left no Intent  *)
(* on disk and moved nothing.                                              *)
(***************************************************************************)
RefusalLeavesNothing ==
  (pc = "Report" /\ outcome = "Refused") =>
    /\ ~journal.intent /\ leaf = "Candidate" /\ MayDelete
    /\ ~disturbed => OwnEntriesAt(Occ[0]) \/ OwnEntriesAt(Occ[StepCount])

(***************************************************************************)
(* The capacity check made before begin is enough: the executor never      *)
(* meets the frame limit, whatever path it takes.                          *)
(***************************************************************************)
ExecutorNeverFull ==
  pc \in {"Intent", "Step", "NotApplied", "Complete",
          "RbStep", "RbNotApplied", "RbComplete"} => frames < MaxFrames

(***************************************************************************)
(* What a batch leaves behind is what it says: all or nothing once it is   *)
(* settled, a true report, nothing at all after a refusal, and room in the *)
(* journal for every record the executor may still need.                   *)
(***************************************************************************)
OutcomesHonest ==
  AllOrNothing /\ ReportTruthful /\ RefusalLeavesNothing /\ ExecutorNeverFull

(***************************************************************************)
(* Write-ahead: the program moves an entry only when the active journal    *)
(* holds, durably and unpoisoned, the Prepared record of that very step    *)
(* and direction.                                                          *)
(***************************************************************************)
PreparedOnDisk(s) ==
  \/ /\ journal.forward_prepared # NoStep
     /\ s = Steps[journal.forward_prepared]
  \/ /\ journal.rollback_prepared # NoStep
     /\ s = Reverse(Steps[journal.rollback_prepared])

WriteAheadStep ==
  (pc' # pc /\ fs' # fs) =>
    /\ leaf = "Active" /\ phase = "Active" /\ ~poisoned /\ ~torn
    /\ \E i \in StepNumber : \E s \in {Steps[i], Reverse(Steps[i])} :
         PreparedOnDisk(s) /\ fs' = ApplyStep(fs, s)

WriteAhead == [][WriteAheadStep]_vars

(***************************************************************************)
(* The transaction implements the atomic batch.  The batch is under way    *)
(* while an active journal has no terminal record, and has turned back     *)
(* once the journal shows a rollback; promotion begins it and the terminal *)
(* record settles it, whatever crashes, restarts and recoveries lie        *)
(* between the two.                                                        *)
(***************************************************************************)
OwnOccupancy == [k \in Keys |-> IF fs[k] \in Identities THEN fs[k] ELSE None]

BatchStatus ==
  IF disturbed THEN "Disturbed"
  ELSE IF leaf # "Active" \/ journal.terminal # "None" THEN "Settled"
  ELSE IF journal.rollback_started THEN "Undo"
  ELSE "Forward"

Batch == INSTANCE AtomicBatch WITH occ <- OwnOccupancy, status <- BatchStatus

ImplementsAtomicBatch == Batch!Spec

(***************************************************************************)
(* No step of the program changes a key that holds a file of others, and   *)
(* no file of the plan lands on another one.                               *)
(***************************************************************************)
ForeignFilesUntouched ==
  pc' # pc => \A k \in Keys : fs[k] = Foreign => fs'[k] = Foreign

(***************************************************************************)
(* After an append or a rename whose result is uncertain, this process     *)
(* neither writes the journal nor moves a file again; only the next        *)
(* process does.                                                           *)
(***************************************************************************)
Uncertain == poisoned \/ outcome = "RecoveryRequired"

UncertaintyFreezes ==
  (Uncertain /\ pc' # pc) => UNCHANGED <<fs, leaf, journal, frames, torn>>

(***************************************************************************)
(* A durable Committed record is final: the entries stay at their          *)
(* destinations and the record is there until the file is removed.         *)
(***************************************************************************)
CommitIsFinal ==
  (journal.terminal = "Committed" /\ pc' # pc) =>
     UNCHANGED fs /\ (journal' = journal \/ leaf' = "Absent")

(***************************************************************************)
(* What a step of the program may never do to the directories and to the   *)
(* journal: touch a file of others, act on an uncertain result, undo or    *)
(* repeat a committed batch.                                               *)
(***************************************************************************)
StepsGuarded ==
  [][ForeignFilesUntouched /\ UncertaintyFreezes /\ CommitIsFinal]_vars

(***************************************************************************)
(* If other processes leave the plan's entries alone and eventually leave  *)
(* no file of theirs on its keys, every active journal is eventually       *)
(* resolved and removed, unless crashes and failures in recovery filled it *)
(* to MAX_JOURNAL_FRAMES.                                                  *)
(***************************************************************************)
NoForeign == \A k \in Keys : fs[k] # Foreign

ActiveJournalResolved ==
  (<>[](~disturbed /\ NoForeign) /\ [](frames < MaxFrames)) =>
    (leaf = "Active" ~> leaf = "Absent")

-----------------------------------------------------------------------------
(***************************************************************************)
(* The inductive invariant of the rename transaction: what the journal     *)
(* looks like, and how the program's place relates to it.                  *)
(***************************************************************************)
(***************************************************************************)
(* A stream that strict replay accepts has applied the steps 1..m in order *)
(* and reversed the steps m..r+1, so that 1..r remain applied; at most one *)
(* step is in doubt, the next one forward or the last one remaining.       *)
(***************************************************************************)
Shape(st, m, r) ==
  /\ st \in ReplayState
  /\ ~st.corrupt
  /\ m \in 0..StepCount /\ r \in 0..m
  /\ st.completed_forward = 1..m
  /\ st.completed_rollback = (r + 1)..m
  /\ ~st.rollback_started =>
       r = m /\ st.rollback_prepared = NoStep /\ st.next_forward = m + 1
  /\ st.forward_prepared # NoStep =>
       ~st.rollback_started /\ st.forward_prepared = m + 1
  /\ st.rollback_prepared # NoStep =>
       st.rollback_started /\ st.rollback_prepared = r
  /\ st.terminal # "None" => NothingPrepared(st)
  /\ st.terminal = "Committed" => m = StepCount /\ r = m
  /\ st.terminal = "RolledBack" => r = 0
  /\ ~st.intent => st = EmptyReplay

Shaped(st) == \E m, r \in 0..StepCount : Shape(st, m, r)

IntentOnly == [EmptyReplay EXCEPT !.intent = TRUE]

(***************************************************************************)
(* The journal holds r applied steps, the transaction is not terminated,   *)
(* and the steps in doubt are fp (forward) and rp (rollback).              *)
(***************************************************************************)
Doubt(fp, rp) ==
  /\ journal.intent
  /\ journal.terminal = "None"
  /\ journal.forward_prepared = fp
  /\ journal.rollback_prepared = rp

Applied(r) == \E m \in 0..StepCount : Shape(journal, m, r)

(***************************************************************************)
(* The file's name says how much of a stream it can hold.                  *)
(***************************************************************************)
NameTellsContent ==
  /\ leaf = "Absent" => journal = EmptyReplay /\ frames = 0 /\ ~torn
  /\ leaf = "Candidate" => journal \in {EmptyReplay, IntentOnly} /\ frames <= 1
  /\ leaf = "Active" => journal.intent
  /\ phase = "Candidate" => leaf = "Candidate"
  /\ phase = "Active" => leaf = "Active"
  /\ poisoned => pc \in {"Report", "Locked"}

InCandidate ==
  leaf = "Candidate" /\ phase = "Candidate" /\ ~poisoned /\ ~torn

InActive == leaf = "Active" /\ phase = "Active" /\ ~poisoned

PreIntentPc == {"Freeze", "Begin", "Intent"}

ForwardInDoubtPc == {"Rename", "NotApplied", "Complete"}

RollbackInDoubtPc == {"RbRename", "RbNotApplied", "RbComplete"}

ReverseInDoubtPc == {"RvRename", "RvNotApplied", "RvComplete"}

(***************************************************************************)
(* Where the program is tells what the journal on disk holds.              *)
(***************************************************************************)
PlaceTellsJournal ==
  /\ pc \in {"Down", "Idle", "Create"} => phase = "Closed"
  /\ pc \in {"Idle", "Create"} => leaf = "Absent"
  /\ pc \in {"Create", "Freeze"} => at \in 1..(RowCount + 1)
  /\ pc \in PreIntentPc => InCandidate /\ journal = EmptyReplay /\ frames = 0
  /\ pc = "Promote" => InCandidate /\ journal = IntentOnly
  /\ pc = "Step" =>
       /\ InActive /\ ~torn /\ at \in 1..(StepCount + 1)
       /\ Doubt(NoStep, NoStep) /\ ~journal.rollback_started
       /\ Shape(journal, at - 1, at - 1)
  /\ pc \in ForwardInDoubtPc =>
       /\ InActive /\ ~torn /\ at \in StepNumber
       /\ Doubt(at, NoStep) /\ Shape(journal, at - 1, at - 1)
  /\ pc = "RbStep" =>
       /\ InActive /\ ~torn /\ at \in 0..StepCount
       /\ Doubt(NoStep, NoStep) /\ Applied(at)
  /\ pc \in RollbackInDoubtPc =>
       /\ InActive /\ ~torn /\ at \in StepNumber
       /\ Doubt(NoStep, at) /\ Applied(at)
  /\ pc = "Report" /\ outcome = "Refused" =>
       InCandidate /\ journal = EmptyReplay
  /\ pc \in {"Confirm", "RvStart", "RvCleanup"} => InActive
  /\ pc = "RvStep" => InActive /\ Doubt(NoStep, NoStep)
  /\ pc \in ReverseInDoubtPc =>
       /\ InActive /\ ~torn /\ at \in StepNumber
       /\ Doubt(NoStep, at) /\ Applied(at)

(***************************************************************************)
(* The conjunction is preserved by every step of the program, a crash or   *)
(* another process, which is what makes JournalAlwaysReadable and          *)
(* WriteAhead hold for plans of every size.                                *)
(***************************************************************************)
ControlInv ==
  TypeOK /\ Shaped(journal) /\ NameTellsContent /\ PlaceTellsJournal

-----------------------------------------------------------------------------
(***************************************************************************)
(* The inductive invariant of the directories: how far the plan's own      *)
(* entries have come, as far as the journal and the program's place tell.  *)
(***************************************************************************)
Position(j) == OwnEntriesAt(Occ[j])

\* How many steps may be in effect: the ones that remain applied, or one more
\* or one less when a step is in doubt.
Readings(st) ==
  {LastRemaining(st)}
  \cup (IF st.forward_prepared = NoStep THEN {} ELSE {st.forward_prepared})
  \cup (IF st.rollback_prepared = NoStep THEN {} ELSE {st.rollback_prepared - 1})

FileTellsDisk ==
  IF leaf = "Active" THEN \E j \in Readings(journal) : Position(j)
  ELSE Position(0) \/ Position(StepCount)

\* What is left of RowIsFresh once other processes may have put their files there.
RowStays(row) == fs[row.source] = row.identity /\ OwnEntryAt(Occ[0], row.destination)

PlaceTellsDisk ==
  /\ pc \in {"Create", "Freeze"} => \A i \in 1..(at - 1) : RowStays(Rows[i])
  /\ pc \in {"Begin", "Intent", "Promote"} => Position(0)
  /\ pc \in {"Rename", "NotApplied", "RbComplete", "RvComplete"} => Position(at - 1)
  /\ pc \in {"Complete", "RbRename", "RbNotApplied", "RvRename", "RvNotApplied"} => Position(at)

DiskInv == ~disturbed => FileTellsDisk /\ PlaceTellsDisk

(***************************************************************************)
(* What the report knows of each entry while the executor runs, and that   *)
(* it is true of the disk once the executor has returned it.               *)
(***************************************************************************)
StatesAre(n) == \A e \in Entries : states[e] = EntryProgress(n, e)

StatesInv ==
  /\ pc \in {"Create", "Freeze", "Begin", "Intent", "Promote"} => StatesAre(0)
  /\ pc \in {"Step", "Rename", "NotApplied", "RbComplete"} => StatesAre(at - 1)
  /\ pc \in {"Complete", "RbStep", "RbRename"} => StatesAre(at)
  /\ pc = "RbNotApplied" =>
       \A e \in Entries :
         states[e] = IF e = Steps[at].entry THEN "Indeterminate" ELSE EntryProgress(at, e)
  /\ ReportTruthful

(***************************************************************************)
(* The frames written so far: two for each step taken, then at most two    *)
(* for each step to reverse, so the terminal record always has a place.    *)
(***************************************************************************)
FrameBudget ==
  /\ pc = "Promote" => frames = 1
  /\ pc = "Step" => frames = 2 * at - 1
  /\ pc \in ForwardInDoubtPc => frames = 2 * at
  /\ pc = "RbStep" => frames <= 4 * StepCount + 1 - 2 * at
  /\ pc \in RollbackInDoubtPc => frames <= 4 * StepCount + 2 - 2 * at

\* A process that has reported an uncertain result runs no further.
UncertainRests == outcome = "RecoveryRequired" => pc \in {"Report", "Locked"}

TransactionInv == ControlInv /\ DiskInv /\ StatesInv /\ FrameBudget /\ UncertainRests
=============================================================================
