------------------------------- MODULE Journal -------------------------------
(***************************************************************************)
(* Strict replay of the journal's records (rename/journal.rs).             *)
(*                                                                         *)
(* The code replays a whole record vector each time.  Replay is a left     *)
(* fold, so a journal is represented here by the state the fold has        *)
(* reached, and appending a record is one application of ReplayStep.       *)
(* Module JournalReplay keeps the records themselves.                      *)
(***************************************************************************)
EXTENDS Integers, Sequences

-----------------------------------------------------------------------------
(***************************************************************************)
(* The immutable data of one rename transaction: the planned rows, the     *)
(* primitive steps the schedule derived from them (the Intent record of    *)
(* the journal), and what the directory entries touched by those steps     *)
(* hold after each prefix of the steps.                                    *)
(*                                                                         *)
(* An entry is a row of the list.  Its identity is what the filesystem     *)
(* reports for the file: two rows that are hard links of one file share    *)
(* it.  A key stands for a (parent directory, folded leaf) pair, the       *)
(* PathKey of the code.  Steps are numbered from 1 here and from 0 in the  *)
(* code.                                                                   *)
(***************************************************************************)
CONSTANTS
  Entries,    \* EntryIds of the rows being renamed
  Identities, \* filesystem identities of their files and directories
  Keys,       \* directory entries named by the steps
  None,       \* no file at a key
  Foreign,    \* a file or directory that is not part of the plan
  RowCount,   \* number of planned rows
  Rows,       \* planned rows: [entry, identity, source, destination]
  StepCount,  \* number of primitive steps
  Steps,      \* primitive steps: [entry, identity, source, destination, phase]
  Occ         \* Occ[i]: occupancy of the keys after the first i steps

TemporaryPhase == {"None", "IntoTemporary", "FromTemporary"}

Row == [entry : Entries, identity : Identities,
        source : Keys, destination : Keys]

Step == [entry : Entries, identity : Identities,
         source : Keys, destination : Keys, phase : TemporaryPhase]

Occupant == Identities \cup {None, Foreign}

(***************************************************************************)
(* What the journal's manifest says the keys held before the first step:   *)
(* the first step of each entry starts at the entry's source, and every    *)
(* other key is free.                                                      *)
(***************************************************************************)
FirstStepAt(i, k) ==
  /\ Steps[i].source = k
  /\ \A j \in 1..(i - 1) : Steps[j].entry # Steps[i].entry

InitialOccupancy ==
  [k \in Keys |->
     IF \E i \in 1..StepCount : FirstStepAt(i, k)
     THEN Steps[CHOOSE i \in 1..StepCount : FirstStepAt(i, k)].identity
     ELSE None]

(***************************************************************************)
(* One primitive move on an occupancy, and the reverse of a step.          *)
(***************************************************************************)
Movable(occ, s) == occ[s.source] = s.identity /\ occ[s.destination] = None

ApplyStep(occ, s) ==
  [occ EXCEPT ![s.source] = None, ![s.destination] = s.identity]

Reverse(s) ==
  [entry |-> s.entry, identity |-> s.identity,
   source |-> s.destination, destination |-> s.source, phase |-> s.phase]

(***************************************************************************)
(* What the first n steps have done to the row of entry e, in the terms of *)
(* the execution report (forward_state): a row in the middle of its detour *)
(* over a temporary name is at neither end.                                *)
(***************************************************************************)
EntryProgress(n, e) ==
  IF \E i \in 1..n : Steps[i].entry = e /\ Steps[i].phase # "IntoTemporary" THEN "Applied"
  ELSE IF \E i \in 1..n : Steps[i].entry = e THEN "Indeterminate"
  ELSE "Restored"

(***************************************************************************)
(* What the planner and the schedule guarantee of their output.  Module    *)
(* Schedule checks, for every small plan, that the steps the code derives  *)
(* satisfy ValidSteps, ValidOcc and ValidRows.                             *)
(***************************************************************************)
ValidSteps ==
  /\ StepCount \in Nat \ {0}
  /\ Steps \in [1..StepCount -> Step]
  /\ \A i \in 1..StepCount : Steps[i].source # Steps[i].destination

ValidOcc ==
  /\ Occ \in [0..StepCount -> [Keys -> Identities \cup {None}]]
  /\ Occ[0] = InitialOccupancy
  /\ \A i \in 1..StepCount :
       /\ Movable(Occ[i - 1], Steps[i])
       /\ Occ[i] = ApplyStep(Occ[i - 1], Steps[i])

\* A row has one step, or one into and one from a temporary name in this order.
PhasesPaired ==
  \A i \in 1..StepCount :
    IF Steps[i].phase = "FromTemporary"
    THEN /\ \E j \in 1..(i - 1) : Steps[j].entry = Steps[i].entry
         /\ \A j \in 1..(i - 1) :
              Steps[j].entry = Steps[i].entry => Steps[j].phase = "IntoTemporary"
    ELSE \A j \in 1..(i - 1) : Steps[j].entry # Steps[i].entry

\* The steps carry out the rows: a row's file is at its source until its first
\* step and at its destination from its last, and nothing else is moved.
ValidRows ==
  /\ PhasesPaired
  /\ \A e \in Entries : EntryProgress(StepCount, e) = "Applied"
  /\ \A i \in 1..RowCount, n \in 0..StepCount :
       /\ EntryProgress(n, Rows[i].entry) = "Applied" =>
            Occ[n][Rows[i].destination] = Rows[i].identity
       /\ EntryProgress(n, Rows[i].entry) = "Restored" =>
            Occ[n][Rows[i].source] = Rows[i].identity
  /\ \A k \in Keys :
       /\ Occ[0][k] # None => \E i \in 1..RowCount : Rows[i].source = k
       /\ Occ[StepCount][k] # None => \E i \in 1..RowCount : Rows[i].destination = k

ASSUME NamesAssumption ==
  /\ None # Foreign
  /\ None \notin Identities
  /\ Foreign \notin Identities

ASSUME RowsAssumption ==
  /\ RowCount \in Nat \ {0}
  /\ Rows \in [1..RowCount -> Row]

ASSUME StepsAssumption == ValidSteps

ASSUME OccAssumption == ValidOcc

ASSUME ProgressAssumption == ValidRows

-----------------------------------------------------------------------------
NoStep == 0

StepNumber == 1..StepCount

Direction == {"Forward", "Rollback"}

(***************************************************************************)
(* The records.  The Intent carries the manifest, which is constant here.  *)
(***************************************************************************)
Intent           == [kind |-> "Intent", step |-> NoStep, tag |-> "Intent"]
Prepared(s, d)   == [kind |-> "Prepared", step |-> s, tag |-> d]
Completed(s, d)  == [kind |-> "Completed", step |-> s, tag |-> d]
NotApplied(s, d) == [kind |-> "NotApplied", step |-> s, tag |-> d]
Terminal(t)      == [kind |-> "Terminal", step |-> NoStep, tag |-> t]

ReplayState ==
  [intent             : BOOLEAN,
   forward_prepared   : {NoStep} \cup StepNumber,
   rollback_prepared  : {NoStep} \cup StepNumber,
   next_forward       : 1..(StepCount + 1),
   completed_forward  : SUBSET StepNumber,
   completed_rollback : SUBSET StepNumber,
   rollback_started   : BOOLEAN,
   terminal           : {"None", "Committed", "RolledBack"},
   corrupt            : BOOLEAN]

EmptyReplay ==
  [intent             |-> FALSE,
   forward_prepared   |-> NoStep,
   rollback_prepared  |-> NoStep,
   next_forward       |-> 1,
   completed_forward  |-> {},
   completed_rollback |-> {},
   rollback_started   |-> FALSE,
   terminal           |-> "None",
   corrupt            |-> FALSE]

(***************************************************************************)
(* The steps applied and not yet reversed, and the one to reverse next     *)
(* (NoStep when nothing is left to reverse).                               *)
(***************************************************************************)
Remaining(st) == st.completed_forward \ st.completed_rollback

LastRemaining(st) ==
  IF Remaining(st) = {} THEN NoStep
  ELSE CHOOSE i \in Remaining(st) : \A j \in Remaining(st) : j <= i

NothingPrepared(st) ==
  st.forward_prepared = NoStep /\ st.rollback_prepared = NoStep

(***************************************************************************)
(* The transition each record makes; ReplayStep rejects a record that has  *)
(* none.  A rejected stream stays rejected.                                *)
(***************************************************************************)
MayPrepare(st, s, d) ==
  CASE d = "Forward" ->
         /\ ~st.rollback_started
         /\ st.forward_prepared = NoStep
         /\ s = st.next_forward
    [] d = "Rollback" ->
         /\ NothingPrepared(st)
         /\ s = LastRemaining(st)

WasPrepared(st, s, d) ==
  s = IF d = "Forward" THEN st.forward_prepared ELSE st.rollback_prepared

MayTerminate(st, t) ==
  /\ NothingPrepared(st)
  /\ IF t = "Committed"
     THEN st.completed_forward = StepNumber /\ st.completed_rollback = {}
     ELSE st.completed_forward = st.completed_rollback

Accepts(st, r) ==
  /\ ~st.corrupt
  /\ st.terminal = "None"
  /\ IF r.kind = "Intent" THEN ~st.intent
     ELSE /\ st.intent
          /\ IF r.kind = "Terminal" THEN MayTerminate(st, r.tag)
             ELSE /\ r.step \in StepNumber
                  /\ IF r.kind = "Prepared" THEN MayPrepare(st, r.step, r.tag)
                     ELSE WasPrepared(st, r.step, r.tag)

AfterPrepared(st, s, d) ==
  IF d = "Forward"
  THEN [st EXCEPT !.forward_prepared = s]
  ELSE [st EXCEPT !.rollback_prepared = s, !.rollback_started = TRUE]

AfterCompleted(st, s, d) ==
  IF d = "Forward"
  THEN [st EXCEPT !.forward_prepared = NoStep, !.next_forward = @ + 1,
                  !.completed_forward = @ \cup {s}]
  ELSE [st EXCEPT !.rollback_prepared = NoStep,
                  !.completed_rollback = @ \cup {s}]

AfterNotApplied(st, d) ==
  IF d = "Forward"
  THEN [st EXCEPT !.forward_prepared = NoStep, !.next_forward = @ + 1,
                  !.rollback_started = TRUE]
  ELSE [st EXCEPT !.rollback_prepared = NoStep]

ReplayStep(st, r) ==
  IF ~Accepts(st, r) THEN [st EXCEPT !.corrupt = TRUE]
  ELSE CASE r.kind = "Intent"     -> [st EXCEPT !.intent = TRUE]
         [] r.kind = "Prepared"   -> AfterPrepared(st, r.step, r.tag)
         [] r.kind = "Completed"  -> AfterCompleted(st, r.step, r.tag)
         [] r.kind = "NotApplied" -> AfterNotApplied(st, r.tag)
         [] r.kind = "Terminal"   -> [st EXCEPT !.terminal = r.tag]

(***************************************************************************)
(* RecoveryState::Clean: no record at all, or a valid terminal record.     *)
(***************************************************************************)
CleanOnlyEmpty(st) == ~st.corrupt /\ ~st.intent   \* mutant

Clean(st) == ~st.corrupt /\ (~st.intent \/ st.terminal # "None")
=============================================================================
