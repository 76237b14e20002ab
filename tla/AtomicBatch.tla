----------------------------- MODULE AtomicBatch -----------------------------
(***************************************************************************)
(* What the rename transaction promises, without a journal, a process or a *)
(* failure in sight: the batch is either settled, with every file at its   *)
(* old name or every file at its new name, or it is under way.  Under way, *)
(* files move one step of the schedule at a time, forward until something  *)
(* makes the batch turn back, and from then on only backward.              *)
(*                                                                         *)
(* The promise ends when another process touches a file of the batch.      *)
(***************************************************************************)
EXTENDS Journal

VARIABLES
  occ,     \* where the files of the batch are
  status   \* "Settled", "Forward", "Undo" or "Disturbed"

Init == occ = Occ[0] /\ status = "Settled"

Begin ==
  /\ status = "Settled" /\ occ = Occ[0]
  /\ status' = "Forward" /\ UNCHANGED occ

MoveForward ==
  /\ status = "Forward"
  /\ \E i \in 1..StepCount : occ = Occ[i - 1] /\ occ' = Occ[i]
  /\ UNCHANGED status

TurnBack ==
  /\ status = "Forward"
  /\ status' = "Undo" /\ UNCHANGED occ

MoveBack ==
  /\ status = "Undo"
  /\ \E i \in 1..StepCount : occ = Occ[i] /\ occ' = Occ[i - 1]
  /\ UNCHANGED status

Commit ==
  /\ status = "Forward" /\ occ = Occ[StepCount]
  /\ status' = "Settled" /\ UNCHANGED occ

Restore ==
  /\ status \in {"Forward", "Undo"} /\ occ = Occ[0]
  /\ status' = "Settled" /\ UNCHANGED occ

Disturb ==
  /\ status' = "Disturbed"
  /\ occ' \in [Keys -> Identities \cup {None}]

Next ==
  \/ Begin \/ MoveForward \/ TurnBack \/ MoveBack \/ Commit \/ Restore
  \/ Disturb

Spec == Init /\ [][Next]_<<occ, status>>
=============================================================================
