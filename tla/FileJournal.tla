----------------------------- MODULE FileJournal -----------------------------
(***************************************************************************)
(* The durable journal file (rename/file_journal.rs): its name on disk,    *)
(* its complete frames, a possible torn final frame, and the one open      *)
(* capability on it.                                                       *)
(*                                                                         *)
(* `journal' is the replay state of the complete frames on disk.  The      *)
(* records kept in memory equal them except after a failed append, and     *)
(* then the capability is poisoned and never read again.                   *)
(***************************************************************************)
EXTENDS Journal

-----------------------------------------------------------------------------
(***************************************************************************)
(* The directory entries a transaction touches, the no-replace rename the  *)
(* backend performs on them, and the other processes of the machine.       *)
(*                                                                         *)
(* Every failure that the program does not cause itself (a refused or      *)
(* unconfirmed system call, a crash, another process's interference)       *)
(* spends one unit of a budget, so that a behaviour has finitely many.     *)
(***************************************************************************)
CONSTANT MaxFaults   \* bound on the failures of one behaviour

ASSUME MaxFaultsAssumption == MaxFaults \in Nat

VARIABLES
  fs,         \* fs[k]: what the directory holds at key k
  disturbed,  \* another process has touched one of the plan's own entries
  faults      \* failures so far

fsVars == <<fs, disturbed, faults>>

FsTypeOK ==
  /\ fs \in [Keys -> Occupant]
  /\ disturbed \in BOOLEAN
  /\ faults \in 0..MaxFaults

FsInit ==
  /\ fs = Occ[0]
  /\ disturbed = FALSE
  /\ faults = 0

Fault == faults < MaxFaults /\ faults' = faults + 1

NoFault == UNCHANGED faults

(***************************************************************************)
(* rename_no_replace(s).  The source is opened and identified, the         *)
(* destination must be free, and only then is the native rename issued.    *)
(* "Ok": applied and confirmed.  "NotApplied": a check or the native call  *)
(* refused; nothing moved.  "MayHaveApplied": the confirmation after the   *)
(* native call failed, and the caller is not told whether the entry moved. *)
(***************************************************************************)
RenameOkKeepsSource(s) ==   \* mutant: links the new name, keeps the old one
  /\ Movable(fs, s)
  /\ fs' = [fs EXCEPT ![s.destination] = s.identity]
  /\ NoFault
  /\ UNCHANGED disturbed

RenameOk(s) ==
  /\ Movable(fs, s)
  /\ fs' = ApplyStep(fs, s)
  /\ NoFault
  /\ UNCHANGED disturbed

RenameNotApplied(s) ==
  /\ IF Movable(fs, s) THEN Fault ELSE NoFault
  /\ UNCHANGED <<fs, disturbed>>

RenameMayHaveApplied(s) ==
  /\ Movable(fs, s)
  /\ fs' \in {fs, ApplyStep(fs, s)}
  /\ Fault
  /\ UNCHANGED disturbed

(***************************************************************************)
(* Another process creates, deletes, replaces or links something at k.     *)
(***************************************************************************)
Interfere(k, x) ==
  /\ x # fs[k]
  /\ fs' = [fs EXCEPT ![k] = x]
  /\ disturbed' = (disturbed \/ fs[k] \in Identities \/ x \in Identities)
  /\ Fault

(***************************************************************************)
(* The plan's own entries lie where occupancy o says, whatever foreign     *)
(* files occupy the keys that o leaves free.                               *)
(***************************************************************************)
OwnEntryAt(o, k) == IF o[k] = None THEN fs[k] \notin Identities ELSE fs[k] = o[k]

OwnEntriesAt(o) == \A k \in Keys : OwnEntryAt(o, k)

-----------------------------------------------------------------------------
CONSTANT MaxFrames   \* MAX_JOURNAL_FRAMES

\* journal_requirements refuses a manifest longer than MAX_JOURNAL_STEPS, and
\* MAX_JOURNAL_FRAMES is four frames for each of those steps and four more.
ASSUME MaxFramesAssumption ==
  MaxFrames \in Nat /\ MaxFrames >= 4 * StepCount + 4

VARIABLES
  leaf,      \* name the file has: "Absent", "Candidate" or "Active"
  journal,   \* replay state of its complete frames
  frames,    \* number of complete frames
  torn,      \* the file ends in an incomplete frame
  phase,     \* FileJournalPhase of the capability, "Closed" when there is none
  poisoned   \* the capability no longer knows what the file holds

journalVars == <<leaf, journal, frames, torn, phase, poisoned>>

JournalTypeOK ==
  /\ leaf \in {"Absent", "Candidate", "Active"}
  /\ journal \in ReplayState
  /\ frames \in 0..MaxFrames
  /\ torn \in BOOLEAN
  /\ phase \in {"Closed", "Candidate", "Active", "PromotionUncertain"}
  /\ poisoned \in BOOLEAN

JournalInit ==
  /\ leaf = "Absent"
  /\ journal = EmptyReplay
  /\ frames = 0
  /\ torn = FALSE
  /\ phase = "Closed"
  /\ poisoned = FALSE

-----------------------------------------------------------------------------
(***************************************************************************)
(* append.  The three outcomes a caller can be told, each with its effect. *)
(* An uncertain append may have left no byte, a torn frame or the whole    *)
(* frame on disk.  A refusal without effect comes from the frame limit, or *)
(* from any other cause the JournalStore port allows (a fault here).       *)
(***************************************************************************)
RoomLeft == frames < MaxFrames

AppendOk(r) ==
  /\ ~poisoned /\ ~torn /\ RoomLeft
  /\ journal' = ReplayStep(journal, r)
  /\ frames' = frames + 1
  /\ NoFault
  /\ UNCHANGED <<leaf, torn, phase, poisoned>>

AppendNotAppended ==
  /\ ~poisoned
  /\ IF torn \/ ~RoomLeft THEN NoFault ELSE Fault
  /\ UNCHANGED journalVars

AppendMayHaveAppended(r) ==
  /\ ~poisoned /\ ~torn /\ RoomLeft
  /\ poisoned' = TRUE
  /\ \/ UNCHANGED <<journal, frames, torn>>
     \/ torn' = TRUE /\ UNCHANGED <<journal, frames>>
     \/ /\ journal' = ReplayStep(journal, r)
        /\ frames' = frames + 1
        /\ UNCHANGED torn
  /\ Fault
  /\ UNCHANGED <<leaf, phase>>

(***************************************************************************)
(* authorized_append truncates a torn final frame first; the truncation    *)
(* may fail on its own.  The generation check of the code compares the     *)
(* capability with itself: recovery is its only holder.                    *)
(***************************************************************************)
AuthorizedAppendOk(r) ==
  /\ ~poisoned /\ phase = "Active" /\ RoomLeft
  /\ torn' = FALSE
  /\ journal' = ReplayStep(journal, r)
  /\ frames' = frames + 1
  /\ NoFault
  /\ UNCHANGED <<leaf, phase, poisoned>>

AuthorizedAppendNotAppended ==
  /\ ~poisoned /\ phase = "Active"
  /\ torn' = FALSE
  /\ IF ~RoomLeft THEN NoFault ELSE Fault
  /\ UNCHANGED <<leaf, journal, frames, phase, poisoned>>

AuthorizedAppendMayHaveAppended(r) ==
  /\ ~poisoned /\ phase = "Active"
  /\ poisoned' = TRUE
  /\ \/ torn /\ torn' \in BOOLEAN /\ UNCHANGED <<journal, frames>>
     \/ ~torn /\ RoomLeft /\ torn' \in BOOLEAN /\ UNCHANGED <<journal, frames>>
     \/ /\ RoomLeft
        /\ torn' = FALSE
        /\ journal' = ReplayStep(journal, r)
        /\ frames' = frames + 1
  /\ Fault
  /\ UNCHANGED <<leaf, phase>>

(***************************************************************************)
(* The file and its name: creation as a candidate, the atomic promotion to *)
(* the active name, the removal of a file that holds nothing to recover.   *)
(***************************************************************************)
CreateCandidate ==
  /\ leaf = "Absent"
  /\ leaf' = "Candidate"
  /\ phase' = "Candidate"
  /\ journal' = EmptyReplay
  /\ frames' = 0
  /\ torn' = FALSE
  /\ poisoned' = FALSE

PromoteOkUnnamed ==   \* mutant: the file keeps its candidate name
  /\ phase' = "Active"
  /\ NoFault
  /\ UNCHANGED <<leaf, journal, frames, torn, poisoned>>

PromoteOk ==
  /\ leaf' = "Active"
  /\ phase' = "Active"
  /\ NoFault
  /\ UNCHANGED <<journal, frames, torn, poisoned>>

PromoteUncertain ==
  /\ leaf' \in {"Candidate", "Active"}
  /\ phase' = "PromotionUncertain"
  /\ poisoned' = TRUE
  /\ Fault
  /\ UNCHANGED <<journal, frames, torn>>

IsPhysicallyEmptyCandidate ==
  phase = "Candidate" /\ ~poisoned /\ ~journal.intent /\ ~torn

IsCompleteIntentCandidate ==
  /\ phase = "Candidate" /\ ~poisoned /\ ~torn
  /\ journal.intent /\ frames = 1

(***************************************************************************)
(* cleanup_decision and mark_delete_if_safe together.                      *)
(***************************************************************************)
MayDelete ==
  /\ ~poisoned
  /\ \/ phase = "Active" /\ ~torn /\ Clean(journal)
     \/ IsPhysicallyEmptyCandidate

Remove ==
  /\ leaf' = "Absent"
  /\ phase' = "Closed"
  /\ journal' = EmptyReplay
  /\ frames' = 0
  /\ torn' = FALSE
  /\ poisoned' = FALSE

(***************************************************************************)
(* The handle goes away with the process; the file stays.                  *)
(***************************************************************************)
CloseHandle ==
  /\ phase' = "Closed"
  /\ poisoned' = FALSE
  /\ UNCHANGED <<leaf, journal, frames, torn>>

(***************************************************************************)
(* open_existing_retained refuses a stream whose first frame is torn or    *)
(* that strict replay rejects; the candidate name admits nothing beyond    *)
(* the Intent.                                                             *)
(***************************************************************************)
ReadableUntorn == ~journal.corrupt /\ ~torn   \* mutant

Readable == ~journal.corrupt /\ (torn => journal.intent)

ReadableCandidate == Readable /\ frames <= 1
=============================================================================
