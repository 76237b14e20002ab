----------------------------- MODULE RecoveryUi -----------------------------
(***************************************************************************)
(* What the user can do with the journals an earlier run left behind       *)
(* (windows/recovery_ui.rs): roll the active journal back at startup,      *)
(* discard an Intent that was never activated, export exact copies.  The   *)
(* journals are files held through exclusive handles; another program can  *)
(* put a file under a free journal name and hold it.                       *)
(*                                                                         *)
(* A dialog's session is Workbench's business: here an answer is accepted, *)
(* rejected because the state moved on, or arrives while the window is     *)
(* closing.                                                                *)
(***************************************************************************)
EXTENDS Integers, FiniteSets, TLAPS

CONSTANT MaxForeign   \* files another program creates under a journal name

MaxForeignAssumption == MaxForeign \in Nat

Journals == {"Active", "Candidate"}

Absent    == [records |-> "NoFile", torn |-> FALSE]
Corrupt   == [records |-> "Corrupt", torn |-> FALSE]
Oversized == [records |-> "Oversized", torn |-> FALSE]
Empty     == [records |-> "None", torn |-> FALSE]

\* The last frame of a readable journal may be torn, but not its only one.
Readable == {Empty} \cup [records : {"Intent", "Progress", "Terminal"}, torn : BOOLEAN]

Contents == Readable \cup {Absent, Corrupt, Oversized}

HandleKinds == {"None", "Journal", "Evidence", "Unavailable"}

NoCopy == [of |-> Absent, part |-> "None"]

Copies == {NoCopy} \cup [of : Contents, part : {"Empty", "Partial", "Full"}]

VARIABLES
  file,             \* what is on disk under each journal name
  busy,             \* journal files another program holds open
  handle,           \* active_journal, staged_journal and blocked_journals
  poisoned,         \* journals that accept no further operation
  astray,           \* journals whose append cursor is not at their end
  recovery_locked,
  collision_observed,
  dialog,           \* the open recovery dialog
  started,          \* the startup confirmation is behind us
  close_pending,
  copies,           \* the files of the export directory
  report,           \* what the last export told the user
  foreign           \* files other programs created

vars == <<file, busy, handle, poisoned, astray, recovery_locked, collision_observed,
          dialog, started, close_pending, copies, report, foreign>>

journalVars == <<file, handle, poisoned, astray, recovery_locked, collision_observed>>
exportVars  == <<copies, report>>

TypeOK ==
  /\ file \in [Journals -> Contents]
  /\ busy \in SUBSET Journals
  /\ handle \in [Journals -> HandleKinds]
  /\ \A j \in Journals : handle[j] # "None" => file[j] # Absent
  /\ poisoned \in SUBSET Journals
  /\ astray \in SUBSET Journals
  /\ recovery_locked \in BOOLEAN
  /\ collision_observed \in BOOLEAN
  /\ dialog \in {"None", "Recover", "CleanUp", "Discard", "Rediscover", "Export"}
  /\ started \in BOOLEAN
  /\ close_pending \in BOOLEAN
  /\ copies \in [Journals \X {"Journal", "Evidence"} -> Copies]
  /\ report \in {"None", "Complete", "Partial"}
  /\ foreign \in 0..MaxForeign

-----------------------------------------------------------------------------
(***************************************************************************)
(* open_existing_retained and open_candidate_existing_retained: a file     *)
(* that opens is a journal, or evidence when its content is unsuitable; a  *)
(* file that does not open is unavailable.                                 *)
(***************************************************************************)
OpenRetained(j) ==
  CASE file[j] = Absent                                  -> "None"
    [] file[j] # Absent /\ j \in busy                    -> "Unavailable"
    [] file[j] # Absent /\ j \notin busy
         /\ file[j] \in Readable
         /\ (j = "Candidate" => file[j].records \in {"None", "Intent"}) -> "Journal"
    [] OTHER                                             -> "Evidence"

Discovered == [j \in Journals |-> OpenRetained(j)]

Observed(h) == {j \in Journals : h[j] # "None"}

is_complete_intent_candidate ==
  /\ handle["Candidate"] = "Journal"
  /\ "Candidate" \notin poisoned
  /\ file["Candidate"] = [records |-> "Intent", torn |-> FALSE]

-----------------------------------------------------------------------------
can_confirm_active_recovery ==
  /\ recovery_locked /\ ~close_pending /\ dialog = "None"
  /\ ~collision_observed
  /\ handle = [j \in Journals |-> IF j = "Active" THEN "Journal" ELSE "None"]

can_discard_staged_intent ==
  /\ recovery_locked /\ ~collision_observed
  /\ handle["Active"] = "None" /\ handle["Candidate"] = "Journal"
  /\ is_complete_intent_candidate

can_export_recovery_journal ==
  \E j \in Journals : handle[j] \in {"Journal", "Evidence"}

\* The lines of show_recovery_status that tell the user what can be done.
show_recovery_status ==
  (IF can_export_recovery_journal THEN {"Export"} ELSE {})
  \cup (IF can_confirm_active_recovery THEN {"Recover"} ELSE {})
  \cup (IF can_discard_staged_intent THEN {"Discard"} ELSE {})

-----------------------------------------------------------------------------
(***************************************************************************)
(* Startup has opened what it found and deleted an empty candidate, or     *)
(* kept it when that failed; a confirmation is due for a lone active       *)
(* journal.                                                                *)
(***************************************************************************)
Init ==
  /\ file \in [Journals -> Contents]
  /\ busy \in SUBSET {j \in Journals : file[j] # Absent}
  /\ handle = Discovered
  /\ poisoned = {} /\ astray = {}
  /\ recovery_locked = (Observed(handle) # {})
  /\ collision_observed = (Observed(handle) = Journals)
  /\ dialog = "None" /\ started = FALSE /\ close_pending = FALSE
  /\ copies = [key \in Journals \X {"Journal", "Evidence"} |-> NoCopy]
  /\ report = "None"
  /\ foreign = 0

Start ==
  /\ ~started /\ started' = TRUE
  /\ dialog' = IF can_confirm_active_recovery THEN "Recover" ELSE "None"
  /\ UNCHANGED <<journalVars, busy, close_pending, exportVars, foreign>>

-----------------------------------------------------------------------------
(***************************************************************************)
(* RenameRecovery::rollback on the retained active journal: the outcome    *)
(* and what it leaves.  A failed append poisons the journal and may leave  *)
(* a torn frame and a cursor behind the last whole one.                    *)
(***************************************************************************)
Unfinished(f) == f.records \in {"Intent", "Progress"}

Rolled(outcome, left, failed, lost) ==
  [outcome |-> outcome, left |-> left, poisoned |-> failed, astray |-> lost]

RollbackResults ==
  LET now == file["Active"]
  IN  IF "Active" \in poisoned THEN {Rolled("Blocked", now, FALSE, FALSE)}
      ELSE IF ~Unfinished(now) THEN {Rolled("NotRequired", now, FALSE, FALSE)}
      ELSE {Rolled("Blocked", now, FALSE, FALSE),
            Rolled("Recovered", [records |-> "Terminal", torn |-> FALSE], FALSE, FALSE),
            Rolled("RecoveryRequired", [records |-> "Progress", torn |-> FALSE], FALSE, FALSE)}
           \cup { Rolled("RecoveryRequired", left, TRUE, lost) :
                    left \in {now} \cup [records : {"Progress", "Terminal"}, torn : BOOLEAN],
                    lost \in BOOLEAN }

(***************************************************************************)
(* confirm_startup_recovery after its dialog: the locks it took are        *)
(* released first, so can_confirm_active_recovery can hold again.  In      *)
(* recover_confirmed_active_journal the rollback comes first and, when it  *)
(* needs nothing more, the cleanup.                                        *)
(***************************************************************************)
AnswerRecover ==
  /\ dialog = "Recover"
  /\ \/ dialog' = "None" /\ UNCHANGED journalVars
     \/ /\ ~close_pending
        /\ \E r \in RollbackResults :
             /\ file' = [file EXCEPT !["Active"] = r.left]
             /\ poisoned' = IF r.poisoned THEN poisoned \cup {"Active"} ELSE poisoned
             /\ astray' = IF r.astray THEN astray \cup {"Active"} ELSE astray
             /\ recovery_locked' = TRUE
             /\ dialog' = IF r.outcome \in {"Recovered", "NotRequired"}
                          THEN "CleanUp" ELSE "None"
        /\ UNCHANGED <<handle, collision_observed>>
  /\ UNCHANGED <<busy, started, close_pending, exportVars, foreign>>

\* mark_delete_if_safe for the active journal.
mark_delete_if_safe ==
  /\ "Active" \notin poisoned
  /\ ~file["Active"].torn
  /\ ~Unfinished(file["Active"])

\* A journal that could not be deleted is retained.
cleanup_file_journal(deleted) == IF deleted THEN "None" ELSE "Journal"

CleanUp ==
  /\ dialog = "CleanUp" /\ dialog' = "None"
  /\ \E deleted \in BOOLEAN :
       /\ deleted => mark_delete_if_safe
       /\ file' = IF deleted THEN [file EXCEPT !["Active"] = Absent] ELSE file
       /\ handle' = [handle EXCEPT !["Active"] = cleanup_file_journal(deleted)]
       /\ recovery_locked' = (~deleted \/ Observed(handle') # {})
  /\ UNCHANGED <<poisoned, astray, collision_observed, busy, started, close_pending,
                 exportVars, foreign>>

-----------------------------------------------------------------------------
OpenDiscard ==
  /\ started /\ dialog = "None" /\ ~close_pending
  /\ can_discard_staged_intent
  /\ dialog' = "Discard"
  /\ UNCHANGED <<journalVars, busy, started, close_pending, exportVars, foreign>>

(***************************************************************************)
(* mark_unactivated_intent_delete probes the active name right before it   *)
(* marks the file; the candidate disappears when its handle is dropped,    *)
(* and both names are opened again.                                        *)
(***************************************************************************)
mark_unactivated_intent_delete ==
  /\ is_complete_intent_candidate
  /\ file["Active"] = Absent

AnswerDiscard ==
  /\ dialog = "Discard"
  /\ \/ dialog' = "None" /\ UNCHANGED journalVars
     \/ /\ ~close_pending /\ can_discard_staged_intent
        /\ \/ /\ mark_unactivated_intent_delete
              /\ file' = [file EXCEPT !["Candidate"] = Absent]
              /\ handle' = [handle EXCEPT !["Candidate"] = "None"]
              /\ dialog' = "Rediscover"
              /\ UNCHANGED <<poisoned, astray, recovery_locked, collision_observed>>
           \/ /\ dialog' = "None"
              /\ recovery_locked' = TRUE
              /\ UNCHANGED <<file, handle, poisoned, astray, collision_observed>>
  /\ UNCHANGED <<busy, started, close_pending, exportVars, foreign>>

\* Mutant: discarding unlocks without looking at the active name again.
rediscover_after_staged_discardBlind ==
  /\ dialog = "Rediscover" /\ dialog' = "None"
  /\ handle' = [j \in Journals |-> IF j = "Active" THEN "None" ELSE OpenRetained(j)]
  /\ recovery_locked' = (Observed(handle') # {})
  /\ collision_observed' = FALSE
  /\ UNCHANGED <<file, poisoned, astray, busy, started, close_pending, exportVars, foreign>>

rediscover_after_staged_discard ==
  /\ dialog = "Rediscover" /\ dialog' = "None"
  /\ handle' = Discovered
  /\ recovery_locked' = (Observed(handle') # {})
  /\ collision_observed' = (Observed(handle') = Journals)
  /\ UNCHANGED <<file, poisoned, astray, busy, started, close_pending, exportVars, foreign>>

-----------------------------------------------------------------------------
prepare_recovery_export ==
  /\ started /\ dialog = "None" /\ ~close_pending
  /\ can_export_recovery_journal
  /\ dialog' = "Export"
  /\ report' = "None"
  /\ UNCHANGED <<journalVars, busy, started, close_pending, copies, foreign>>

Copied(j, part, ok) ==
  [copy |-> [of |-> file[j], part |-> part], ok |-> ok, lost |-> FALSE, poisoned |-> FALSE]

(***************************************************************************)
(* copy_retained_bytes_to_file into a file just created: it may end after  *)
(* any part of its work, and an error leaves what was written.             *)
(***************************************************************************)
copy_retained_bytes_to_file(j) ==
  {Copied(j, "Empty", FALSE)}
  \cup (IF file[j] = Oversized THEN {}
        ELSE {Copied(j, "Partial", FALSE), Copied(j, "Full", FALSE), Copied(j, "Full", TRUE)})

\* Mutant: a cursor that could not be put back is ignored.
copy_exact_withUnpoisoned(j) ==
  IF j \in astray THEN {[Copied(j, "Empty", FALSE) EXCEPT !.poisoned = TRUE]}
  ELSE copy_retained_bytes_to_file(j)
       \cup { [c EXCEPT !.ok = FALSE, !.lost = TRUE] : c \in copy_retained_bytes_to_file(j) }

\* FileJournal::copy_exact_with: the append cursor must be at the end, and
\* back there afterwards, or the journal is poisoned and the copy fails.
copy_exact_with(j) ==
  IF j \in astray THEN {[Copied(j, "Empty", FALSE) EXCEPT !.poisoned = TRUE]}
  ELSE copy_retained_bytes_to_file(j)
       \cup { [c EXCEPT !.ok = FALSE, !.lost = TRUE, !.poisoned = TRUE] :
                c \in copy_retained_bytes_to_file(j) }

\* One journal: create_new_file refuses an existing name or fails, or the copy runs.
export_journal(j) ==
  LET there == copies[<<j, handle[j]>>]
  IN  {[copy |-> there, ok |-> FALSE, lost |-> FALSE, poisoned |-> FALSE]}
      \cup (IF there # NoCopy THEN {}
            ELSE IF handle[j] = "Journal" THEN copy_exact_with(j)
            ELSE copy_retained_bytes_to_file(j))

Exportable == {j \in Journals : handle[j] \in {"Journal", "Evidence"}}

Failures(done) ==
  {j \in Exportable : ~done[j].ok} \cup {j \in Journals : handle[j] = "Unavailable"}

(***************************************************************************)
(* perform_recovery_export: every journal is tried whatever happened to    *)
(* the ones before it.                                                     *)
(***************************************************************************)
perform_recovery_export ==
  \E done \in [Exportable -> UNION {export_journal(j) : j \in Exportable}] :
    /\ \A j \in Exportable : done[j] \in export_journal(j)
    /\ copies' = [key \in DOMAIN copies |->
                    IF key[1] \in Exportable /\ key[2] = handle[key[1]]
                    THEN done[key[1]].copy ELSE copies[key]]
    /\ poisoned' = poisoned \cup {j \in Exportable : done[j].poisoned}
    /\ astray' = astray \cup {j \in Exportable : done[j].lost}
    /\ report' = IF Failures(done) = {} THEN "Complete" ELSE "Partial"

AnswerExport ==
  /\ dialog = "Export" /\ dialog' = "None"
  /\ \/ UNCHANGED <<poisoned, astray, exportVars>>
     \/ ~close_pending /\ can_export_recovery_journal /\ perform_recovery_export
  /\ UNCHANGED <<file, handle, recovery_locked, collision_observed,
                 busy, started, close_pending, foreign>>

-----------------------------------------------------------------------------
RequestClose ==
  /\ ~close_pending /\ dialog \notin {"CleanUp", "Rediscover"}
  /\ close_pending' = TRUE
  /\ UNCHANGED <<journalVars, busy, dialog, started, exportVars, foreign>>

\* Another program restores or creates a file under a free journal name.
OutsiderCreates(j) ==
  /\ foreign < MaxForeign /\ file[j] = Absent
  /\ \E f \in {Corrupt, [records |-> "Intent", torn |-> FALSE]} :
       file' = [file EXCEPT ![j] = f]
  /\ busy' \in {busy, busy \cup {j}}
  /\ foreign' = foreign + 1
  /\ UNCHANGED <<handle, poisoned, astray, recovery_locked, collision_observed,
                 dialog, started, close_pending, exportVars>>

OutsiderReleases(j) ==
  /\ j \in busy /\ busy' = busy \ {j}
  /\ UNCHANGED <<journalVars, dialog, started, close_pending, exportVars, foreign>>

Next ==
  \/ Start \/ AnswerRecover \/ CleanUp
  \/ OpenDiscard \/ AnswerDiscard \/ rediscover_after_staged_discard
  \/ prepare_recovery_export \/ AnswerExport
  \/ RequestClose
  \/ \E j \in Journals : OutsiderCreates(j) \/ OutsiderReleases(j)

Spec == Init /\ [][Next]_vars

-----------------------------------------------------------------------------
(***************************************************************************)
(* Apply stays locked as long as the program holds or knows of a journal,  *)
(* whatever failed on the way: a rollback, a deletion, a copy, a reopening.*)
(***************************************************************************)
HeldMeansLocked == Observed(handle) # {} => recovery_locked

(***************************************************************************)
(* A locked program never loses the evidence it is locked for: it still    *)
(* knows of a journal, and the status offers the user something to do      *)
(* unless no journal could be opened at all.                               *)
(***************************************************************************)
LockedKeepsEvidence ==
  (recovery_locked /\ dialog = "None") =>
    /\ Observed(handle) # {}
    /\ Exportable # {} => show_recovery_status # {}

(***************************************************************************)
(* A journal whose append cursor is not at the end of its records accepts  *)
(* no further operation: a copy that failed halfway can never make a later *)
(* record land inside earlier ones.                                        *)
(***************************************************************************)
CursorOrPoisoned == \A j \in astray : j \in poisoned

(***************************************************************************)
(* Apply is unlocked only by a step that leaves no active journal on disk, *)
(* also when another program restored one while a discard was under way,   *)
(* and a discard leaves no candidate either.  (A rollback does not look at *)
(* the candidate name again: a file put there meanwhile makes the creation *)
(* of the next candidate fail.)                                            *)
(***************************************************************************)
UnlockFindsNothing ==
  (recovery_locked /\ ~recovery_locked') =>
      /\ file'["Active"] = Absent
      /\ dialog = "Rediscover" => file'["Candidate"] = Absent

(***************************************************************************)
(* A journal disappears only while it is whole, and only when it was       *)
(* finished, or an Intent that was never activated with no active journal  *)
(* beside it.                                                              *)
(***************************************************************************)
DeletedOnlyWhenSafe ==
  \A j \in Journals : (file[j] # Absent /\ file'[j] = Absent) =>
      /\ file[j] \in Readable /\ ~file[j].torn
      /\ j = "Active" => ~Unfinished(file[j])
      /\ j = "Candidate" => file[j].records = "Intent" /\ file["Active"] = Absent

(***************************************************************************)
(* An export is called complete only when every journal the program knows  *)
(* of now has an exact and whole copy in the directory.                    *)
(***************************************************************************)
ReportTruthful ==
  (report = "None" /\ report' = "Complete") =>
      \A j \in Observed(handle) :
        \E kind \in {"Journal", "Evidence"} :
          copies'[<<j, kind>>] = [of |-> file[j], part |-> "Full"]

(***************************************************************************)
(* What an earlier export left in the directory, whole or not, is never    *)
(* written over by a later one.                                            *)
(***************************************************************************)
CopiesKept ==
  \A key \in DOMAIN copies : copies[key] # NoCopy => copies'[key] = copies[key]

-----------------------------------------------------------------------------
(***************************************************************************)
(* Why these hold: a journal held open for use can be read, a recovery or  *)
(* its cleanup runs on the active journal held open, and outside the one   *)
(* moment between a discard and the reopening a lock is for a journal that *)
(* is known.  RecoveryInv is inductive.                                    *)
(***************************************************************************)
HeldJournalsReadable ==
  \A j \in Journals : handle[j] = "Journal" => file[j] \in Readable

NoDialogBeforeStart == ~started => dialog = "None"

RecoveryNeedsJournal ==
  dialog \in {"Recover", "CleanUp"} => handle["Active"] = "Journal"

LockedForKnown ==
  (recovery_locked /\ dialog # "Rediscover") => Observed(handle) # {}

RecoveryInv ==
  /\ TypeOK
  /\ HeldJournalsReadable /\ NoDialogBeforeStart /\ RecoveryNeedsJournal /\ LockedForKnown
  /\ HeldMeansLocked /\ CursorOrPoisoned

\* Journal contents are well formed and a readable one is a file.
LEMMA ContentsFacts ==
  /\ Readable \subseteq Contents
  /\ Absent \in Contents /\ Corrupt \in Contents
  /\ Absent \notin Readable /\ Corrupt # Absent
  /\ [records |-> "Intent", torn |-> FALSE] \in Readable
BY DEF Readable, Contents, Absent, Corrupt, Oversized, Empty

\* Opening what is there yields nothing exactly when no file is there, and a
\* journal only from a readable file.
LEMMA OpenRetainedFacts ==
  ASSUME NEW j \in Journals
  PROVE  /\ OpenRetained(j) \in HandleKinds
         /\ (OpenRetained(j) = "None") <=> (file[j] = Absent)
         /\ OpenRetained(j) = "Journal" => file[j] \in Readable
<1>1. CASE file[j] = Absent
  BY <1>1, ContentsFacts DEF OpenRetained, HandleKinds
<1>2. CASE file[j] # Absent /\ j \in busy
  BY <1>2 DEF OpenRetained, HandleKinds
<1>3. CASE file[j] # Absent /\ j \notin busy
  <2>1. CASE file[j] \in Readable /\ (j = "Candidate" => file[j].records \in {"None", "Intent"})
    BY <1>3, <2>1 DEF OpenRetained, HandleKinds
  <2>2. CASE ~(file[j] \in Readable /\ (j = "Candidate" => file[j].records \in {"None", "Intent"}))
    BY <1>3, <2>2 DEF OpenRetained, HandleKinds
  <2>. QED  BY <2>1, <2>2
<1>. QED  BY <1>1, <1>2, <1>3

\* What a rollback of a readable journal leaves is readable, and a cursor it
\* loses poisons the journal.
LEMMA RollbackFacts ==
  ASSUME file["Active"] \in Readable, NEW r \in RollbackResults
  PROVE  r.left \in Readable /\ (r.astray => r.poisoned)
<1>1. /\ file["Active"] \in Readable
      /\ [records |-> "Terminal", torn |-> FALSE] \in Readable
      /\ [records |-> "Progress", torn |-> FALSE] \in Readable
      /\ [records : {"Progress", "Terminal"}, torn : BOOLEAN] \subseteq Readable
  BY DEF Readable
<1>2. CASE "Active" \in poisoned \/ ~Unfinished(file["Active"])
  <2>1. r.left = file["Active"] /\ r.astray = FALSE
    BY <1>2 DEF RollbackResults, Rolled
  <2>. QED  BY <1>1, <2>1
<1>3. CASE "Active" \notin poisoned /\ Unfinished(file["Active"])
  <2>. DEFINE plain == {Rolled("Blocked", file["Active"], FALSE, FALSE),
                        Rolled("Recovered", [records |-> "Terminal", torn |-> FALSE], FALSE, FALSE),
                        Rolled("RecoveryRequired", [records |-> "Progress", torn |-> FALSE], FALSE, FALSE)}
              lefts == {file["Active"]} \cup [records : {"Progress", "Terminal"}, torn : BOOLEAN]
              broken == { Rolled("RecoveryRequired", left, TRUE, lost) : left \in lefts, lost \in BOOLEAN }
  <2>1. RollbackResults = plain \cup broken
    BY <1>3 DEF RollbackResults
  <2>2. \A q \in plain : q.left \in Readable /\ q.astray = FALSE
    <3>1. \A outcome : \A left \in Readable :
            Rolled(outcome, left, FALSE, FALSE).left \in Readable
            /\ Rolled(outcome, left, FALSE, FALSE).astray = FALSE
      BY DEF Rolled
    <3>. QED  BY <1>1, <3>1, Zenon
  <2>3. \A q \in broken : q.left \in Readable /\ q.poisoned = TRUE
    BY <1>1 DEF Rolled
  <2>. HIDE DEF plain, broken
  <2>. QED  BY <2>1, <2>2, <2>3
<1>. QED  BY <1>2, <1>3

\* What is copied of one journal: a success is the whole journal, a name that
\* was taken is left alone, and a cursor lost poisons the journal.
LEMMA CopyFacts ==
  ASSUME TypeOK, NEW j \in Exportable, NEW c \in export_journal(j)
  PROVE  /\ c.copy \in Copies
         /\ c.ok => c.copy = [of |-> file[j], part |-> "Full"]
         /\ copies[<<j, handle[j]>>] # NoCopy => c.copy = copies[<<j, handle[j]>>]
         /\ c.lost => c.poisoned
<1>1. file[j] \in Contents /\ copies[<<j, handle[j]>>] \in Copies
  BY DEF TypeOK, Exportable
<1>2. \A d \in copy_retained_bytes_to_file(j) :
        /\ d.copy \in Copies /\ d.lost = FALSE
        /\ d.ok => d.copy = [of |-> file[j], part |-> "Full"]
        /\ LET t == [d EXCEPT !.ok = FALSE, !.lost = TRUE, !.poisoned = TRUE]
           IN  t.copy = d.copy /\ t.ok = FALSE /\ t.poisoned = TRUE
  BY <1>1 DEF copy_retained_bytes_to_file, Copied, Copies
<1>3. \A d \in copy_exact_with(j) :
        /\ d.copy \in Copies /\ (d.lost => d.poisoned)
        /\ d.ok => d.copy = [of |-> file[j], part |-> "Full"]
  <2>1. LET t == [Copied(j, "Empty", FALSE) EXCEPT !.poisoned = TRUE]
        IN  t.copy = [of |-> file[j], part |-> "Empty"] /\ t.ok = FALSE /\ t.poisoned = TRUE
    BY DEF Copied
  <2>2. [of |-> file[j], part |-> "Empty"] \in Copies
    BY <1>1 DEF Copies
  <2>. QED  BY <1>2, <2>1, <2>2 DEF copy_exact_with
<1>. QED  BY <1>1, <1>2, <1>3 DEF export_journal

-----------------------------------------------------------------------------
LEMMA RecoveryInvInit == ASSUME MaxForeignAssumption, Init PROVE RecoveryInv
<1>1. TypeOK
  <2>1. handle \in [Journals -> HandleKinds] /\ \A j \in Journals : handle[j] # "None" => file[j] # Absent
    BY OpenRetainedFacts DEF Init, Discovered
  <2>2. NoCopy \in Copies
    BY DEF Copies
  <2>3. busy \in SUBSET Journals
    BY DEF Init
  <2>4. recovery_locked \in BOOLEAN /\ collision_observed \in BOOLEAN
    BY Zenon DEF Init
  <2>5. copies \in [Journals \X {"Journal", "Evidence"} -> Copies]
    BY <2>2 DEF Init
  <2>6. foreign \in 0..MaxForeign
    BY DEF Init, MaxForeignAssumption
  <2>. QED  BY <2>1, <2>3, <2>4, <2>5, <2>6 DEF Init, TypeOK
<1>2. HeldJournalsReadable
  BY OpenRetainedFacts DEF Init, HeldJournalsReadable, Discovered
<1>. QED
  BY <1>1, <1>2
  DEF Init, RecoveryInv, NoDialogBeforeStart, RecoveryNeedsJournal, LockedForKnown, HeldMeansLocked, CursorOrPoisoned

LEMMA StartKeeps == ASSUME RecoveryInv, Start PROVE RecoveryInv'
<1>. USE DEF RecoveryInv, Start, journalVars, exportVars
<1>1. TypeOK'
  BY DEF TypeOK
<1>2. HeldJournalsReadable' /\ HeldMeansLocked' /\ CursorOrPoisoned'
  BY DEF HeldJournalsReadable, HeldMeansLocked, CursorOrPoisoned, Observed
<1>3. RecoveryNeedsJournal' /\ LockedForKnown'
  <2>1. can_confirm_active_recovery => handle["Active"] = "Journal" /\ dialog = "None"
    BY DEF can_confirm_active_recovery, Journals
  <2>2. dialog' = "Recover" => can_confirm_active_recovery
    OBVIOUS
  <2>3. dialog' \in {"Recover", "None"}
    OBVIOUS
  <2>4. LockedForKnown'
    BY DEF NoDialogBeforeStart, LockedForKnown, Observed
  <2>. QED  BY <2>1, <2>2, <2>3, <2>4 DEF RecoveryNeedsJournal
<1>4. NoDialogBeforeStart'
  BY DEF NoDialogBeforeStart
<1>. QED  BY <1>1, <1>2, <1>3, <1>4

LEMMA AnswerRecoverKeeps == ASSUME RecoveryInv, AnswerRecover PROVE RecoveryInv'
<1>. USE DEF RecoveryInv, AnswerRecover, journalVars, exportVars
<1>1. handle["Active"] = "Journal" /\ file["Active"] \in Readable /\ Observed(handle) # {}
  BY DEF RecoveryNeedsJournal, HeldJournalsReadable, Observed, Journals
<1>2. CASE UNCHANGED journalVars
  <2>1. TypeOK'
    BY <1>2 DEF TypeOK
  <2>2. recovery_locked
    BY <1>1 DEF HeldMeansLocked
  <2>. QED
    BY <1>1, <1>2, <2>1, <2>2 DEF HeldJournalsReadable, NoDialogBeforeStart, RecoveryNeedsJournal,
      LockedForKnown, HeldMeansLocked, CursorOrPoisoned, Observed
<1>3. ASSUME NEW r \in RollbackResults,
             file' = [file EXCEPT !["Active"] = r.left],
             poisoned' = IF r.poisoned THEN poisoned \cup {"Active"} ELSE poisoned,
             astray' = IF r.astray THEN astray \cup {"Active"} ELSE astray,
             recovery_locked' = TRUE,
             dialog' \in {"CleanUp", "None"},
             UNCHANGED <<handle, collision_observed>>,
             UNCHANGED <<busy, started, close_pending, exportVars, foreign>>
      PROVE  RecoveryInv'
  <2>1. r.left \in Readable /\ (r.astray => r.poisoned)
    BY <1>1, RollbackFacts
  <2>2. \A j \in Journals : j # "Active" => file'[j] = file[j]
    BY <1>3 DEF TypeOK
  <2>3. file'["Active"] = r.left
    BY <1>3 DEF TypeOK, Journals
  <2>4. TypeOK'
    <3>1. file' \in [Journals -> Contents] /\ \A j \in Journals : handle'[j] # "None" => file'[j] # Absent
      BY <1>3, <2>1, <2>2, <2>3, ContentsFacts DEF TypeOK
    <3>2. poisoned' \in SUBSET Journals /\ astray' \in SUBSET Journals
      BY <1>3 DEF TypeOK, Journals
    <3>. QED  BY <1>3, <3>1, <3>2 DEF TypeOK
  <2>5. HeldJournalsReadable'
    BY <1>3, <2>1, <2>2, <2>3 DEF HeldJournalsReadable
  <2>6. CursorOrPoisoned'
    BY <1>3, <2>1 DEF CursorOrPoisoned
  <2>. QED
    BY <1>1, <1>3, <2>4, <2>5, <2>6 DEF NoDialogBeforeStart, RecoveryNeedsJournal, LockedForKnown,
      HeldMeansLocked, Observed
<1>. QED  BY <1>2, <1>3

LEMMA CleanUpKeeps == ASSUME RecoveryInv, CleanUp PROVE RecoveryInv'
<1>. USE DEF RecoveryInv
<1>1. PICK deleted \in BOOLEAN :
        /\ dialog = "CleanUp" /\ dialog' = "None"
        /\ deleted => mark_delete_if_safe
        /\ file' = IF deleted THEN [file EXCEPT !["Active"] = Absent] ELSE file
        /\ handle' = [handle EXCEPT !["Active"] = cleanup_file_journal(deleted)]
        /\ recovery_locked' = (~deleted \/ Observed(handle') # {})
        /\ UNCHANGED <<poisoned, astray, collision_observed, busy, started, close_pending,
                       exportVars, foreign>>
  BY DEF CleanUp
<1>2. handle["Active"] = "Journal" /\ file["Active"] \in Readable
  BY <1>1 DEF RecoveryNeedsJournal, HeldJournalsReadable, Journals
<1>3. /\ handle'["Active"] = IF deleted THEN "None" ELSE "Journal"
      /\ file'["Active"] = IF deleted THEN Absent ELSE file["Active"]
      /\ \A j \in Journals : j # "Active" => handle'[j] = handle[j] /\ file'[j] = file[j]
  BY <1>1 DEF TypeOK, Journals, cleanup_file_journal
<1>4. TypeOK'
  <2>1. handle' \in [Journals -> HandleKinds] /\ file' \in [Journals -> Contents]
    BY <1>1, ContentsFacts DEF TypeOK, HandleKinds, cleanup_file_journal
  <2>2. \A j \in Journals : handle'[j] # "None" => file'[j] # Absent
    BY <1>2, <1>3, ContentsFacts DEF TypeOK
  <2>3. recovery_locked' \in BOOLEAN
    BY <1>1, Zenon
  <2>. QED  BY <1>1, <2>1, <2>2, <2>3 DEF TypeOK, exportVars
<1>5. HeldJournalsReadable'
  BY <1>2, <1>3 DEF HeldJournalsReadable
<1>6. Observed(handle') # {} <=> recovery_locked'
  <2>1. ~deleted => "Active" \in Observed(handle')
    BY <1>3 DEF Observed, Journals
  <2>. QED  BY <1>1, <2>1
<1>7. LockedForKnown' /\ HeldMeansLocked'
  BY <1>6 DEF LockedForKnown, HeldMeansLocked, Observed
<1>. QED
  BY <1>1, <1>4, <1>5, <1>7 DEF NoDialogBeforeStart, RecoveryNeedsJournal, CursorOrPoisoned

LEMMA OpenDiscardKeeps == ASSUME RecoveryInv, OpenDiscard PROVE RecoveryInv'
<1>. USE DEF RecoveryInv, OpenDiscard, journalVars, exportVars
<1>1. TypeOK'
  BY DEF TypeOK
<1>. QED
  BY <1>1 DEF HeldJournalsReadable, NoDialogBeforeStart, RecoveryNeedsJournal, LockedForKnown,
    HeldMeansLocked, CursorOrPoisoned, Observed

LEMMA AnswerDiscardKeeps == ASSUME RecoveryInv, AnswerDiscard PROVE RecoveryInv'
<1>. USE DEF RecoveryInv, AnswerDiscard, journalVars, exportVars
<1>1. CASE dialog' = "None" /\ UNCHANGED journalVars
  <2>1. TypeOK'
    BY <1>1 DEF TypeOK
  <2>. QED
    BY <1>1, <2>1 DEF HeldJournalsReadable, NoDialogBeforeStart, RecoveryNeedsJournal,
      LockedForKnown, HeldMeansLocked, CursorOrPoisoned, Observed
<1>2. CASE /\ can_discard_staged_intent
           /\ file' = [file EXCEPT !["Candidate"] = Absent]
           /\ handle' = [handle EXCEPT !["Candidate"] = "None"]
           /\ dialog' = "Rediscover"
           /\ UNCHANGED <<poisoned, astray, recovery_locked, collision_observed>>
  <2>1. /\ handle'["Candidate"] = "None" /\ file'["Candidate"] = Absent
        /\ \A j \in Journals : j # "Candidate" => handle'[j] = handle[j] /\ file'[j] = file[j]
    BY <1>2 DEF TypeOK, Journals
  <2>2. TypeOK'
    <3>1. handle' \in [Journals -> HandleKinds] /\ file' \in [Journals -> Contents]
      BY <1>2, ContentsFacts DEF TypeOK, HandleKinds
    <3>2. \A j \in Journals : handle'[j] # "None" => file'[j] # Absent
      BY <2>1 DEF TypeOK
    <3>. QED  BY <1>2, <3>1, <3>2 DEF TypeOK
  <2>3. HeldJournalsReadable'
    BY <2>1 DEF HeldJournalsReadable
  <2>4. recovery_locked
    BY <1>2 DEF can_discard_staged_intent
  <2>. QED
    BY <1>2, <2>2, <2>3, <2>4 DEF NoDialogBeforeStart, RecoveryNeedsJournal,
      LockedForKnown, HeldMeansLocked, CursorOrPoisoned
<1>3. CASE /\ can_discard_staged_intent
           /\ dialog' = "None"
           /\ recovery_locked' = TRUE
           /\ UNCHANGED <<file, handle, poisoned, astray, collision_observed>>
  <2>1. TypeOK'
    BY <1>3 DEF TypeOK
  <2>2. "Candidate" \in Observed(handle)
    BY <1>3 DEF can_discard_staged_intent, Observed, Journals
  <2>. QED
    BY <1>3, <2>1, <2>2 DEF HeldJournalsReadable, NoDialogBeforeStart, RecoveryNeedsJournal,
      LockedForKnown, HeldMeansLocked, CursorOrPoisoned, Observed
<1>. QED  BY <1>1, <1>2, <1>3

LEMMA RediscoverKeeps == ASSUME RecoveryInv, rediscover_after_staged_discard PROVE RecoveryInv'
<1>. USE DEF RecoveryInv, rediscover_after_staged_discard
<1>1. \A j \in Journals : handle'[j] = OpenRetained(j)
  BY DEF Discovered
<1>2. TypeOK'
  <2>1. handle' \in [Journals -> HandleKinds]
    BY OpenRetainedFacts DEF Discovered
  <2>2. \A j \in Journals : handle'[j] # "None" => file'[j] # Absent
    BY <1>1, OpenRetainedFacts
  <2>3. recovery_locked' \in BOOLEAN /\ collision_observed' \in BOOLEAN
    BY Zenon
  <2>. QED  BY <2>1, <2>2, <2>3 DEF TypeOK, exportVars
<1>3. HeldJournalsReadable'
  BY <1>1, OpenRetainedFacts DEF HeldJournalsReadable
<1>4. LockedForKnown' /\ HeldMeansLocked'
  BY DEF LockedForKnown, HeldMeansLocked, Observed
<1>. QED
  BY <1>2, <1>3, <1>4 DEF NoDialogBeforeStart, RecoveryNeedsJournal, CursorOrPoisoned

LEMMA PrepareExportKeeps == ASSUME RecoveryInv, prepare_recovery_export PROVE RecoveryInv'
<1>. USE DEF RecoveryInv, prepare_recovery_export, journalVars
<1>1. TypeOK'
  BY DEF TypeOK
<1>. QED
  BY <1>1 DEF HeldJournalsReadable, NoDialogBeforeStart, RecoveryNeedsJournal, LockedForKnown,
    HeldMeansLocked, CursorOrPoisoned, Observed

LEMMA AnswerExportKeeps == ASSUME RecoveryInv, AnswerExport PROVE RecoveryInv'
<1>. USE DEF RecoveryInv, AnswerExport
<1>1. /\ poisoned' \in SUBSET Journals /\ astray' \in SUBSET Journals
      /\ copies' \in [Journals \X {"Journal", "Evidence"} -> Copies]
      /\ report' \in {"None", "Complete", "Partial"}
      /\ CursorOrPoisoned'
  <2>1. CASE UNCHANGED <<poisoned, astray, exportVars>>
    BY <2>1 DEF TypeOK, CursorOrPoisoned, exportVars
  <2>2. CASE perform_recovery_export
    <3>1. PICK done \in [Exportable -> UNION {export_journal(j) : j \in Exportable}] :
            /\ \A j \in Exportable : done[j] \in export_journal(j)
            /\ copies' = [key \in DOMAIN copies |->
                            IF key[1] \in Exportable /\ key[2] = handle[key[1]]
                            THEN done[key[1]].copy ELSE copies[key]]
            /\ poisoned' = poisoned \cup {j \in Exportable : done[j].poisoned}
            /\ astray' = astray \cup {j \in Exportable : done[j].lost}
            /\ report' = IF Failures(done) = {} THEN "Complete" ELSE "Partial"
      BY <2>2 DEF perform_recovery_export
    <3>2. \A j \in Exportable : done[j].copy \in Copies /\ (done[j].lost => done[j].poisoned)
      BY <3>1, CopyFacts
    <3>3. DOMAIN copies = Journals \X {"Journal", "Evidence"}
      BY DEF TypeOK
    <3>4. \A key \in DOMAIN copies : copies[key] \in Copies
      BY DEF TypeOK
    <3>5. copies' \in [Journals \X {"Journal", "Evidence"} -> Copies]
      BY <3>1, <3>2, <3>3, <3>4
    <3>6. poisoned' \in SUBSET Journals /\ astray' \in SUBSET Journals
      BY <3>1 DEF TypeOK, Exportable
    <3>7. CursorOrPoisoned'
      BY <3>1, <3>2 DEF CursorOrPoisoned
    <3>. QED  BY <3>1, <3>5, <3>6, <3>7
  <2>. QED  BY <2>1, <2>2
<1>2. TypeOK'
  BY <1>1 DEF TypeOK
<1>. QED
  BY <1>1, <1>2 DEF HeldJournalsReadable, NoDialogBeforeStart, RecoveryNeedsJournal,
    LockedForKnown, HeldMeansLocked, Observed

LEMMA RequestCloseKeeps == ASSUME RecoveryInv, RequestClose PROVE RecoveryInv'
<1>. USE DEF RecoveryInv, RequestClose, journalVars, exportVars
<1>1. TypeOK'
  BY DEF TypeOK
<1>. QED
  BY <1>1 DEF HeldJournalsReadable, NoDialogBeforeStart, RecoveryNeedsJournal, LockedForKnown,
    HeldMeansLocked, CursorOrPoisoned, Observed

LEMMA OutsiderCreatesKeeps ==
  ASSUME MaxForeignAssumption, RecoveryInv, NEW j \in Journals, OutsiderCreates(j)
  PROVE  RecoveryInv'
<1>. USE DEF RecoveryInv, OutsiderCreates
<1>1. PICK f \in {Corrupt, [records |-> "Intent", torn |-> FALSE]} : file' = [file EXCEPT ![j] = f]
  OBVIOUS
<1>2. handle[j] = "None" /\ f # Absent /\ f \in Contents
  BY <1>1, ContentsFacts DEF TypeOK
<1>3. file'[j] = f /\ \A i \in Journals : i # j => file'[i] = file[i]
  BY <1>1 DEF TypeOK
<1>4. TypeOK'
  <2>1. file' \in [Journals -> Contents] /\ busy' \in SUBSET Journals
    BY <1>1, <1>2 DEF TypeOK
  <2>2. \A i \in Journals : handle'[i] # "None" => file'[i] # Absent
    BY <1>2, <1>3 DEF TypeOK
  <2>3. foreign' \in 0..MaxForeign
    BY DEF TypeOK, MaxForeignAssumption
  <2>. QED  BY <2>1, <2>2, <2>3 DEF TypeOK, exportVars
<1>5. HeldJournalsReadable'
  BY <1>2, <1>3 DEF HeldJournalsReadable
<1>. QED
  BY <1>4, <1>5 DEF NoDialogBeforeStart, RecoveryNeedsJournal, LockedForKnown, HeldMeansLocked,
    CursorOrPoisoned, Observed

LEMMA OutsiderReleasesKeeps ==
  ASSUME RecoveryInv, NEW j \in Journals, OutsiderReleases(j)
  PROVE  RecoveryInv'
<1>. USE DEF RecoveryInv, OutsiderReleases, journalVars, exportVars
<1>1. TypeOK'
  BY DEF TypeOK
<1>. QED
  BY <1>1 DEF HeldJournalsReadable, NoDialogBeforeStart, RecoveryNeedsJournal, LockedForKnown,
    HeldMeansLocked, CursorOrPoisoned, Observed

LEMMA RecoveryStutters == ASSUME RecoveryInv, UNCHANGED vars PROVE RecoveryInv'
<1>1. TypeOK'
  BY DEF vars, RecoveryInv, TypeOK
<1>. QED
  BY <1>1 DEF vars, RecoveryInv, HeldJournalsReadable, NoDialogBeforeStart, RecoveryNeedsJournal,
    LockedForKnown, HeldMeansLocked, CursorOrPoisoned, Observed

LEMMA RecoverySteps ==
  ASSUME MaxForeignAssumption, RecoveryInv, [Next]_vars
  PROVE  RecoveryInv'
BY StartKeeps, AnswerRecoverKeeps, CleanUpKeeps, OpenDiscardKeeps, AnswerDiscardKeeps,
  RediscoverKeeps, PrepareExportKeeps, AnswerExportKeeps, RequestCloseKeeps,
  OutsiderCreatesKeeps, OutsiderReleasesKeeps, RecoveryStutters
DEF Next

LEMMA RecoveryInvSuffices ==
  ASSUME RecoveryInv
  PROVE  TypeOK /\ HeldMeansLocked /\ LockedKeepsEvidence /\ CursorOrPoisoned
<1>1. Exportable # {} => show_recovery_status # {}
  BY DEF Exportable, show_recovery_status, can_export_recovery_journal
<1>. QED  BY <1>1 DEF RecoveryInv, LockedForKnown, LockedKeepsEvidence

-----------------------------------------------------------------------------
(***************************************************************************)
(* What one step may never do, from the invariant.                         *)
(***************************************************************************)

\* Two steps release the lock: a cleanup that deleted the active journal, and
\* a reopening that found neither.
LEMMA UnlockSteps ==
  ASSUME RecoveryInv, [Next]_vars, recovery_locked, ~recovery_locked'
  PROVE  CleanUp \/ rediscover_after_staged_discard
BY Zenon DEF Next, vars, Start, AnswerRecover, OpenDiscard, AnswerDiscard, prepare_recovery_export,
  AnswerExport, RequestClose, OutsiderCreates, OutsiderReleases, journalVars

LEMMA UnlockFindsNothingStep ==
  ASSUME RecoveryInv, [Next]_vars
  PROVE  UnlockFindsNothing
<1>. SUFFICES ASSUME recovery_locked, ~recovery_locked'
              PROVE  /\ file'["Active"] = Absent
                     /\ dialog = "Rediscover" => file'["Candidate"] = Absent
  BY DEF UnlockFindsNothing
<1>1. CASE CleanUp
  BY <1>1 DEF CleanUp, RecoveryInv, TypeOK, Journals
<1>2. CASE rediscover_after_staged_discard
  <2>1. \A j \in Journals : handle'[j] = "None"
    BY <1>2 DEF rediscover_after_staged_discard, Observed
  <2>2. \A j \in Journals : file'[j] = Absent
    BY <1>2, <2>1, OpenRetainedFacts DEF rediscover_after_staged_discard, Discovered
  <2>. QED  BY <2>2 DEF Journals
<1>. QED  BY <1>1, <1>2, UnlockSteps

LEMMA DeletedOnlyWhenSafeStep ==
  ASSUME RecoveryInv, [Next]_vars
  PROVE  DeletedOnlyWhenSafe
<1>. SUFFICES ASSUME NEW j \in Journals, file[j] # Absent, file'[j] = Absent
              PROVE  /\ file[j] \in Readable /\ ~file[j].torn
                     /\ j = "Active" => ~Unfinished(file[j])
                     /\ j = "Candidate" => file[j].records = "Intent" /\ file["Active"] = Absent
  BY DEF DeletedOnlyWhenSafe
<1>1. CASE CleanUp
  <2>1. j = "Active" /\ mark_delete_if_safe
    BY <1>1 DEF CleanUp, RecoveryInv, TypeOK, Journals
  <2>2. file["Active"] \in Readable
    BY <1>1 DEF CleanUp, RecoveryInv, RecoveryNeedsJournal, HeldJournalsReadable, Journals
  <2>. QED  BY <2>1, <2>2 DEF mark_delete_if_safe
<1>2. CASE AnswerDiscard
  <2>1. file' = [file EXCEPT !["Candidate"] = Absent] /\ mark_unactivated_intent_delete
    BY <1>2 DEF AnswerDiscard, journalVars
  <2>2. j = "Candidate"
    BY <2>1 DEF RecoveryInv, TypeOK, Journals
  <2>. QED
    BY <2>1, <2>2, ContentsFacts DEF mark_unactivated_intent_delete, is_complete_intent_candidate
<1>3. CASE AnswerRecover
  <2>1. PICK r \in RollbackResults : file' = [file EXCEPT !["Active"] = r.left]
    BY <1>3 DEF AnswerRecover, journalVars
  <2>2. file["Active"] \in Readable
    BY <1>3 DEF AnswerRecover, RecoveryInv, RecoveryNeedsJournal, HeldJournalsReadable, Journals
  <2>3. file'["Active"] # Absent /\ (j # "Active" => file'[j] = file[j])
    BY <2>1, <2>2, RollbackFacts, ContentsFacts DEF RecoveryInv, TypeOK, Journals
  <2>. QED  BY <2>3
<1>4. CASE \E i \in Journals : OutsiderCreates(i)
  BY <1>4, ContentsFacts DEF OutsiderCreates, RecoveryInv, TypeOK
<1>5. CASE UNCHANGED file
  BY <1>5
<1>. QED
  BY <1>1, <1>2, <1>3, <1>4, <1>5
  DEF Next, vars, Start, OpenDiscard, rediscover_after_staged_discard, prepare_recovery_export,
    AnswerExport, RequestClose, OutsiderReleases, journalVars

\* An export that ran: what it wrote and reported.
LEMMA ExportSteps ==
  ASSUME RecoveryInv, [Next]_vars
  PROVE  \/ copies' = copies /\ (report' = report \/ report' = "None")
         \/ perform_recovery_export
BY DEF Next, vars, Start, AnswerRecover, CleanUp, OpenDiscard, AnswerDiscard,
  rediscover_after_staged_discard, prepare_recovery_export, AnswerExport, RequestClose,
  OutsiderCreates, OutsiderReleases, journalVars, exportVars

LEMMA ReportTruthfulStep ==
  ASSUME RecoveryInv, [Next]_vars
  PROVE  ReportTruthful /\ CopiesKept
<1>1. CASE copies' = copies /\ (report' = report \/ report' = "None")
  BY <1>1 DEF ReportTruthful, CopiesKept
<1>2. CASE perform_recovery_export
  <2>1. PICK done \in [Exportable -> UNION {export_journal(j) : j \in Exportable}] :
          /\ \A j \in Exportable : done[j] \in export_journal(j)
          /\ copies' = [key \in DOMAIN copies |->
                          IF key[1] \in Exportable /\ key[2] = handle[key[1]]
                          THEN done[key[1]].copy ELSE copies[key]]
          /\ report' = IF Failures(done) = {} THEN "Complete" ELSE "Partial"
    BY <1>2 DEF perform_recovery_export
  <2>2. DOMAIN copies = Journals \X {"Journal", "Evidence"}
    BY DEF RecoveryInv, TypeOK
  <2>3. \A j \in Exportable :
          /\ done[j].ok => done[j].copy = [of |-> file[j], part |-> "Full"]
          /\ copies[<<j, handle[j]>>] # NoCopy => done[j].copy = copies[<<j, handle[j]>>]
    BY <2>1, CopyFacts DEF RecoveryInv
  <2>4. CopiesKept
    <3>. SUFFICES ASSUME NEW key \in DOMAIN copies, copies[key] # NoCopy
                  PROVE  copies'[key] = copies[key]
      BY DEF CopiesKept
    <3>1. key = <<key[1], key[2]>>
      BY <2>2
    <3>. QED  BY <2>1, <2>3, <3>1
  <2>5. ReportTruthful
    <3>. SUFFICES ASSUME report' = "Complete", NEW j \in Observed(handle)
                  PROVE  \E kind \in {"Journal", "Evidence"} :
                           copies'[<<j, kind>>] = [of |-> file[j], part |-> "Full"]
      BY DEF ReportTruthful
    <3>1. Failures(done) = {}
      BY <2>1
    <3>2. j \in Journals /\ handle[j] \in {"Journal", "Evidence"} /\ j \in Exportable
      BY <3>1 DEF Failures, Observed, Exportable, RecoveryInv, TypeOK, HandleKinds
    <3>3. done[j].ok
      BY <3>1, <3>2 DEF Failures
    <3>4. <<j, handle[j]>> \in DOMAIN copies
      BY <2>2, <3>2
    <3>5. copies'[<<j, handle[j]>>] = done[j].copy
      BY <2>1, <3>2, <3>4
    <3>. QED  BY <2>3, <3>2, <3>3, <3>5
  <2>. QED  BY <2>4, <2>5
<1>. QED  BY <1>1, <1>2, ExportSteps

(***************************************************************************)
(* Whatever fails on the way, and whatever another program puts under the  *)
(* journal names: a journal held or known of keeps Apply locked, a lock is *)
(* for a journal the user can still do something about, and a lost cursor  *)
(* stops its journal (recovery_ui.rs).                                     *)
(***************************************************************************)
THEOREM RecoveryAlwaysKeepsEvidence ==
  ASSUME MaxForeignAssumption
  PROVE  Spec => [](TypeOK /\ HeldMeansLocked /\ LockedKeepsEvidence /\ CursorOrPoisoned)
<1>1. Init => RecoveryInv
  BY RecoveryInvInit
<1>2. RecoveryInv /\ [Next]_vars => RecoveryInv'
  BY RecoverySteps
<1>3. RecoveryInv => TypeOK /\ HeldMeansLocked /\ LockedKeepsEvidence /\ CursorOrPoisoned
  BY RecoveryInvSuffices
<1>. QED  BY <1>1, <1>2, <1>3, PTL DEF Spec

(***************************************************************************)
(* No step of the recovery menu unlocks Apply over an active journal,      *)
(* deletes a journal that is not finished or not whole, reports an         *)
(* incomplete export as complete, or touches an earlier copy.              *)
(***************************************************************************)
THEOREM RecoveryStepsSafe ==
  ASSUME MaxForeignAssumption
  PROVE  Spec => [][/\ UnlockFindsNothing /\ DeletedOnlyWhenSafe
                    /\ ReportTruthful /\ CopiesKept]_vars
<1>1. Init => RecoveryInv
  BY RecoveryInvInit
<1>2. RecoveryInv /\ [Next]_vars => RecoveryInv'
  BY RecoverySteps
<1>3. RecoveryInv /\ [Next]_vars =>
        [UnlockFindsNothing /\ DeletedOnlyWhenSafe /\ ReportTruthful /\ CopiesKept]_vars
  BY UnlockFindsNothingStep, DeletedOnlyWhenSafeStep, ReportTruthfulStep
<1>. QED  BY <1>1, <1>2, <1>3, PTL DEF Spec
====
