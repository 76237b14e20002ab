----------------------------- MODULE TextExport -----------------------------
(***************************************************************************)
(* Saving a text file, and exporting a recovery journal, to a folder the   *)
(* user picks (the secure dialogs of windows/dialog.rs, and the export     *)
(* functions of rename/windows_native.rs).                                 *)
(*                                                                         *)
(* The shell names a folder by a path and an identity; the program opens   *)
(* the path itself and keeps the handle, so that what it writes goes to    *)
(* the folder the user saw.  Other processes rename folders, create files  *)
(* and link files between any two steps: a folder that the program holds   *)
(* open cannot be renamed (it is opened without FILE_SHARE_DELETE), a file *)
(* that it holds exclusively can still be linked.                          *)
(***************************************************************************)
EXTENDS Integers

CONSTANTS
  Path, Dir,     \* names of folders, and the folders they can name
  Attempts,      \* names tried for the temporary file
  MaxMoves       \* bound on the renames by other processes

ExportAssumption ==
  /\ Attempts \in Nat \ {0} /\ MaxMoves \in Nat
  /\ "none" \notin Path \cup Dir

VARIABLES
  place,     \* which folder a path names
  entries,   \* the names in each folder: nothing, our file, or a file of others
  content,   \* of our file
  kind,      \* "Text" or "Recovery"
  phase,
  at,        \* the path the dialog shows
  shell,     \* the identity that the shell reported for it
  folder,    \* SecureTextSaveDialogEvents.folder, the retained folder
  chosen,    \* the path of the folder of the chosen item
  parent_id, \* the identity the shell reported for it
  target,    \* the retained folder of the accepted item
  tries,
  leftover,  \* deleting the temporary file failed
  moves

vars == <<place, entries, content, kind, phase, at, shell, folder, chosen, parent_id,
          target, tries, leftover, moves>>
disk == <<place, entries, moves>>
dialog == <<at, shell, folder, chosen, parent_id>>

None == "none"
Leaf == {"name", "stage", "link"}
Phase == {"browsing", "binding", "checking", "accepted", "open", "written", "failing",
          "done", "failed", "closed", "crashed"}

TypeOK ==
  /\ place \in [Path -> Dir]
  /\ \A p, q \in Path : place[p] = place[q] => p = q
  /\ entries \in [Dir -> [Leaf -> {None, "ours", "theirs"}]]
  /\ content \in {"empty", "partial", "whole"}
  /\ kind \in {"Text", "Recovery"} /\ phase \in Phase
  /\ at \in Path \cup {None} /\ chosen \in Path \cup {None}
  /\ {shell, folder, parent_id, target} \subseteq Dir \cup {None}
  /\ tries \in 0 .. Attempts /\ leftover \in BOOLEAN
  /\ moves \in 0 .. MaxMoves

-----------------------------------------------------------------------------
(***************************************************************************)
(* Other processes.                                                        *)
(***************************************************************************)
Held == {folder, target} \ {None}

\* a folder takes the path of another, which goes elsewhere
MoveFolder(p, d) ==
  /\ moves < MaxMoves
  /\ place[p] \notin Held /\ d \notin Held
  /\ \A q \in Path : place[q] # d
  /\ place' = [place EXCEPT ![p] = d]
  /\ moves' = moves + 1
  /\ UNCHANGED <<entries, content, kind, phase, dialog, target, tries, leftover>>

\* two folders exchange their paths
SwapFolders ==
  /\ moves < MaxMoves
  /\ \E p, q \in Path :
       /\ p # q
       /\ {place[p], place[q]} \cap Held = {}
       /\ place' = [place EXCEPT ![p] = place[q], ![q] = place[p]]
  /\ moves' = moves + 1
  /\ UNCHANGED <<entries, content, kind, phase, dialog, target, tries, leftover>>

\* another program creates the file that the user asked for
CreateTheirs(d) ==
  /\ moves < MaxMoves
  /\ entries[d]["name"] = None
  /\ entries' = [entries EXCEPT ![d]["name"] = "theirs"]
  /\ moves' = moves + 1
  /\ UNCHANGED <<place, content, kind, phase, dialog, target, tries, leftover>>

\* another program links our temporary file under a second name
LinkOurs(d) ==
  /\ moves < MaxMoves
  /\ entries[d]["stage"] = "ours" /\ entries[d]["link"] = None
  /\ entries' = [entries EXCEPT ![d]["link"] = "ours"]
  /\ moves' = moves + 1
  /\ UNCHANGED <<place, content, kind, phase, dialog, target, tries, leftover>>

Others ==
  \/ \E p \in Path, d \in Dir : MoveFolder(p, d)
  \/ SwapFolders
  \/ \E d \in Dir : CreateTheirs(d) \/ LinkOurs(d)

-----------------------------------------------------------------------------
(***************************************************************************)
(* The dialogs.                                                            *)
(***************************************************************************)
require_matching_folder_identity(expected, actual) == expected = actual

\* The folder of identity id is opened by that identity, and by the path; both
\* must be the same ordinary folder on a supported volume.  A check can fail.
prepare_text_export_parent(p, id) ==
  IF require_matching_folder_identity(id, place[p]) THEN place[p] ELSE None

\* the save dialog shows another folder; the shell reads its identity
FolderChanges(p) ==
  /\ kind = "Text" /\ phase = "browsing"
  /\ at' = p
  /\ shell' = place[p]
  /\ phase' = "binding"
  /\ UNCHANGED <<disk, content, kind, folder, chosen, parent_id, target, tries, leftover>>

\* the rest of OnFolderChange: the folder is retained, or none is
OnFolderChange ==
  /\ phase = "binding"
  /\ folder' \in {prepare_text_export_parent(at, shell), None}
  /\ phase' = "browsing"
  /\ UNCHANGED <<disk, content, kind, at, shell, chosen, parent_id, target, tries, leftover>>

\* the user accepts a name in the folder shown, or types the path of another
ItemChosen(p) ==
  /\ phase = "browsing"
  /\ kind = "Text" => at # None
  /\ chosen' = p
  /\ parent_id' = place[p]
  /\ target' = None
  /\ phase' = "checking"
  /\ UNCHANGED <<disk, content, kind, at, shell, folder, tries, leftover>>

\* target_for_leaf: the folder is the retained one, and has no such name
MayTarget ==
  /\ folder # None
  /\ require_matching_folder_identity(folder, parent_id)
  /\ entries[folder]["name"] = None

\* OnFileOk of the save dialog: an error is shown, and the dialog stays open
SaveFileOk ==
  /\ kind = "Text" /\ phase = "checking"
  /\ \/ /\ MayTarget
        /\ target' = folder
        /\ phase' = "accepted"
     \/ /\ target' = None
        /\ phase' = "browsing"
  /\ UNCHANGED <<disk, content, kind, dialog, tries, leftover>>

\* OnFileOk of the folder dialog: the chosen folder itself is retained
RecoveryFolderOk ==
  /\ kind = "Recovery" /\ phase = "checking"
  /\ target' \in {prepare_text_export_parent(chosen, parent_id), None}
  /\ phase' = IF target' = None THEN "browsing" ELSE "accepted"
  /\ UNCHANGED <<disk, content, kind, dialog, tries, leftover>>

\* the dialog is cancelled, or fails; what it retained is released
DialogCloses ==
  /\ phase = "browsing"
  /\ phase' = "closed"
  /\ folder' = None
  /\ UNCHANGED <<disk, content, kind, at, shell, chosen, parent_id, target, tries, leftover>>

\* the session of the dialog is no longer current, or the dialog's end failed
SelectionIsStale ==
  /\ phase = "accepted"
  /\ phase' = "closed"
  /\ folder' = None /\ target' = None
  /\ UNCHANGED <<disk, content, kind, at, shell, chosen, parent_id, tries, leftover>>

-----------------------------------------------------------------------------
(***************************************************************************)
(* write_text_export_target: a temporary file beside the target, written,  *)
(* synced and renamed without replacing; each step can fail, and then the  *)
(* file is deleted through its handle, whatever its name is by then.       *)
(***************************************************************************)
Put(leaf, what) == [entries EXCEPT ![target][leaf] = what]

\* a temporary name is in use: the next one is tried
StageNameTaken ==
  /\ kind = "Text" /\ phase = "accepted" /\ tries < Attempts
  /\ tries' = tries + 1
  /\ phase' = IF tries + 1 = Attempts THEN "failed" ELSE "accepted"
  /\ UNCHANGED <<disk, content, kind, dialog, target, leftover>>

create_text_export_stage ==
  /\ kind = "Text" /\ phase = "accepted" /\ tries < Attempts
  /\ folder' = None      \* the dialog is gone; the target keeps its folder
  /\ \/ /\ entries' = Put("stage", "ours")
        /\ phase' = "open"
     \/ /\ entries' = entries
        /\ phase' = "failed"
  /\ UNCHANGED <<place, moves, content, kind, at, shell, chosen, parent_id, target, tries, leftover>>

\* create_new_file of a recovery export: the file itself, never an existing one
create_new_file ==
  /\ kind = "Recovery" /\ phase = "accepted"
  /\ \/ /\ entries[target]["name"] = None
        /\ entries' = Put("name", "ours")
        /\ phase' = "open"
     \/ /\ entries' = entries
        /\ phase' = "failed"
  /\ UNCHANGED <<place, moves, content, kind, dialog, target, tries, leftover>>

\* a file with one name that is not about to be deleted
validate_text_export_file == \A d \in Dir : entries[d]["link"] # "ours"

\* write_all, flush and sync_all
WriteAll ==
  /\ phase = "open"
  /\ \/ /\ kind = "Text" => validate_text_export_file
        /\ content' = "whole"
        /\ phase' = "written"
     \/ /\ content' \in {"empty", "partial"}
        /\ phase' = IF kind = "Text" THEN "failing" ELSE "failed"
  /\ UNCHANGED <<disk, kind, dialog, target, tries, leftover>>

\* Mutant: the name is taken first and written then.
CommitEarly ==
  /\ kind = "Text" /\ phase \in {"open", "written"}
  /\ entries[target]["name"] = None
  /\ entries' = [entries EXCEPT ![target]["name"] = "ours", ![target]["stage"] = None]
  /\ phase' = IF phase = "open" THEN "open" ELSE "done"
  /\ UNCHANGED <<place, moves, content, kind, dialog, target, tries, leftover>>

\* rename_noreplace; an error can be reported for a rename that happened
Commit ==
  /\ kind = "Text" /\ phase = "written"
  /\ \/ /\ validate_text_export_file
        /\ entries[target]["name"] = None
        /\ entries' = [entries EXCEPT ![target]["name"] = "ours", ![target]["stage"] = None]
        /\ phase' \in {"done", "failing"}
     \/ /\ entries' = entries
        /\ phase' = "failing"
  /\ UNCHANGED <<place, moves, content, kind, dialog, target, tries, leftover>>

\* mark_file_delete on the handle; its own failure is reported
MarkDelete ==
  /\ phase = "failing"
  /\ phase' = "failed"
  /\ \/ /\ entries' = [entries EXCEPT ![target] =
                         [leaf \in Leaf |-> IF leaf # "link" /\ @[leaf] = "ours"
                                            THEN None ELSE @[leaf]]]
        /\ leftover' = FALSE
     \/ /\ entries' = entries
        /\ leftover' = TRUE
  /\ UNCHANGED <<place, moves, content, kind, dialog, target, tries>>

\* copy_retained_bytes_to_file wrote and synced the whole journal
RecoveryExported ==
  /\ kind = "Recovery" /\ phase = "written"
  /\ phase' = "done"
  /\ UNCHANGED <<disk, content, kind, dialog, target, tries, leftover>>

\* the process ends; its handles are closed, and nothing is deleted
Crash ==
  /\ phase \notin {"done", "failed", "closed", "crashed"}
  /\ phase' = "crashed"
  /\ folder' = None /\ target' = None
  /\ UNCHANGED <<disk, content, kind, at, shell, chosen, parent_id, tries, leftover>>

Init ==
  /\ \E f \in [Path -> Dir] : (\A p, q \in Path : f[p] = f[q] => p = q) /\ place = f
  /\ entries \in [Dir -> {[leaf \in Leaf |-> None],
                          [leaf \in Leaf |-> IF leaf = "name" THEN "theirs" ELSE None]}]
  /\ content = "empty"
  /\ kind \in {"Text", "Recovery"}
  /\ phase = "browsing"
  /\ at = None /\ chosen = None
  /\ shell = None /\ folder = None /\ parent_id = None /\ target = None
  /\ tries = 0 /\ leftover = FALSE
  /\ moves = 0

Next ==
  \/ Others
  \/ \E p \in Path : FolderChanges(p) \/ ItemChosen(p)
  \/ OnFolderChange \/ SaveFileOk \/ RecoveryFolderOk
  \/ DialogCloses \/ SelectionIsStale
  \/ StageNameTaken \/ create_text_export_stage \/ create_new_file
  \/ WriteAll \/ Commit \/ MarkDelete \/ RecoveryExported
  \/ Crash

Spec == Init /\ [][Next]_vars

-----------------------------------------------------------------------------
(***************************************************************************)
(* Properties.                                                             *)
(***************************************************************************)
\* A save never replaces a file (rename_noreplace, FILE_CREATE): a name that
\* another program owns stays with it, even if it appeared after the dialog
\* checked the name.
NeverReplaces ==
  \A d \in Dir : entries[d]["name"] = "theirs" => entries'[d]["name"] = "theirs"

\* The file is saved where the user saw it (prepare_text_export_parent,
\* require_matching_folder_identity): when a save or an export succeeds, the path
\* that was on the screen leads to it, and to the folder that it led to when the
\* user chose it, whatever was renamed in between.
SavedWhereShown ==
  phase = "done" => place[chosen] = parent_id /\ entries[parent_id]["name"] = "ours"

\* All or nothing (write_text_export_target_inner): the chosen name never leads to
\* an incomplete text, not even after a crash; a success means a complete file.
NeverPartial ==
  /\ kind = "Text" => \A d \in Dir : entries[d]["name"] = "ours" => content = "whole"
  /\ phase = "done" => content = "whole"

\* A failure that does not report a leftover leaves none: neither the temporary
\* file nor the chosen name, even when the rename happened and reported an error.
FailureLeavesNothing ==
  phase = "failed" /\ kind = "Text" /\ ~leftover =>
    \A d \in Dir : "ours" \notin {entries[d]["name"], entries[d]["stage"]}

-----------------------------------------------------------------------------
(***************************************************************************)
(* The inductive invariant: what is retained, and which names our file has *)
(* while the program holds it.                                             *)
(***************************************************************************)
Ours(d) == "ours" \in {entries[d]["name"], entries[d]["stage"]}

\* The retained target is the folder that the user was shown: its path cannot
\* have been given to another folder since.
TargetRetained ==
  /\ phase = "binding" => at \in Path
  /\ phase = "checking" =>
       chosen \in Path /\ parent_id \in Dir /\ (folder = parent_id => place[chosen] = parent_id)
  /\ phase \in {"accepted", "open", "written", "failing", "done"} =>
       /\ chosen \in Path /\ parent_id \in Dir /\ target = parent_id
       /\ place[chosen] = parent_id

\* Our file has no name before it is created, none outside the target while it
\* is open, and the chosen name only once it is complete.
NamesKnown ==
  /\ phase \in {"browsing", "binding", "checking", "accepted"} => \A d \in Dir : ~Ours(d)
  /\ kind = "Text" =>
       /\ phase \in {"open", "written", "failing"} => \A d \in Dir : Ours(d) => d = target
       /\ phase = "open" => \A d \in Dir : entries[d]["name"] # "ours"
       /\ phase = "done" => entries[target]["name"] = "ours"
  /\ kind = "Recovery" /\ phase \in {"open", "written", "done"} =>
       entries[target]["name"] = "ours"
  /\ phase \in {"written", "done"} => content = "whole"

ExportInv ==
  /\ TypeOK /\ TargetRetained /\ NamesKnown /\ NeverPartial /\ FailureLeavesNothing
=============================================================================
