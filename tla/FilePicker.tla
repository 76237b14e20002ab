----------------------------- MODULE FilePicker -----------------------------
(***************************************************************************)
(* The shell's file dialogs (select_prepared_file_dialog in                *)
(* windows/dialog.rs): the owner window is disabled while a dialog runs,   *)
(* the dialog is created, configured and shown, and what the user picked   *)
(* is fetched item by item within the room the list has left.  Every COM   *)
(* call can fail.  The two dialogs that bind a save target or an export    *)
(* folder are TextExport's.                                                *)
(*                                                                         *)
(* A path is reduced to its length in UTF-16 units.                        *)
(***************************************************************************)
EXTENDS Integers, Sequences, FiniteSets

CONSTANTS
  MaxPathUnits,   \* MAX_PATH_UNITS
  Lengths,        \* lengths of the names the shell can return
  MaxSelected,    \* items the user can select
  Capacities      \* rows, and bytes of path, the list has left

PickerAssumption ==
  /\ MaxPathUnits \in Nat /\ MaxSelected \in Nat
  /\ Lengths \subseteq Nat
  /\ Capacities \subseteq [count : Nat, bytes : Nat]

Kinds == {"AddFiles", "UnifyDestinationParent", "Import"}

VARIABLES
  pc,
  kind,        \* PreparedFileDialogKind
  room,        \* its remaining_count and remaining_path_bytes
  enabled,     \* the owner takes input
  guard,       \* OwnerEnableGuard: what it will restore
  options,     \* options of the live dialog
  picked,      \* what the user selected: a sequence of items
  paths,       \* lengths of the paths collected
  budget,      \* bytes of the PathBudget
  strings,     \* CoTaskMem strings not yet freed
  fetched,     \* items taken from the result so far
  selection    \* PreparedFileDialogSelection

vars == <<pc, kind, room, enabled, guard, options, picked, paths, budget, strings,
          fetched, selection>>

Options == {"AllowMultiselect", "PickFolders", "ForceFileSystem", "FileMustExist"}

\* An item of the shell's namespace: a file or a folder, and its file system name.
Items == [folder : BOOLEAN, units : Lengths, named : BOOLEAN]

Nothing     == [state |-> "Pending", paths |-> << >>]
Cancelled   == [state |-> "Cancelled", paths |-> << >>]
Selected(p) == [state |-> "Selected", paths |-> p]

TypeOK ==
  /\ pc \in {"Idle", "Create", "Configure", "Show", "Fetch", "Name", "Leave"}
  /\ kind \in Kinds /\ room \in Capacities
  /\ enabled \in BOOLEAN /\ guard \in BOOLEAN
  /\ options \subseteq Options
  /\ Len(picked) <= MaxSelected
  /\ fetched \in 0..MaxSelected /\ Len(paths) <= fetched
  /\ budget \in 0..room.bytes
  /\ strings \in 0..1
  /\ selection.state \in {"Pending", "Cancelled", "Selected"}

Init ==
  /\ pc = "Idle" /\ kind \in Kinds /\ room \in Capacities
  /\ enabled \in BOOLEAN /\ guard = FALSE
  /\ options = {} /\ picked = << >> /\ paths = << >>
  /\ budget = 0 /\ strings = 0 /\ fetched = 0
  /\ selection = Nothing

pickVars == <<picked, paths, budget, strings, fetched>>

-----------------------------------------------------------------------------
\* modal_native_dialog: OwnerEnableGuard::new.
Enter ==
  /\ pc = "Idle" /\ selection = Nothing
  /\ pc' = "Create"
  /\ guard' = enabled /\ enabled' = FALSE
  /\ UNCHANGED <<kind, room, options, pickVars, selection>>

\* The end of the closure: its outcome is known, the guard is still alive.
Outcome(s) == pc' = "Leave" /\ selection' = s

\* CoCreateInstance, then GetOptions with whatever the shell's defaults are.
Create ==
  /\ pc = "Create"
  /\ \/ /\ pc' = "Configure"
        /\ options' \in SUBSET {"AllowMultiselect", "PickFolders"}
        /\ UNCHANGED selection
     \/ Outcome(Cancelled) /\ UNCHANGED options
  /\ UNCHANGED <<kind, room, enabled, guard, pickVars>>

\* The options of show_bounded_file_open_dialog and configure_single_path_dialog.
Configured ==
  CASE kind = "AddFiles" -> {"AllowMultiselect", "FileMustExist", "ForceFileSystem"}
    [] kind = "Import" ->
         (options \ {"AllowMultiselect", "PickFolders"}) \cup {"ForceFileSystem", "FileMustExist"}
    [] kind = "UnifyDestinationParent" ->
         (options \ {"AllowMultiselect"}) \cup {"ForceFileSystem", "PickFolders"}

Configure ==
  /\ pc = "Configure"
  /\ \/ pc' = "Show" /\ options' = Configured /\ UNCHANGED selection
     \/ Outcome(Cancelled) /\ UNCHANGED options
  /\ UNCHANGED <<kind, room, enabled, guard, pickVars>>

\* What the shell lets the user pick under the options set.
Pickable == {i \in Items : /\ i.folder = ("PickFolders" \in options)
                           /\ "ForceFileSystem" \in options => i.named}

MostPicked == IF "AllowMultiselect" \in options THEN MaxSelected ELSE 1

(***************************************************************************)
(* Show and complete_bounded_file_dialog: cancelled by the user, failed,   *)
(* or a result; a single-path dialog has one item.                         *)
(***************************************************************************)
Show ==
  /\ pc = "Show"
  /\ \/ /\ \E n \in 1..MostPicked : picked' \in [1..n -> Pickable]
        /\ budget' = room.bytes
        /\ pc' = "Fetch" /\ UNCHANGED selection
     \/ Outcome(Cancelled) /\ UNCHANGED <<picked, budget>>
  /\ UNCHANGED <<kind, room, enabled, guard, options, paths, strings, fetched>>

-----------------------------------------------------------------------------
\* Mutant: no witness beyond the room left.
bounded_selectionExact == IF Len(picked) > room.count THEN room.count ELSE Len(picked)

\* bounded_selection: at most one item more than the list has room for.
bounded_selection ==
  IF Len(picked) > room.count + 1 THEN room.count + 1 ELSE Len(picked)

Take == IF kind = "AddFiles" THEN bounded_selection ELSE 1

\* GetItemAt and GetDisplayName: the string returned belongs to the caller.
Fetch ==
  /\ pc = "Fetch"
  /\ IF fetched = Take THEN Outcome(Selected(paths)) /\ UNCHANGED <<strings, fetched>>
     ELSE \/ /\ picked[fetched + 1].named
             /\ strings' = strings + 1
             /\ fetched' = fetched + 1
             /\ pc' = "Name" /\ UNCHANGED selection
          \/ Outcome(Cancelled) /\ UNCHANGED <<strings, fetched>>
  /\ UNCHANGED <<kind, room, enabled, guard, options, picked, paths, budget>>

\* dialog_path_for_item: the length is checked while CoTaskMemPath owns the string.
Unsuitable(units) == units = 0 \/ units > MaxPathUnits

\* collect_bounded_dialog_paths keeps the path that exhausts the budget.
Collected(units) == paths \o <<units>>

\* PathBudget::reserve_utf16_units: the path does not fit.
Exhausted(units) == kind = "AddFiles" /\ 2 * units > budget

\* CoTaskMemPath::drop runs on every way out of dialog_path_for_item.
Freed(units) == 1

Name ==
  /\ pc = "Name"
  /\ LET units == picked[fetched].units
     IN  /\ strings' = strings - Freed(units)
         /\ IF Unsuitable(units) THEN Outcome(Cancelled) /\ UNCHANGED <<paths, budget>>
            ELSE /\ paths' = Collected(units)
                 /\ IF Exhausted(units)
                    THEN budget' = 0 /\ Outcome(Selected(paths'))
                    ELSE /\ budget' = IF kind = "AddFiles" THEN budget - 2 * units ELSE budget
                         /\ pc' = "Fetch" /\ UNCHANGED selection
  /\ UNCHANGED <<kind, room, enabled, guard, options, picked, fetched>>

\* OwnerEnableGuard::drop.
Restored == IF guard THEN TRUE ELSE enabled

Leave ==
  /\ pc = "Leave" /\ pc' = "Idle"
  /\ enabled' = Restored /\ guard' = FALSE
  /\ options' = {}
  /\ UNCHANGED <<kind, room, pickVars, selection>>

Next == Enter \/ Create \/ Configure \/ Show \/ Fetch \/ Name \/ Leave

Spec == Init /\ [][Next]_vars

-----------------------------------------------------------------------------
RECURSIVE SumOf(_)
SumOf(s) == IF s = << >> THEN 0 ELSE Head(s) + SumOf(Tail(s))

(***************************************************************************)
(* No file the user selected is left out silently: when fewer paths are    *)
(* handed on than were picked, the ones handed on do not fit the list      *)
(* either, and admission reports that.                                     *)
(***************************************************************************)
NothingDroppedSilently ==
  (selection.state = "Selected" /\ Len(selection.paths) < Len(picked)) =>
    \/ Len(selection.paths) > room.count
    \/ 2 * SumOf(selection.paths) > room.bytes

(***************************************************************************)
(* However many items were picked, the work is bounded by the room left:   *)
(* at most one path over the count or the budget is fetched.               *)
(***************************************************************************)
WorkIsBounded ==
  kind = "AddFiles" =>
    /\ fetched <= room.count + 1
    /\ Len(paths) > 1 => 2 * SumOf(SubSeq(paths, 1, Len(paths) - 1)) <= room.bytes

(***************************************************************************)
(* Every name the shell allocated is freed by the time the dialog's result *)
(* is known, on every error path.                                          *)
(***************************************************************************)
NamesFreed == pc \in {"Leave", "Idle"} => strings = 0

(***************************************************************************)
(* A destination is one folder and an import one file, whatever options    *)
(* the shell's dialog starts with; only AddFiles yields several.           *)
(***************************************************************************)
SelectionFits ==
  selection.state = "Selected" =>
    CASE kind = "AddFiles" -> \A i \in DOMAIN picked : ~picked[i].folder
      [] kind = "Import" -> Len(picked) = 1 /\ ~picked[1].folder
      [] kind = "UnifyDestinationParent" -> Len(picked) = 1 /\ picked[1].folder

(***************************************************************************)
(* Whatever fails, the dialog comes to an end and leaves the owner window  *)
(* as it found it: usable, or disabled by an outer modal dialog.           *)
(***************************************************************************)
OwnerRestored ==
  \A b \in BOOLEAN :
    (pc = "Idle" /\ selection = Nothing /\ enabled = b)
      ~> (pc = "Idle" /\ selection # Nothing /\ enabled = b)
=============================================================================
