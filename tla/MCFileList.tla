----------------------------- MODULE MCFileList -----------------------------
(***************************************************************************)
(* The parts behind the file list, one in each behaviour: adding files and *)
(* folders, drops, icons, text imports and their diagnostic trace, the     *)
(* list and its commands, and the list on screen.                          *)
(***************************************************************************)
EXTENDS Integers, Sequences, FiniteSets

CONSTANTS a, b   \* two icon classes

-----------------------------------------------------------------------------
(***************************************************************************)
(* A folder with a nested folder, a bad leaf name, a directory met again   *)
(* under another path, one below the depth limit and every kind of root    *)
(* that is refused; capacities and budgets below, at and above the need.   *)
(***************************************************************************)
TreePath == 1..13

TreeKind == [p \in TreePath |->
  CASE p \in {1, 3, 6, 11, 13} -> "Directory"
    [] p = 4 -> "BadName" [] p = 7 -> "Relative" [] p = 8 -> "Unreadable"
    [] p = 9 -> "Reparse" [] p = 10 -> "Invalid" [] OTHER -> "File"]

TreeIdentity == [p \in TreePath |-> IF p = 6 THEN 1 ELSE p]

TreeChild == [p \in TreePath |->
  CASE p = 1 -> {2, 3, 4} [] p = 3 -> {5, 6, 13} [] p = 6 -> {12} [] OTHER -> {}]

TreeBytes == [p \in TreePath |-> IF p \in {2, 5} THEN 2 ELSE IF p = 12 THEN 3 ELSE 1]

TreeRoots == {<<12, 2>>, <<2, 1>>, <<1, 12, 2>>, <<7, 8, 2>>, <<9, 10, 11>>, <<6, 3>>,
              <<12, 5, 2, 12>>, <<2, 12, 6>>, <<5, 2, 12, 9, 6>>}

AdmissionRequests == [roots : TreeRoots, mode : {"None", "Direct", "Recurse"},
                      capacity : {0, 2, 3, 4, 6, 8}, budget : {2, 5, 7, 20}]

\* Texts of a letter, a line feed, a space, a lone surrogate and the mark's
\* own unit; files that no export wrote.
ImportTexts ==
  UNION { [1..n -> {97, 10}] : n \in 0..3 }
  \cup UNION { [1..n -> {97, 10, 32, 55296, 65279}] : n \in 1..2 }
  \cup {<<97, 32, 97>>, <<32, 10, 97>>}
ImportFiles == {<< >>, <<97>>, <<255>>, <<255, 254, 97>>, <<97, 10, 97, 10, 97, 10>>}

\* Two folders, a drive root, files with and without digits and extensions,
\* a directory, paths that differ in case.
ListPool == {[source |-> <<":", "\\", "a", "1", ".", "b">>, dir |-> FALSE, size |-> 1],
             [source |-> <<":", "\\", "A">>, dir |-> TRUE, size |-> 2],
             [source |-> <<":", "\\", "a">>, dir |-> FALSE, size |-> 1]}
ListTexts == {<<>>, <<"a">>, <<"\\">>, <<"1", "a">>}
ListParents == {<<":", "\\", "b", "\\">>, <<":", "/">>, <<":", "\\", "a">>}
ListImports == {<<" ", "\r", "\n", "a", " ", "\r", "\n", "1">>}

\* Files of two folders. "a" and "A" are one name to the file system, "nul"
\* is refused by Windows and ".x" has no stem.
ViewNames == {"a", "A", "nul", ".x"}
ViewKeys == [n \in ViewNames |-> IF n = "A" THEN "a" ELSE n]
ViewItem(name, home, size) ==
  [name |-> name, home |-> home, proposed |-> name, parent |-> home, size |-> size]
ViewPair == {ViewItem("a", "p", 2), ViewItem(".x", "p", 1)}
ViewPool == ViewPair \cup {ViewItem("a", "q", 3)}

-----------------------------------------------------------------------------

VARIABLES
  component,   \* the component that runs in this behaviour
  \* Admission
  request, admission_pc, mode, admission_index, stack, current,
  admission_seen, inspected, remaining, admission_items, issues, expanded,
  cancel, word, rendered,
  \* DragDrop
  registered, sidecar, setup, window, locked, leased, rows, source,
  format_supported, presentation, skipped, drop_pc, medium, extracted,
  effect, drop_admission,
  \* IconPipeline
  requests, retiring, wake_enabled, ui_wake_pending, unavailable,
  work_pending, work_wake, ui_wake, lost, refreshes, worker, joined, key,
  resolved, attached, cache, batch, ack, reconcile, demand, cursor,
  continue_posted, timer, close_pending, poll,
  \* TextImport
  disk, origin, grown, import_pc, buffer, import_seen, result, cancellation,
  outcome,
  \* ImportTrace
  trace, now, rev, text, reader, trace_admission, phase, render, renders,
  names, others, wrote,
  \* ListModel
  edits_items, name_units, path_units, revision, identity, edits_index,
  edits_last, edits_ops,
  \* ListRefresh
  model, view, shown, planned, busy, view_last, view_ops, faults

Admission == INSTANCE Admission WITH
  Path <- TreePath, Kind <- TreeKind, Identity <- TreeIdentity,
  Child <- TreeChild, Bytes <- TreeBytes, Unlistable <- {11},
  Requests <- AdmissionRequests, MaxDepth <- 2, WordBits <- 5,
  pc <- admission_pc, index <- admission_index, seen <- admission_seen,
  items <- admission_items

Drop == INSTANCE DragDrop WITH
  MaxRows <- 2, MaxPaths <- 3, Budget <- 2, pc <- drop_pc,
  admission <- drop_admission

Icons == INSTANCE IconPipeline WITH
  Class <- {a, b}, MaxPending <- 2, MaxSerial <- 4, MaxGeneration <- 1,
  Rows <- 2, Chunk <- 1, CacheLimit <- 1, MaxRefreshes <- 1, MaxLost <- 1

Import == INSTANCE TextImport WITH
  Texts <- ImportTexts, RawFiles <- ImportFiles, MaxBytes <- 8,
  MaxGrowth <- 2, Remaining <- 1, pc <- import_pc, seen <- import_seen

\* Every kind of import and addition.
Trace == INSTANCE ImportTrace WITH
  MaxImports <- 1, MaxNames <- 1, MaxOthers <- 1, MaxRenders <- 1,
  MaxTick <- 1, admission <- trace_admission

\* A status text written twice.
TraceTwice == INSTANCE ImportTrace WITH
  MaxImports <- 1, MaxNames <- 1, MaxOthers <- 0, MaxRenders <- 2,
  MaxTick <- 1, admission <- trace_admission

\* One import of paths after another, late answers of the first included.
TraceNext == INSTANCE ImportTrace WITH
  MaxImports <- 2, MaxNames <- 0, MaxOthers <- 0, MaxRenders <- 1,
  MaxTick <- 1, admission <- trace_admission

\* A clock that advances between any two steps.
TraceClock == INSTANCE ImportTrace WITH
  MaxImports <- 1, MaxNames <- 1, MaxOthers <- 0, MaxRenders <- 1,
  MaxTick <- 2, admission <- trace_admission

Edits == INSTANCE ListModel WITH
  Pool <- ListPool, Texts <- ListTexts, Parents <- ListParents,
  Imports <- ListImports, MaxRows <- 3, MaxName <- 5, MaxNames <- 9,
  MaxParent <- 3, MaxPlanned <- 16, ChunkCapacity <- 2, MaxRevision <- 2,
  I32Max <- 11, MaxOps <- 3, items <- edits_items, index <- edits_index,
  last <- edits_last, ops <- edits_ops

Rows == INSTANCE ListModel WITH
  Pool <- ListPool, Texts <- ListTexts, Parents <- ListParents,
  Imports <- ListImports, MaxRows <- 4, MaxName <- 5, MaxNames <- 9,
  MaxParent <- 3, MaxPlanned <- 17, ChunkCapacity <- 2, MaxRevision <- 2,
  I32Max <- 11, MaxOps <- 4, items <- edits_items, index <- edits_index,
  last <- edits_last, ops <- edits_ops

View == INSTANCE ListRefresh WITH
  Names <- ViewNames, KeyOf <- ViewKeys, BadNames <- {"nul"},
  NoStem <- {".x"}, Pool <- ViewPool, Parents <- {"p", "q"}, MaxRows <- 3,
  MaxOps <- 4, MaxFaults <- 1, last <- view_last, ops <- view_ops

Faults == INSTANCE ListRefresh WITH
  Names <- ViewNames, KeyOf <- ViewKeys, BadNames <- {"nul"},
  NoStem <- {".x"}, Pool <- ViewPair, Parents <- {"p", "q"}, MaxRows <- 2,
  MaxOps <- 3, MaxFaults <- 3, last <- view_last, ops <- view_ops

ASSUME Admission!AdmissionAssumption
ASSUME Drop!DragDropAssumption
ASSUME Icons!IconRequestsAssumption
ASSUME Icons!IconPipelineAssumption
ASSUME Import!ImportAssumption
ASSUME Trace!TraceAssumption
ASSUME Edits!ListModelAssumption
ASSUME View!PreviewCacheAssumption
ASSUME View!ListRefreshAssumption

admissionVars == <<request, admission_pc, mode, admission_index, stack,
                   current, admission_seen, inspected, remaining,
                   admission_items, issues, expanded, cancel, word, rendered>>
dropVars == <<registered, sidecar, setup, window, locked, leased, rows,
              source, format_supported, presentation, skipped, drop_pc,
              medium, extracted, effect, drop_admission>>
iconsVars == <<requests, retiring, wake_enabled, ui_wake_pending,
               unavailable, work_pending, work_wake, ui_wake, lost,
               refreshes, worker, joined, key, resolved, attached, cache,
               batch, ack, reconcile, demand, cursor, continue_posted, timer,
               close_pending, poll>>
importVars == <<disk, origin, grown, import_pc, buffer, import_seen, result,
                cancellation, outcome>>
traceVars == <<trace, now, rev, text, reader, trace_admission, phase, render,
               renders, names, others, wrote>>
editsVars == <<edits_items, name_units, path_units, revision, identity,
               edits_index, edits_last, edits_ops>>
viewVars == <<model, view, shown, planned, busy, view_last, view_ops, faults>>

vars == <<component, admissionVars, dropVars, iconsVars, importVars, traceVars,
  editsVars, viewVars>>

\* The variables of a component that does not run are blank.
NoAdmission ==
  request = 0 /\ admission_pc = 0 /\ mode = 0 /\ admission_index = 0 /\
  stack = 0 /\ current = 0 /\ admission_seen = 0 /\ inspected = 0 /\
  remaining = 0 /\ admission_items = 0 /\ issues = 0 /\ expanded = 0 /\
  cancel = 0 /\ word = 0 /\ rendered = 0
NoDrop ==
  registered = 0 /\ sidecar = 0 /\ setup = 0 /\ window = 0 /\ locked = 0 /\
  leased = 0 /\ rows = 0 /\ source = 0 /\ format_supported = 0 /\
  presentation = 0 /\ skipped = 0 /\ drop_pc = 0 /\ medium = 0 /\
  extracted = 0 /\ effect = 0 /\ drop_admission = 0
NoIcons ==
  requests = 0 /\ retiring = 0 /\ wake_enabled = 0 /\ ui_wake_pending = 0 /\
  unavailable = 0 /\ work_pending = 0 /\ work_wake = 0 /\ ui_wake = 0 /\
  lost = 0 /\ refreshes = 0 /\ worker = 0 /\ joined = 0 /\ key = 0 /\
  resolved = 0 /\ attached = 0 /\ cache = 0 /\ batch = 0 /\ ack = 0 /\
  reconcile = 0 /\ demand = 0 /\ cursor = 0 /\ continue_posted = 0 /\
  timer = 0 /\ close_pending = 0 /\ poll = 0
NoImport ==
  disk = 0 /\ origin = 0 /\ grown = 0 /\ import_pc = 0 /\ buffer = 0 /\
  import_seen = 0 /\ result = 0 /\ cancellation = 0 /\ outcome = 0
NoTrace ==
  trace = 0 /\ now = 0 /\ rev = 0 /\ text = 0 /\ reader = 0 /\
  trace_admission = 0 /\ phase = 0 /\ render = 0 /\ renders = 0 /\
  names = 0 /\ others = 0 /\ wrote = 0
NoEdits ==
  edits_items = 0 /\ name_units = 0 /\ path_units = 0 /\ revision = 0 /\
  identity = 0 /\ edits_index = 0 /\ edits_last = 0 /\ edits_ops = 0
NoView ==
  model = 0 /\ view = 0 /\ shown = 0 /\ planned = 0 /\ busy = 0 /\
  view_last = 0 /\ view_ops = 0 /\ faults = 0

Init ==
  \/ /\ component = "Admission" /\ Admission!Init
     /\ NoDrop /\ NoIcons /\ NoImport /\ NoTrace /\ NoEdits /\ NoView
  \/ /\ component = "Drop" /\ Drop!Init
     /\ NoAdmission /\ NoIcons /\ NoImport /\ NoTrace /\ NoEdits /\ NoView
  \/ /\ component = "Icons" /\ Icons!Init
     /\ NoAdmission /\ NoDrop /\ NoImport /\ NoTrace /\ NoEdits /\ NoView
  \/ /\ component = "Import" /\ Import!Init
     /\ NoAdmission /\ NoDrop /\ NoIcons /\ NoTrace /\ NoEdits /\ NoView
  \/ /\ component = "Trace" /\ Trace!Init
     /\ NoAdmission /\ NoDrop /\ NoIcons /\ NoImport /\ NoEdits /\ NoView
  \/ /\ component = "TraceTwice" /\ TraceTwice!Init
     /\ NoAdmission /\ NoDrop /\ NoIcons /\ NoImport /\ NoEdits /\ NoView
  \/ /\ component = "TraceNext" /\ TraceNext!Init
     /\ NoAdmission /\ NoDrop /\ NoIcons /\ NoImport /\ NoEdits /\ NoView
  \/ /\ component = "TraceClock" /\ TraceClock!Init
     /\ NoAdmission /\ NoDrop /\ NoIcons /\ NoImport /\ NoEdits /\ NoView
  \/ /\ component = "Edits" /\ Edits!Init
     /\ NoAdmission /\ NoDrop /\ NoIcons /\ NoImport /\ NoTrace /\ NoView
  \/ /\ component = "Rows" /\ Rows!Init
     /\ NoAdmission /\ NoDrop /\ NoIcons /\ NoImport /\ NoTrace /\ NoView
  \/ /\ component = "View" /\ View!Init
     /\ NoAdmission /\ NoDrop /\ NoIcons /\ NoImport /\ NoTrace /\ NoEdits
  \/ /\ component = "Faults" /\ Faults!Init
     /\ NoAdmission /\ NoDrop /\ NoIcons /\ NoImport /\ NoTrace /\ NoEdits

Next ==
  \/ /\ component = "Admission" /\ Admission!Next
     /\ UNCHANGED <<component, dropVars, iconsVars, importVars, traceVars,
                   editsVars, viewVars>>
  \/ /\ component = "Drop" /\ Drop!Next
     /\ UNCHANGED <<component, admissionVars, iconsVars, importVars,
                   traceVars, editsVars, viewVars>>
  \/ /\ component = "Icons" /\ Icons!Next
     /\ UNCHANGED <<component, admissionVars, dropVars, importVars, traceVars,
                   editsVars, viewVars>>
  \/ /\ component = "Import" /\ Import!Next
     /\ UNCHANGED <<component, admissionVars, dropVars, iconsVars, traceVars,
                   editsVars, viewVars>>
  \/ /\ component = "Trace" /\ Trace!Next
     /\ UNCHANGED <<component, admissionVars, dropVars, iconsVars, importVars,
                   editsVars, viewVars>>
  \/ /\ component = "TraceTwice" /\ TraceTwice!Next
     /\ UNCHANGED <<component, admissionVars, dropVars, iconsVars, importVars,
                   editsVars, viewVars>>
  \/ /\ component = "TraceNext" /\ TraceNext!Next
     /\ UNCHANGED <<component, admissionVars, dropVars, iconsVars, importVars,
                   editsVars, viewVars>>
  \/ /\ component = "TraceClock" /\ TraceClock!Next
     /\ UNCHANGED <<component, admissionVars, dropVars, iconsVars, importVars,
                   editsVars, viewVars>>
  \/ /\ component = "Edits" /\ Edits!Next
     /\ UNCHANGED <<component, admissionVars, dropVars, iconsVars, importVars,
                   traceVars, viewVars>>
  \/ /\ component = "Rows" /\ Rows!RowsNext
     /\ UNCHANGED <<component, admissionVars, dropVars, iconsVars, importVars,
                   traceVars, viewVars>>
  \/ /\ component = "View" /\ View!Next
     /\ UNCHANGED <<component, admissionVars, dropVars, iconsVars, importVars,
                   traceVars, editsVars>>
  \/ /\ component = "Faults" /\ Faults!Next
     /\ UNCHANGED <<component, admissionVars, dropVars, iconsVars, importVars,
                   traceVars, editsVars>>

Spec == Init /\ [][Next]_vars

-----------------------------------------------------------------------------
(***************************************************************************)
(* Adding files is complete or says what is missing: an admission without  *)
(* a message took every file in order, within its budgets, no directory    *)
(* twice and no folder without an answer; a drop leaks no target and no    *)
(* medium, tells its source the truth and never overfills the list         *)
(* (Admission, DragDrop).                                                  *)
(***************************************************************************)
AdditionsComplete ==
  /\ component = "Admission" =>
       /\ Admission!TypeOK /\ Admission!SilentMeansComplete /\ Admission!ItemsInOrder
       /\ Admission!BoundedWork /\ Admission!ChildrenArePaidFor
       /\ Admission!NoDirectoryTwice /\ Admission!FoldersNeedAnAnswer
  /\ component = "Drop" =>
       /\ Drop!TypeOK /\ Drop!NoTargetLeaks /\ Drop!BothTargetsOrNone
       /\ Drop!MediumReleased /\ Drop!EffectIsTrue /\ Drop!NeverTooManyRows
       /\ Drop!OverlayGoesAway

(***************************************************************************)
(* Icons of the right generation reach the right rows through two threads, *)
(* lost wakes and a mutex the UI only tries: no stale result, one request  *)
(* per class, an acknowledgement only after delivery, the bootstrap        *)
(* request never lost, and a missing icon always watched by a timer or a   *)
(* message (IconPipeline).                                                 *)
(***************************************************************************)
IconsConsistent ==
  component = "Icons" =>
    /\ Icons!TypeOK /\ Icons!NoStaleResult /\ Icons!OneRequestPerClass
    /\ Icons!AckIsDelivered /\ Icons!BootstrapSurvives /\ Icons!MissingIconsAreWatched

(***************************************************************************)
(* An import is whole: never truncated silently, the text of an export     *)
(* comes back, a cancelled one is discarded and an excess reported; its    *)
(* diagnostic trace never calls a status coalesced that was written        *)
(* (TextImport, ImportTrace).                                              *)
(***************************************************************************)
ImportsWhole ==
  /\ component = "Import" =>
       /\ Import!TypeOK /\ Import!NeverTruncated /\ Import!ExportComesBack
       /\ Import!CancelledIsDiscarded /\ Import!ExcessIsReported
  /\ component = "Trace" => Trace!CoalescedNeverShown
  /\ component = "TraceTwice" => TraceTwice!CoalescedNeverShown
  /\ component = "TraceNext" => TraceNext!CoalescedNeverShown
  /\ component = "TraceClock" => TraceClock!CoalescedNeverShown

(***************************************************************************)
(* The running counters that guard the list's budgets are exact after any  *)
(* sequence of commands, a row found settled has its planned path, a size  *)
(* foreseen is the size made, and the append index holds the sources it    *)
(* claims to follow (ListModel).                                           *)
(***************************************************************************)
ListConsistent ==
  /\ component = "Edits" =>
       /\ Edits!CountersExact /\ Edits!SizesForeseen /\ Edits!MovedIsSettled
       /\ Edits!UnchangedMeansSamePath
  /\ component = "Rows" => Rows!TypeOK /\ Rows!IndexFollowsSources

(***************************************************************************)
(* The list on screen is the list in memory: caches patched row by row     *)
(* equal those computed from scratch, a view marked as synchronized shows  *)
(* the model whatever native call failed, the selection follows its files, *)
(* the controls are true, and a full refresh recovers (ListRefresh).       *)
(***************************************************************************)
ViewShowsModel ==
  /\ component = "View" =>
       /\ View!TypeOK /\ View!CachesAreExact /\ View!SelectionFollowsFiles
       /\ View!SynchronizedShowsModel
  /\ component = "Faults" =>
       /\ Faults!SynchronizedShowsModel /\ Faults!ControlsAreTrue
       /\ Faults!FullRefreshRecovers

(***************************************************************************)
(* What one step may never do: show older progress of an admission, change *)
(* the trace's frame without a new revision or invalidate it but for the   *)
(* three reasons it has, edit the list with a command that reports an      *)
(* error, sort unstably, separate a moved selection from its rows, or      *)
(* start an Apply of anything but what is shown.                           *)
(***************************************************************************)
ListSteps ==
  [][ /\ component = "Admission" => Admission!RenderedNeverGoesBack
      /\ component = "Trace" => Trace!FrameIsBracketed /\ Trace!InvalidatedOnlyBy
      /\ component = "TraceTwice" => TraceTwice!FrameIsBracketed /\ TraceTwice!InvalidatedOnlyBy
      /\ component = "TraceNext" => TraceNext!FrameIsBracketed /\ TraceNext!InvalidatedOnlyBy
      /\ component = "TraceClock" => TraceClock!FrameIsBracketed /\ TraceClock!InvalidatedOnlyBy
      /\ component = "Edits" => Edits!RefusedChangesNothing
      /\ component = "Rows" => Rows!SortIsStable /\ Rows!SelectionFollowsRows
      /\ component = "View" => View!ApplyIsWhatIsShown
    ]_vars
=============================================================================
