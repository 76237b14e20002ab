---------------------------- MODULE MCRenamePath ----------------------------
(***************************************************************************)
(* The parts of the rename path outside the transaction itself, each on an *)
(* instance of its own: journal records, journal file, schedule and        *)
(* confirmation, planner, native rename, the texts of the confirmation.    *)
(* They share no state, so one of them runs in a behaviour.                *)
(***************************************************************************)
EXTENDS Integers, Sequences, FiniteSets, TLC

CONSTANTS NoFile, Outside   \* no file, a file outside the plan

-----------------------------------------------------------------------------
\* Records of a chain of three renames, k-th file from key k to key k - 1.
ChainRows == [k \in 1..3 |-> [entry |-> k, identity |-> k, source |-> k, destination |-> k - 1]]
ChainSteps == [k \in 1..3 |-> [entry |-> k, identity |-> k, source |-> k, destination |-> k - 1,
                               phase |-> "None"]]
ChainOcc == [n \in 0..3 |-> [key \in 0..3 |->
               IF key < n THEN key + 1 ELSE IF key = n THEN NoFile ELSE key]]

\* The journal file of a plan of one step, its fields damaged to every value
\* a frame of it can hold, to values just outside those, and to no field.
OneRow == <<[entry |-> 1, identity |-> 1, source |-> 1, destination |-> 0]>>
OneStep == <<[entry |-> 1, identity |-> 1, source |-> 1, destination |-> 0, phase |-> "None"]>>
OneOcc == [n \in 0..1 |-> [key \in {0, 1} |-> IF (n = 0) = (key = 1) THEN 1 ELSE NoFile]]
Damage == {<<n>> : n \in 0..7} \cup {<< >>}

\* Two folders with two names each, and a fifth name for a temporary.
ScheduleKeys == {"p", "q"} \X {"a", "b"} \cup {<<"p", "c">>}

-----------------------------------------------------------------------------
(***************************************************************************)
(* Two drives (D: is not NTFS), a remote one, a directory with an alias, a *)
(* second directory that holds a hard link of a file of the first, a       *)
(* junction and a case-sensitive directory.                                *)
(***************************************************************************)
Drives == {"C:", "D:", "E:", "N:"}

Spellings == {"lo", "l1", "e", "cs", "j", "d", "s", "a", "A", "b", "c", "x", "bad"}
Fold == [n \in Spellings |-> IF n = "A" THEN "a" ELSE n]

Node(type, volume, reparse) == [kind |-> type, volume |-> volume, reparse |-> reparse]

Nodes ==
  [x \in Drives |-> Node("Directory", x, FALSE)]
  @@ [x \in {"dlo", "de", "dcs", "nd", "ns"} |-> Node("Directory", "C:", FALSE)]
  @@ [x \in {"fa", "fb"} |-> Node("File", "C:", FALSE)]
  @@ "jn" :> Node("Directory", "C:", TRUE)

Entry(dir, spelling, alias, node) ==
  [dir |-> dir, spelling |-> spelling, alias |-> alias, node |-> node]

PlanWorlds ==
  {[entries |-> {Entry("C:", "lo", "l1", "dlo"), Entry("C:", "e", "none", "de"),
                 Entry("C:", "cs", "none", "dcs"), Entry("C:", "j", "none", "jn"),
                 Entry("dlo", "A", "x", "fa"), Entry("dlo", "b", "none", "fb"),
                 Entry("de", "a", "none", "fa")},
    caseSensitive |-> {"dcs"}, foreign |-> {"D:"}, remote |-> {"N:"}]}

Intent(id, path, parent, name, type) ==
  [id |-> id, source |-> path, parent |-> parent, name |-> name, kind |-> type]

LO == <<"C:", "lo">>
L1 == <<"C:", "l1">>
EE == <<"C:", "e">>

\* Every row over these ends, alone.
Sources == {<<"C:", "lo", "a">>, <<"C:", "l1", "x">>, <<"C:", "lo", "c">>, <<"C:", "lo">>,
            <<"C:", "j">>, <<"C:", "j", "a">>, <<"C:", "cs", "a">>, <<"a">>, <<"C:", "e", "b", "c">>}
Parents == {LO, L1, EE, <<"C:">>, <<"D:">>, <<"E:">>, <<"N:">>, <<"C:", "cs">>, <<"e">>}
Single  == {<<Intent(1, s, p, n, t)>> : s \in Sources, p \in Parents,
                                        n \in {"a", "c", "x", "bad"}, t \in {"File", "Directory"}}

\* Rows that interact, in pairs and with a third row.
Pool == {<<<<"C:", "lo", "A">>, LO, "c", "File">>, <<<<"C:", "lo", "A">>, LO, "a", "File">>,
         <<<<"C:", "lo", "A">>, LO, "b", "File">>, <<<<"C:", "l1", "x">>, LO, "c", "File">>,
         <<<<"C:", "lo", "b">>, LO, "a", "File">>, <<<<"C:", "l1", "b">>, L1, "x", "File">>,
         <<<<"C:", "e", "a">>, EE, "c", "File">>, <<<<"C:", "e", "a">>, LO, "c", "File">>,
         <<<<"C:", "l1", "a">>, L1, "a", "File">>, <<<<"C:", "lo", "c">>, LO, "c", "File">>,
         <<<<"C:", "lo">>, <<"C:">>, "c", "Directory">>, <<<<"C:", "lo">>, LO, "c", "Directory">>,
         <<<<"C:", "e">>, <<"C:">>, "lo", "Directory">>}
Row(id, t) == Intent(id, t[1], t[2], t[3], t[4])
Pairs   == {<<Row(1, s), Row(2, t)>> : s \in Pool, t \in Pool}
Cycle   == <<Row(1, <<<<"C:", "lo", "A">>, LO, "b", "File">>),
             Row(2, <<<<"C:", "lo", "b">>, EE, "a", "File">>),
             Row(3, <<<<"C:", "e", "a">>, LO, "a", "File">>)>>
SameId  == <<Row(1, <<<<"C:", "lo", "A">>, LO, "c", "File">>),
             Row(1, <<<<"C:", "e", "a">>, EE, "c", "File">>)>>

AllRequests  == Single \cup Pairs \cup {Cycle, SameId, <<>>}
PairRequests == {p \in Pairs : p[1] # p[2]} \cup {Cycle}

\* One directory inside another, a file and a hard link to it; renames in
\* place, between directories, of a directory and to another drive.
RenameWorlds ==
  {[entries |-> {Entry("C:", "d", "none", "nd"), Entry("nd", "s", "none", "ns"),
                 Entry("ns", "A", "x", "fa"), Entry("nd", "b", "none", "fa")},
    caseSensitive |-> {}, foreign |-> {}, remote |-> {}]}

Rename(s, d, node, sp, dp, type, scope) ==
  [source |-> s, destination |-> d, node |-> node, sourceParent |-> sp,
   destinationParent |-> dp, kind |-> type, scope |-> scope]
Operations ==
  {Rename(<<"C:", "d", "s", "A">>, <<"C:", "d", "s", "b">>, "fa", "ns", "ns", "Any", "SameParent"),
   Rename(<<"C:", "d", "s", "A">>, <<"C:", "d", "s", "a">>, "fa", "ns", "ns", "File", "SameParent"),
   Rename(<<"C:", "d", "s", "A">>, <<"C:", "d", "a">>, "fa", "ns", "nd", "File", "SameVolumeFilesOnly"),
   Rename(<<"C:", "d", "s">>, <<"C:", "d", "x">>, "ns", "nd", "nd", "Directory", "SameParent"),
   Rename(<<"C:", "d", "s">>, <<"C:", "x">>, "ns", "nd", "C:", "Directory", "SameVolumeFilesOnly"),
   Rename(<<"C:", "d", "b">>, <<"D:", "b">>, "fa", "nd", "D:", "File", "SameVolumeFilesOnly")}

-----------------------------------------------------------------------------

VARIABLES
  component,   \* the component that runs in this behaviour
  \* JournalReplay
  records,
  \* JournalCodec
  file, cap, written, inflight, damaged, refused,
  \* Schedule
  plan, busy, schedule_pc, pending, ready, reserved, pivot, freed, probes,
  schedule, spelling, summary,
  \* Planner
  planner_world, request, planner_pc, k, issues, source, rows, seen, outcome,
  cancel, planner_faults, planner_disturbances,
  \* NativeRename
  native_world, op, native_pc, at, depth, sourceParent, destinationParent,
  handle, pinned, moved, result, native_faults, native_disturbances,
  \* ConfirmationDisplay
  before, after, different, compact, full, infotip

Replay == INSTANCE JournalReplay WITH
  Entries <- 1..3, Identities <- 1..3, Keys <- 0..3, RowCount <- 3,
  Rows <- ChainRows, StepCount <- 3, Steps <- ChainSteps, Occ <- ChainOcc,
  None <- NoFile, Foreign <- Outside, MaxRecords <- 18

Codec == INSTANCE JournalCodec WITH
  Entries <- {1}, Identities <- {1}, Keys <- {0, 1}, RowCount <- 1,
  Rows <- OneRow, StepCount <- 1, Steps <- OneStep, Occ <- OneOcc,
  None <- NoFile, Foreign <- Outside, MaxFrames <- 5, MaxPayload <- 6,
  MaxFile <- 47

Schedule == INSTANCE Schedule WITH
  None <- NoFile, Foreign <- Outside, Keys <- ScheduleKeys, MaxRows <- 3,
  MAX_TEMP_CANDIDATES <- 1, pc <- schedule_pc

Planner == INSTANCE Planner WITH
  Requests <- AllRequests, Worlds <- PlanWorlds, InvalidNames <- {"bad"},
  MAX_PLAN_PATH_DEPTH <- 2, MaxFaults <- 1, MaxDisturbances <- 0,
  world <- planner_world, pc <- planner_pc, faults <- planner_faults,
  disturbances <- planner_disturbances

Disturbed == INSTANCE Planner WITH
  Requests <- PairRequests, Worlds <- PlanWorlds, InvalidNames <- {"bad"},
  MAX_PLAN_PATH_DEPTH <- 2, MaxFaults <- 0, MaxDisturbances <- 1,
  world <- planner_world, pc <- planner_pc, faults <- planner_faults,
  disturbances <- planner_disturbances

Native == INSTANCE NativeRename WITH
  Worlds <- RenameWorlds, MaxFaults <- 1, MaxDisturbances <- 2,
  world <- native_world, pc <- native_pc, faults <- native_faults,
  disturbances <- native_disturbances

Display == INSTANCE ConfirmationDisplay WITH
  Units <- {"x", "\\", ":", "[", "High", "Low"}, MaxUnits <- 3,
  MaxDifferent <- 2, Budgets <- {2, 4}, DetailBudget <- 7

ASSUME Replay!MaxRecordsAssumption
ASSUME Codec!CodecAssumption
ASSUME Schedule!ScheduleAssumption
ASSUME Display!DisplayAssumption

replayVars == <<records>>
codecVars == <<file, cap, written, inflight, damaged, refused>>
scheduleVars == <<plan, busy, schedule_pc, pending, ready, reserved, pivot,
                  freed, probes, schedule, spelling, summary>>
plannerVars == <<planner_world, request, planner_pc, k, issues, source, rows,
                 seen, outcome, cancel, planner_faults, planner_disturbances>>
nativeVars == <<native_world, op, native_pc, at, depth, sourceParent,
                destinationParent, handle, pinned, moved, result,
                native_faults, native_disturbances>>
displayVars == <<before, after, different, compact, full, infotip>>

vars == <<component, replayVars, codecVars, scheduleVars, plannerVars, nativeVars,
  displayVars>>

\* The variables of a component that does not run are blank.
NoReplay ==
  records = 0
NoCodec ==
  file = 0 /\ cap = 0 /\ written = 0 /\ inflight = 0 /\ damaged = 0 /\
  refused = 0
NoSchedule ==
  plan = 0 /\ busy = 0 /\ schedule_pc = 0 /\ pending = 0 /\ ready = 0 /\
  reserved = 0 /\ pivot = 0 /\ freed = 0 /\ probes = 0 /\ schedule = 0 /\
  spelling = 0 /\ summary = 0
NoPlanner ==
  planner_world = 0 /\ request = 0 /\ planner_pc = 0 /\ k = 0 /\
  issues = 0 /\ source = 0 /\ rows = 0 /\ seen = 0 /\ outcome = 0 /\
  cancel = 0 /\ planner_faults = 0 /\ planner_disturbances = 0
NoNative ==
  native_world = 0 /\ op = 0 /\ native_pc = 0 /\ at = 0 /\ depth = 0 /\
  sourceParent = 0 /\ destinationParent = 0 /\ handle = 0 /\ pinned = 0 /\
  moved = 0 /\ result = 0 /\ native_faults = 0 /\ native_disturbances = 0
NoDisplay ==
  before = 0 /\ after = 0 /\ different = 0 /\ compact = 0 /\ full = 0 /\
  infotip = 0

Init ==
  \/ /\ component = "Replay" /\ Replay!Init
     /\ NoCodec /\ NoSchedule /\ NoPlanner /\ NoNative /\ NoDisplay
  \/ /\ component = "Codec" /\ Codec!Init
     /\ NoReplay /\ NoSchedule /\ NoPlanner /\ NoNative /\ NoDisplay
  \/ /\ component = "Schedule" /\ Schedule!ConfirmInit
     /\ NoReplay /\ NoCodec /\ NoPlanner /\ NoNative /\ NoDisplay
  \/ /\ component = "Planner" /\ Planner!Init
     /\ NoReplay /\ NoCodec /\ NoSchedule /\ NoNative /\ NoDisplay
  \/ /\ component = "Disturbed" /\ Disturbed!Init
     /\ NoReplay /\ NoCodec /\ NoSchedule /\ NoNative /\ NoDisplay
  \/ /\ component = "Native" /\ Native!Init
     /\ NoReplay /\ NoCodec /\ NoSchedule /\ NoPlanner /\ NoDisplay
  \/ /\ component = "Display" /\ Display!Init
     /\ NoReplay /\ NoCodec /\ NoSchedule /\ NoPlanner /\ NoNative

Next ==
  \/ /\ component = "Replay" /\ Replay!Next
     /\ UNCHANGED <<component, codecVars, scheduleVars, plannerVars,
                   nativeVars, displayVars>>
  \/ /\ component = "Codec" /\ Codec!Next
     /\ UNCHANGED <<component, replayVars, scheduleVars, plannerVars,
                   nativeVars, displayVars>>
  \/ /\ component = "Schedule" /\ Schedule!ConfirmNext
     /\ UNCHANGED <<component, replayVars, codecVars, plannerVars, nativeVars,
                   displayVars>>
  \/ /\ component = "Planner" /\ Planner!Next
     /\ UNCHANGED <<component, replayVars, codecVars, scheduleVars,
                   nativeVars, displayVars>>
  \/ /\ component = "Disturbed" /\ Disturbed!Next
     /\ UNCHANGED <<component, replayVars, codecVars, scheduleVars,
                   nativeVars, displayVars>>
  \/ /\ component = "Native" /\ Native!Next
     /\ UNCHANGED <<component, replayVars, codecVars, scheduleVars,
                   plannerVars, displayVars>>
  \/ /\ component = "Display" /\ Display!Next
     /\ UNCHANGED <<component, replayVars, codecVars, scheduleVars,
                   plannerVars, nativeVars>>

Spec == Init /\ [][Next]_vars

-----------------------------------------------------------------------------
(***************************************************************************)
(* The two readers of a journal agree on every stream of records: the      *)
(* executor's replay and the scan recovery acts on accept the same streams *)
(* and find the same steps in doubt, a stream that reads as clean moved    *)
(* all of the batch or none of it, and recovery can finish from whatever   *)
(* is left (JournalReplay).                                                *)
(***************************************************************************)
ReplayersAgree ==
  component = "Replay" =>
    /\ Replay!TypeOK /\ Replay!ScanAgreesWithReplay /\ Replay!AcceptedStreamsFold
    /\ Replay!CleanIsAllOrNothing /\ Replay!RecoveryCanFinish

(***************************************************************************)
(* What the journal file holds survives a crash and never says more than   *)
(* was written: a crash at any cell of a write loses the unconfirmed       *)
(* record only, a damaged cell never invents a record, and an open         *)
(* journal's memory is the file (JournalCodec).                            *)
(***************************************************************************)
JournalFileHonest ==
  component = "Codec" =>
    /\ Codec!TypeOK /\ Codec!CrashLosesOnlyTheUnconfirmed
    /\ Codec!DamageNeverInventsRecords /\ Codec!MemoryMatchesFile

(***************************************************************************)
(* The comment on read_journal_records promises that only a final frame is *)
(* ever reported as cut short (JournalCodec).                              *)
(***************************************************************************)
OnlyTheFinalFrameIsTorn == component = "Codec" => Codec!OnlyTheFinalFrameIsTorn

(***************************************************************************)
(* What is planned can be done. A plan the planner accepts is executable   *)
(* on the directories as they are, a row it refuses has a reason there, a  *)
(* cancelled planning hands out nothing, and two rows share a source only  *)
(* when another process interfered; a schedule can be executed step by     *)
(* step on its plan, realises it, spends one temporary name per cycle, and *)
(* is refused only when two rows share a source (Planner, Schedule).       *)
(***************************************************************************)
PlanSound ==
  /\ component = "Planner" =>
       /\ Planner!TypeOK /\ Planner!AcceptedIsExecutable
       /\ Planner!RefusalIsJustified /\ Planner!CancelledHandsOutNothing
  /\ component = "Disturbed" => Disturbed!SharedSourceMeansDisturbed
  /\ component = "Schedule" =>
       /\ Schedule!ScheduleIsExecutable /\ Schedule!ScheduleRealisesPlan
       /\ Schedule!OneTemporaryPerCycle /\ Schedule!InvalidOnlyForSharedSource

(***************************************************************************)
(* The native rename moves only the planned file, whatever other processes *)
(* do between its calls; Ok and NotApplied are true of the paths, and it   *)
(* is uncertain only after a failed call (NativeRename).                   *)
(***************************************************************************)
RenameOutcomeTrue ==
  component = "Native" =>
    /\ Native!TypeOK /\ Native!MovesOnlyThePlanned /\ Native!OkIsTrueOfThePaths
    /\ Native!NotAppliedIsCertain /\ Native!UncertaintyNeedsAFault

(***************************************************************************)
(* What the user confirms is what will happen: cycles are counted, the     *)
(* headline and the folder shown are true of every row, and the texts of   *)
(* two different names never look the same, fit their width, show the      *)
(* change and say where they were cut (Schedule, ConfirmationDisplay).     *)
(***************************************************************************)
ConfirmationTruthful ==
  /\ component = "Schedule" =>
       /\ Schedule!CyclesAreCounted /\ Schedule!RefusedOnlyForFolderSpelling
       /\ Schedule!HeadlineTrueOfEveryRow /\ Schedule!FolderIsEveryRows
  /\ component = "Display" =>
       /\ Display!DiagnosticsInjective /\ Display!FitsBudget /\ Display!ChangeIsShown
       /\ Display!ChangeIsVisible /\ Display!ElisionIsTold /\ Display!ClippedWhole
=============================================================================
