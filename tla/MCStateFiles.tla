---------------------------- MODULE MCStateFiles ----------------------------
(***************************************************************************)
(* The files the program keeps and writes, one in each behaviour:          *)
(* preferences, the runtime directory and its locks at startup, the        *)
(* recovery menu over retained journals, and text exports.                 *)
(***************************************************************************)
EXTENDS Integers, Sequences, FiniteSets, TLAPS

CONSTANTS
  \* Preferences: the ordinary settings and their values, and two sessions, one in
  \* which saves can fail and one that watches the language
  Ordinary, Value, Default,
  Choices, SettingsGenerations, SettingsFaults, SettingsCrashes,
  Languages, LanguageGenerations, LanguageCrashes,
  \* StartupRuntime
  Processes, Outsider, Nobody,
  \* RecoveryUi
  MaxForeign,
  \* TextExport
  Path, Dir, Attempts, MaxMoves

\* Descriptors of existing directories that startup tells apart.
Grants(sid, mask) ==
  [type |-> "Allow", inherit_only |-> FALSE, sid |-> sid, mask |-> mask]

OtherDescriptors ==
  { \* a profile directory: others may list it, the installer owns it
    [owner |-> "TrustedInstaller", dacl |-> <<Grants("Other", {"GenericRead"})>>],
    \* others may write through a generic right
    [owner |-> "User", dacl |-> <<Grants("Other", {"GenericWrite"})>>],
    \* others may rename or delete what is inside
    [owner |-> "User", dacl |-> <<Grants("Other", {"DeleteChild"})>>] }

VARIABLES
  component,   \* the component that runs in this behaviour
  \* Preferences
  settings_phase, settings_file, temp, shown, asked, writer, status, legacy,
  settings_chosen, faults, crashes,
  \* StartupRuntime
  chain, startup_content, linked, holder, pc, level, rt, crashed,
  \* RecoveryUi
  recovery_file, busy, handle, poisoned, astray, recovery_locked,
  collision_observed, dialog, started, close_pending, copies, report, foreign,
  \* TextExport
  place, entries, export_content, kind, export_phase, at, shell, folder,
  export_chosen, parent_id, target, tries, leftover, moves

Settings == INSTANCE Preferences WITH
  MaxGeneration <- SettingsGenerations, MaxFaults <- SettingsFaults,
  MaxCrashes <- SettingsCrashes,
  phase <- settings_phase, file <- settings_file, chosen <- settings_chosen

Language == INSTANCE Preferences WITH
  Choices <- Languages, MaxGeneration <- LanguageGenerations, MaxFaults <- 0,
  MaxCrashes <- LanguageCrashes,
  phase <- settings_phase, file <- settings_file, chosen <- settings_chosen

Startup == INSTANCE StartupRuntime WITH
  Directories <- OtherDescriptors, content <- startup_content

Recovery == INSTANCE RecoveryUi WITH
  file <- recovery_file

Export == INSTANCE TextExport WITH
  content <- export_content, phase <- export_phase, chosen <- export_chosen

ASSUME SettingsAssumption == Settings!PreferencesAssumption
ASSUME LanguageAssumption == Language!PreferencesAssumption
ASSUME RuntimeAssumption == Startup!StartupAssumption
ASSUME JournalsAssumption == Recovery!MaxForeignAssumption
ASSUME FoldersAssumption == Export!ExportAssumption

settingsVars == <<settings_phase, settings_file, temp, shown, asked, writer,
                  status, legacy, settings_chosen, faults, crashes>>
startupVars == <<chain, startup_content, linked, holder, pc, level, rt,
                 crashed>>
recoveryVars == <<recovery_file, busy, handle, poisoned, astray,
                  recovery_locked, collision_observed, dialog, started,
                  close_pending, copies, report, foreign>>
exportVars == <<place, entries, export_content, kind, export_phase, at,
                shell, folder, export_chosen, parent_id, target, tries,
                leftover, moves>>

vars == <<component, settingsVars, startupVars, recoveryVars, exportVars>>

\* The variables of a component that does not run are blank.
NoSettings ==
  settings_phase = 0 /\ settings_file = 0 /\ temp = 0 /\ shown = 0 /\
  asked = 0 /\ writer = 0 /\ status = 0 /\ legacy = 0 /\
  settings_chosen = 0 /\ faults = 0 /\ crashes = 0
NoStartup ==
  chain = 0 /\ startup_content = 0 /\ linked = 0 /\ holder = 0 /\ pc = 0 /\
  level = 0 /\ rt = 0 /\ crashed = 0
NoRecovery ==
  recovery_file = 0 /\ busy = 0 /\ handle = 0 /\ poisoned = 0 /\
  astray = 0 /\ recovery_locked = 0 /\ collision_observed = 0 /\
  dialog = 0 /\ started = 0 /\ close_pending = 0 /\ copies = 0 /\
  report = 0 /\ foreign = 0
NoExport ==
  place = 0 /\ entries = 0 /\ export_content = 0 /\ kind = 0 /\
  export_phase = 0 /\ at = 0 /\ shell = 0 /\ folder = 0 /\
  export_chosen = 0 /\ parent_id = 0 /\ target = 0 /\ tries = 0 /\
  leftover = 0 /\ moves = 0

Init ==
  \/ /\ component = "Settings" /\ Settings!Init
     /\ NoStartup /\ NoRecovery /\ NoExport
  \/ /\ component = "Language" /\ Language!Init
     /\ NoStartup /\ NoRecovery /\ NoExport
  \/ /\ component = "Startup" /\ Startup!Init
     /\ NoSettings /\ NoRecovery /\ NoExport
  \/ /\ component = "Recovery" /\ Recovery!Init
     /\ NoSettings /\ NoStartup /\ NoExport
  \/ /\ component = "Export" /\ Export!Init
     /\ NoSettings /\ NoStartup /\ NoRecovery

Next ==
  \/ /\ component = "Settings" /\ Settings!Next
     /\ UNCHANGED <<component, startupVars, recoveryVars, exportVars>>
  \/ /\ component = "Language" /\ Language!Next
     /\ UNCHANGED <<component, startupVars, recoveryVars, exportVars>>
  \/ /\ component = "Startup" /\ Startup!Next
     /\ UNCHANGED <<component, settingsVars, recoveryVars, exportVars>>
  \/ /\ component = "Recovery" /\ Recovery!Next
     /\ UNCHANGED <<component, settingsVars, startupVars, exportVars>>
  \/ /\ component = "Export" /\ Export!Next
     /\ UNCHANGED <<component, settingsVars, startupVars, recoveryVars>>

Spec == Init /\ [][Next]_vars

-----------------------------------------------------------------------------
(***************************************************************************)
(* Preferences survive crashes and failed writes: what a writer            *)
(* acknowledged is what the file holds, the language on screen is the one  *)
(* saved, and without a failed write the language of an earlier version is *)
(* kept (Preferences).                                                     *)
(***************************************************************************)
PreferencesDurable ==
  /\ component = "Settings" =>
       /\ Settings!TypeOK /\ Settings!AcknowledgedIsDurable /\ Settings!ShownLanguageIsSaved
  /\ component = "Language" => Language!LanguageOriginKept

(***************************************************************************)
(* At most one process has an unlocked runtime, it has none while a        *)
(* journal holds evidence of an unfinished batch, its lock is held as long *)
(* as a journal is, and everything it created is private to the user,      *)
(* while processes start, die and meet another program's handles           *)
(* (StartupRuntime).                                                       *)
(***************************************************************************)
StartupExclusive ==
  component = "Startup" =>
    /\ Startup!TypeOK /\ Startup!OneRuntime /\ Startup!UnlockedMeansNoEvidence
    /\ Startup!LockOutlivesJournals /\ Startup!StateIsPrivate

(***************************************************************************)
(* Evidence of an unfinished batch is kept and kept visible: a held        *)
(* journal locks Apply, a locked window keeps its evidence, a cursor that  *)
(* moved is poisoned (RecoveryUi).                                         *)
(***************************************************************************)
EvidenceKept ==
  component = "Recovery" =>
    /\ Recovery!TypeOK /\ Recovery!HeldMeansLocked /\ Recovery!LockedKeepsEvidence
    /\ Recovery!CursorOrPoisoned

(***************************************************************************)
(* A saved text is the whole text, at the place the user was shown, or     *)
(* nothing is left behind, whatever folders are moved meanwhile            *)
(* (TextExport).                                                           *)
(***************************************************************************)
ExportWhole ==
  component = "Export" =>
    /\ Export!TypeOK /\ Export!SavedWhereShown /\ Export!NeverPartial
    /\ Export!FailureLeavesNothing

(***************************************************************************)
(* What one step may never do: overwrite an unreadable settings file, end  *)
(* with settings unsaved, delete a journal with evidence at startup or     *)
(* from the recovery menu, unlock while a journal is there, report copies  *)
(* that are not complete, lose a copy, or replace a file of others.        *)
(***************************************************************************)
StateSteps ==
  [][ /\ component = "Settings" => Settings!UnreadableKept /\ Settings!ExitSavesSettings
      /\ component = "Startup" => Startup!StartupKeepsEvidence
      /\ component = "Recovery" =>
           /\ Recovery!UnlockFindsNothing /\ Recovery!DeletedOnlyWhenSafe
           /\ Recovery!ReportTruthful /\ Recovery!CopiesKept
      /\ component = "Export" => Export!NeverReplaces
    ]_vars

-----------------------------------------------------------------------------
(***************************************************************************)
(* Text exports: the steps of TextExport keep its invariant.               *)
(***************************************************************************)
LEMMA LeafFacts == "name" \in Export!Leaf /\ "stage" \in Export!Leaf /\ "link" \in Export!Leaf
BY DEF Export!Leaf

LEMMA ExportInvInit == ASSUME Export!ExportAssumption, Export!Init PROVE Export!ExportInv
<1>1. Export!TypeOK
  <2>1. entries \in [Dir -> [Export!Leaf -> {Export!None, "ours", "theirs"}]]
    BY DEF Export!Init, Export!None
  <2>2. tries \in 0 .. Attempts /\ moves \in 0 .. MaxMoves
    BY DEF Export!Init, Export!ExportAssumption
  <2>3. place \in [Path -> Dir] /\ (\A p, q \in Path : place[p] = place[q] => p = q)
    BY DEF Export!Init
  <2>. QED  BY <2>1, <2>2, <2>3 DEF Export!Init, Export!TypeOK, Export!Phase
<1>2. \A d \in Dir : entries[d]["name"] # "ours" /\ entries[d]["stage"] # "ours"
  BY DEF Export!Init, Export!Leaf, Export!None
<1>. QED  BY <1>1, <1>2 DEF Export!Init, Export!ExportInv, Export!TargetRetained,
  Export!NamesKnown, Export!NeverPartial, Export!FailureLeavesNothing, Export!Ours

\* A folder that the program holds stays where it is.
LEMMA MovedFolders ==
  ASSUME Export!ExportAssumption, Export!ExportInv,
         (\E p \in Path, d \in Dir : Export!MoveFolder(p, d)) \/ Export!SwapFolders
  PROVE  /\ place' \in [Path -> Dir] /\ (\A p, q \in Path : place'[p] = place'[q] => p = q)
         /\ moves' \in 0 .. MaxMoves
         /\ \A p \in Path : place[p] \in Export!Held => place'[p] = place[p]
         /\ UNCHANGED <<entries, export_content, kind, export_phase, Export!dialog, target, tries,
                         leftover>>
<1>0. /\ place \in [Path -> Dir] /\ moves \in 0 .. MaxMoves /\ MaxMoves \in Nat
      /\ \A p, q \in Path : place[p] = place[q] => p = q
  BY DEF Export!ExportInv, Export!TypeOK, Export!ExportAssumption
<1>1. ASSUME NEW p \in Path, NEW d \in Dir, Export!MoveFolder(p, d)
      PROVE  /\ place' \in [Path -> Dir] /\ (\A i, j \in Path : place'[i] = place'[j] => i = j)
             /\ \A i \in Path : place[i] \in Export!Held => place'[i] = place[i]
  BY <1>0, <1>1 DEF Export!MoveFolder
<1>2. ASSUME Export!SwapFolders
      PROVE  /\ place' \in [Path -> Dir] /\ (\A i, j \in Path : place'[i] = place'[j] => i = j)
             /\ \A i \in Path : place[i] \in Export!Held => place'[i] = place[i]
  <2>1. PICK p \in Path, q \in Path :
          /\ p # q /\ {place[p], place[q]} \cap Export!Held = {}
          /\ place' = [place EXCEPT ![p] = place[q], ![q] = place[p]]
    BY <1>2 DEF Export!SwapFolders
  <2>2. place' \in [Path -> Dir]
        /\ \A i \in Path : place'[i] = IF i = q THEN place[p]
                                       ELSE IF i = p THEN place[q] ELSE place[i]
    BY <1>0, <2>1
  <2>3. place[p] \notin Export!Held /\ place[q] \notin Export!Held
    BY <2>1
  <2>. QED  BY <1>0, <2>1, <2>2, <2>3
<1>3. moves' \in 0 .. MaxMoves
  BY <1>0 DEF Export!MoveFolder, Export!SwapFolders
<1>4. UNCHANGED <<entries, export_content, kind, export_phase, Export!dialog, target, tries,
                         leftover>>
  BY DEF Export!MoveFolder, Export!SwapFolders
<1>. QED  BY <1>1, <1>2, <1>3, <1>4

LEMMA MovesKeep ==
  ASSUME Export!ExportAssumption, Export!ExportInv,
         (\E p \in Path, d \in Dir : Export!MoveFolder(p, d)) \/ Export!SwapFolders
  PROVE  Export!ExportInv'
<1>1. /\ UNCHANGED <<entries, export_content, kind, export_phase, at, shell, folder,
                     export_chosen, parent_id, target, tries, leftover>>
      /\ \A p \in Path : place[p] \in Export!Held => place'[p] = place[p]
  BY MovedFolders DEF Export!dialog
<1>2. Export!TypeOK'
  <2>1. place' \in [Path -> Dir] /\ (\A p, q \in Path : place'[p] = place'[q] => p = q)
        /\ moves' \in 0 .. MaxMoves
    BY MovedFolders
  <2>. QED  BY <1>1, <2>1, Zenon DEF Export!ExportInv, Export!TypeOK
<1>3. Export!TargetRetained'
  <2>1. Export!None \notin Dir
    BY DEF Export!ExportAssumption, Export!None
  <2>2. export_phase = "checking" /\ folder = parent_id => place'[export_chosen] = parent_id
    BY <1>1, <2>1 DEF Export!ExportInv, Export!TargetRetained, Export!Held
  <2>3. export_phase \in {"accepted", "open", "written", "failing", "done"} =>
         place'[export_chosen] = parent_id
    BY <1>1, <2>1 DEF Export!ExportInv, Export!TargetRetained, Export!Held
  <2>. QED  BY <1>1, <2>2, <2>3 DEF Export!ExportInv, Export!TargetRetained
<1>4. Export!NamesKnown' /\ Export!NeverPartial' /\ Export!FailureLeavesNothing'
  BY <1>1 DEF Export!ExportInv, Export!NamesKnown, Export!NeverPartial,
    Export!FailureLeavesNothing, Export!Ours
<1>. QED  BY <1>2, <1>3, <1>4 DEF Export!ExportInv

\* Steps that only give a name to a file of others, or a second name to ours.
LEMMA NamesOfOthersKeep ==
  ASSUME Export!ExportAssumption, Export!ExportInv, NEW d \in Dir,
         Export!CreateTheirs(d) \/ Export!LinkOurs(d)
  PROVE  Export!ExportInv'
<1>1. UNCHANGED <<place, export_content, kind, export_phase, at, shell, folder, export_chosen,
                  parent_id, target, tries, leftover>>
  BY DEF Export!CreateTheirs, Export!LinkOurs, Export!dialog
<1>2. /\ entries' \in [Dir -> [Export!Leaf -> {Export!None, "ours", "theirs"}]]
      /\ \A i \in Dir : /\ entries'[i]["stage"] = entries[i]["stage"]
                        /\ entries'[i]["name"] = "ours" <=> entries[i]["name"] = "ours"
  <2>0. Export!TypeOK /\ Export!None # "ours"
    BY DEF Export!ExportInv, Export!None
  <2>1. CASE Export!CreateTheirs(d)
    <3>1. entries' = [entries EXCEPT ![d]["name"] = "theirs"] /\ entries[d]["name"] = Export!None
      BY <2>1 DEF Export!CreateTheirs
    <3>2. /\ entries' \in [Dir -> [Export!Leaf -> {Export!None, "ours", "theirs"}]]
          /\ \A i \in Dir, l \in Export!Leaf :
               entries'[i][l] = IF i = d /\ l = "name" THEN "theirs" ELSE entries[i][l]
      BY <2>0, <3>1, LeafFacts DEF Export!TypeOK
    <3>. QED  BY <2>0, <3>1, <3>2, LeafFacts
  <2>2. CASE Export!LinkOurs(d)
    <3>1. entries' = [entries EXCEPT ![d]["link"] = "ours"]
      BY <2>2 DEF Export!LinkOurs
    <3>2. /\ entries' \in [Dir -> [Export!Leaf -> {Export!None, "ours", "theirs"}]]
          /\ \A i \in Dir, l \in Export!Leaf :
               entries'[i][l] = IF i = d /\ l = "link" THEN "ours" ELSE entries[i][l]
      BY <2>0, <3>1, LeafFacts DEF Export!TypeOK
    <3>. QED  BY <3>2, LeafFacts
  <2>. QED  BY <2>1, <2>2
<1>3. Export!TypeOK'
  <2>1. moves' \in 0 .. MaxMoves
    BY DEF Export!ExportInv, Export!TypeOK, Export!ExportAssumption, Export!CreateTheirs,
      Export!LinkOurs
  <2>. QED  BY <1>1, <1>2, <2>1, Zenon DEF Export!ExportInv, Export!TypeOK
<1>4. Export!TargetRetained'
  BY <1>1 DEF Export!ExportInv, Export!TargetRetained
<1>5. Export!NamesKnown' /\ Export!NeverPartial' /\ Export!FailureLeavesNothing'
  <2>1. \A i \in Dir : Export!Ours(i)' <=> Export!Ours(i)
    BY <1>2 DEF Export!Ours
  <2>2. export_phase \in {"open", "written", "done"} => target \in Dir
    BY DEF Export!ExportInv, Export!TargetRetained
  <2>3. Export!NamesKnown'
    BY <1>1, <1>2, <2>1, <2>2 DEF Export!ExportInv, Export!NamesKnown
  <2>4. Export!NeverPartial'
    BY <1>1, <1>2 DEF Export!ExportInv, Export!NeverPartial
  <2>. QED  BY <1>1, <1>2, <2>3, <2>4 DEF Export!ExportInv, Export!FailureLeavesNothing
<1>. QED  BY <1>3, <1>4, <1>5 DEF Export!ExportInv

\* The steps of the dialogs, which write nothing.
LEMMA DialogKeeps ==
  ASSUME Export!ExportAssumption, Export!ExportInv,
         \/ \E p \in Path : Export!FolderChanges(p) \/ Export!ItemChosen(p)
         \/ Export!OnFolderChange \/ Export!SaveFileOk \/ Export!RecoveryFolderOk
         \/ Export!DialogCloses \/ Export!SelectionIsStale
  PROVE  Export!ExportInv'
<1>0. place \in [Path -> Dir] /\ Export!None \notin Path /\ Export!None \notin Dir
  BY DEF Export!ExportInv, Export!TypeOK, Export!ExportAssumption, Export!None
<1>1. UNCHANGED <<place, entries, moves, export_content, kind, tries, leftover>>
  BY DEF Export!FolderChanges, Export!ItemChosen, Export!OnFolderChange, Export!SaveFileOk,
    Export!RecoveryFolderOk, Export!DialogCloses, Export!SelectionIsStale, Export!disk,
    Export!dialog
<1>2. /\ export_phase \in {"browsing", "binding", "checking", "accepted"}
      /\ export_phase' \in {"browsing", "binding", "checking", "accepted", "closed"}
  BY DEF Export!FolderChanges, Export!ItemChosen, Export!OnFolderChange, Export!SaveFileOk,
    Export!RecoveryFolderOk, Export!DialogCloses, Export!SelectionIsStale
<1>3. Export!TargetRetained' /\ at' \in Path \cup {Export!None}
      /\ export_chosen' \in Path \cup {Export!None}
      /\ {shell', folder', parent_id', target'} \subseteq Dir \cup {Export!None}
  <2>0. at \in Path \cup {Export!None} /\ export_chosen \in Path \cup {Export!None}
        /\ {shell, folder, parent_id, target} \subseteq Dir \cup {Export!None}
    BY DEF Export!ExportInv, Export!TypeOK
  <2>1. CASE \E p \in Path : Export!FolderChanges(p)
    BY <1>0, <2>0, <2>1 DEF Export!FolderChanges, Export!TargetRetained, Export!disk
  <2>2. CASE \E p \in Path : Export!ItemChosen(p)
    BY <1>0, <2>0, <2>2 DEF Export!ItemChosen, Export!TargetRetained, Export!disk
  <2>3. CASE Export!OnFolderChange
    <3>1. at \in Path
      BY <2>3 DEF Export!OnFolderChange, Export!ExportInv, Export!TargetRetained
    <3>2. Export!prepare_text_export_parent(at, shell) \in Dir \cup {Export!None}
      BY <1>0, <3>1 DEF Export!prepare_text_export_parent
    <3>. QED  BY <2>0, <2>3, <3>2 DEF Export!OnFolderChange, Export!TargetRetained
  <2>4. CASE Export!SaveFileOk
    BY <1>0, <1>1, <2>0, <2>4
    DEF Export!SaveFileOk, Export!MayTarget, Export!require_matching_folder_identity,
      Export!ExportInv, Export!TargetRetained, Export!dialog
  <2>5. CASE Export!RecoveryFolderOk
    <3>1. export_chosen \in Path /\ parent_id \in Dir
      BY <2>5 DEF Export!RecoveryFolderOk, Export!ExportInv, Export!TargetRetained
    <3>2. Export!prepare_text_export_parent(export_chosen, parent_id) # Export!None =>
            /\ Export!prepare_text_export_parent(export_chosen, parent_id) = parent_id
            /\ place[export_chosen] = parent_id
      BY DEF Export!prepare_text_export_parent, Export!require_matching_folder_identity
    <3>3. target' # Export!None => target' = parent_id /\ place[export_chosen] = parent_id
      BY <2>5, <3>2 DEF Export!RecoveryFolderOk
    <3>. QED  BY <1>0, <1>1, <2>0, <2>5, <3>1, <3>3 DEF Export!RecoveryFolderOk,
      Export!TargetRetained, Export!dialog
  <2>6. CASE Export!DialogCloses \/ Export!SelectionIsStale
    BY <2>0, <2>6 DEF Export!DialogCloses, Export!SelectionIsStale, Export!TargetRetained
  <2>. QED  BY <2>1, <2>2, <2>3, <2>4, <2>5, <2>6
<1>4. Export!TypeOK'
  BY <1>1, <1>2, <1>3 DEF Export!ExportInv, Export!TypeOK, Export!Phase
<1>5. Export!NamesKnown' /\ Export!NeverPartial' /\ Export!FailureLeavesNothing'
  BY <1>1, <1>2 DEF Export!ExportInv, Export!NamesKnown, Export!NeverPartial,
    Export!FailureLeavesNothing, Export!Ours
<1>. QED  BY <1>3, <1>4, <1>5 DEF Export!ExportInv

\* The steps that write keep the place of the target.
LEMMA WriteTargets ==
  ASSUME Export!ExportInv,
         \/ Export!StageNameTaken \/ Export!create_text_export_stage \/ Export!create_new_file
         \/ Export!WriteAll \/ Export!Commit \/ Export!MarkDelete \/ Export!RecoveryExported
  PROVE  Export!TargetRetained' /\ target \in Dir /\ target' = target
BY DEF Export!ExportInv, Export!TargetRetained, Export!StageNameTaken,
  Export!create_text_export_stage, Export!create_new_file, Export!WriteAll, Export!Commit,
  Export!MarkDelete, Export!RecoveryExported, Export!disk, Export!dialog

LEMMA StageKeeps ==
  ASSUME Export!ExportAssumption, Export!ExportInv,
         Export!StageNameTaken \/ Export!create_text_export_stage \/ Export!create_new_file
  PROVE  Export!ExportInv'
<1>1. /\ export_phase = "accepted"
      /\ UNCHANGED <<place, moves, export_content, kind, at, shell, export_chosen, parent_id, target,
                     leftover>>
      /\ folder' \in {folder, Export!None} /\ export_phase' \in {"accepted", "failed", "open"}
      /\ tries' \in 0 .. Attempts
  BY DEF Export!StageNameTaken, Export!create_text_export_stage, Export!create_new_file,
    Export!disk, Export!dialog, Export!ExportInv, Export!TypeOK, Export!ExportAssumption
<1>2. target \in Dir /\ Export!TargetRetained'
  BY WriteTargets
<1>3. Export!TypeOK /\ (\A d \in Dir : ~Export!Ours(d)) /\ Export!None # "ours"
  BY <1>1 DEF Export!ExportInv, Export!NamesKnown, Export!None
<1>4. \/ entries' = entries /\ export_phase' \in {"accepted", "failed"}
      \/ kind = "Text" /\ entries' = Export!Put("stage", "ours") /\ export_phase' = "open"
      \/ kind = "Recovery" /\ entries' = Export!Put("name", "ours") /\ export_phase' = "open"
  BY <1>1 DEF Export!StageNameTaken, Export!create_text_export_stage, Export!create_new_file,
    Export!disk
<1>5. CASE entries' = entries /\ export_phase' \in {"accepted", "failed"}
  <2>1. Export!TypeOK'
    BY <1>1, <1>5 DEF Export!ExportInv, Export!TypeOK, Export!Phase
  <2>2. Export!NamesKnown' /\ Export!NeverPartial' /\ Export!FailureLeavesNothing'
    BY <1>1, <1>3, <1>5 DEF Export!ExportInv, Export!NamesKnown, Export!NeverPartial,
      Export!FailureLeavesNothing, Export!Ours
  <2>. QED  BY <1>2, <2>1, <2>2 DEF Export!ExportInv
<1>6. CASE kind = "Text" /\ entries' = Export!Put("stage", "ours") /\ export_phase' = "open"
  <2>1. /\ entries' \in [Dir -> [Export!Leaf -> {Export!None, "ours", "theirs"}]]
        /\ \A i \in Dir, l \in Export!Leaf :
             entries'[i][l] = IF i = target /\ l = "stage" THEN "ours" ELSE entries[i][l]
    BY <1>2, <1>3, <1>6, LeafFacts DEF Export!TypeOK, Export!Put
  <2>2. Export!TypeOK'
    BY <1>1, <1>6, <2>1 DEF Export!ExportInv, Export!TypeOK, Export!Phase
  <2>3. Export!NamesKnown' /\ Export!NeverPartial' /\ Export!FailureLeavesNothing'
    BY <1>1, <1>3, <1>6, <2>1, LeafFacts
    DEF Export!NamesKnown, Export!NeverPartial, Export!FailureLeavesNothing, Export!Ours
  <2>. QED  BY <1>2, <2>2, <2>3 DEF Export!ExportInv
<1>7. CASE kind = "Recovery" /\ entries' = Export!Put("name", "ours") /\ export_phase' = "open"
  <2>1. /\ entries' \in [Dir -> [Export!Leaf -> {Export!None, "ours", "theirs"}]]
        /\ \A i \in Dir, l \in Export!Leaf :
             entries'[i][l] = IF i = target /\ l = "name" THEN "ours" ELSE entries[i][l]
    BY <1>2, <1>3, <1>7, LeafFacts DEF Export!TypeOK, Export!Put
  <2>2. Export!TypeOK'
    BY <1>1, <1>7, <2>1 DEF Export!ExportInv, Export!TypeOK, Export!Phase
  <2>3. Export!NamesKnown' /\ Export!NeverPartial' /\ Export!FailureLeavesNothing'
    BY <1>1, <1>2, <1>7, <2>1, LeafFacts
    DEF Export!NamesKnown, Export!NeverPartial, Export!FailureLeavesNothing, Export!Ours
  <2>. QED  BY <1>2, <2>2, <2>3 DEF Export!ExportInv
<1>. QED  BY <1>4, <1>5, <1>6, <1>7

LEMMA WriteKeeps ==
  ASSUME Export!ExportAssumption, Export!ExportInv, Export!WriteAll \/ Export!RecoveryExported
  PROVE  Export!ExportInv'
<1>1. UNCHANGED <<place, entries, moves, kind, at, shell, folder, export_chosen, parent_id, target,
                  tries, leftover>>
  BY DEF Export!WriteAll, Export!RecoveryExported, Export!disk, Export!dialog
<1>2. Export!TargetRetained'
  BY WriteTargets
<1>3. CASE Export!WriteAll
  <2>1. /\ export_phase = "open" /\ export_content' \in {"empty", "partial", "whole"}
        /\ \/ export_phase' = "written" /\ export_content' = "whole"
           \/ export_phase' = (IF kind = "Text" THEN "failing" ELSE "failed")
    BY <1>3 DEF Export!WriteAll
  <2>2. Export!TypeOK'
    BY <1>1, <2>1 DEF Export!ExportInv, Export!TypeOK, Export!Phase
  <2>3. Export!NamesKnown' /\ Export!NeverPartial' /\ Export!FailureLeavesNothing'
    BY <1>1, <2>1 DEF Export!ExportInv, Export!NamesKnown, Export!NeverPartial,
      Export!FailureLeavesNothing, Export!Ours
  <2>. QED  BY <1>2, <2>2, <2>3 DEF Export!ExportInv
<1>4. CASE Export!RecoveryExported
  <2>1. export_phase = "written" /\ export_phase' = "done" /\ kind = "Recovery"
        /\ export_content' = export_content
    BY <1>4 DEF Export!RecoveryExported
  <2>2. Export!TypeOK'
    BY <1>1, <2>1 DEF Export!ExportInv, Export!TypeOK, Export!Phase
  <2>3. Export!NamesKnown' /\ Export!NeverPartial' /\ Export!FailureLeavesNothing'
    BY <1>1, <2>1 DEF Export!ExportInv, Export!NamesKnown, Export!NeverPartial,
      Export!FailureLeavesNothing
  <2>. QED  BY <1>2, <2>2, <2>3 DEF Export!ExportInv
<1>. QED  BY <1>3, <1>4

LEMMA CommitKeeps ==
  ASSUME Export!ExportAssumption, Export!ExportInv, Export!Commit
  PROVE  Export!ExportInv'
<1>1. /\ kind = "Text" /\ export_phase = "written"
      /\ UNCHANGED <<place, moves, export_content, kind, at, shell, folder, export_chosen, parent_id,
                     target, tries, leftover>>
  BY DEF Export!Commit, Export!dialog
<1>2. target \in Dir /\ Export!TargetRetained'
  BY WriteTargets
<1>3. /\ Export!TypeOK /\ export_content = "whole"
      /\ (\A d \in Dir : Export!Ours(d) => d = target) /\ Export!None # "ours"
  BY <1>1 DEF Export!ExportInv, Export!NamesKnown, Export!None
<1>4. CASE entries' = entries /\ export_phase' = "failing"
  <2>1. Export!TypeOK'
    BY <1>1, <1>4 DEF Export!ExportInv, Export!TypeOK, Export!Phase
  <2>2. Export!NamesKnown' /\ Export!NeverPartial' /\ Export!FailureLeavesNothing'
    BY <1>1, <1>3, <1>4 DEF Export!NamesKnown, Export!NeverPartial,
      Export!FailureLeavesNothing, Export!Ours
  <2>. QED  BY <1>2, <2>1, <2>2 DEF Export!ExportInv
<1>5. CASE entries' # entries \/ export_phase' # "failing"
  <2>1. /\ entries' = [entries EXCEPT ![target]["name"] = "ours",
                                     ![target]["stage"] = Export!None]
        /\ export_phase' \in {"done", "failing"}
    BY <1>5 DEF Export!Commit
  <2>2. PICK e : e = [entries EXCEPT ![target]["name"] = "ours"]
    OBVIOUS
  <2>3. /\ e \in [Dir -> [Export!Leaf -> {Export!None, "ours", "theirs"}]]
        /\ \A i \in Dir, l \in Export!Leaf :
             e[i][l] = IF i = target /\ l = "name" THEN "ours" ELSE entries[i][l]
    BY <1>2, <1>3, <2>2, LeafFacts DEF Export!TypeOK
  <2>4. entries' = [e EXCEPT ![target] = [e[target] EXCEPT !["stage"] = Export!None]]
    BY <2>1, <2>2, Zenon
  <2>5. [e[target] EXCEPT !["stage"] = Export!None]
          \in [Export!Leaf -> {Export!None, "ours", "theirs"}]
    BY <1>2, <2>3
  <2>6. /\ entries' \in [Dir -> [Export!Leaf -> {Export!None, "ours", "theirs"}]]
        /\ entries'[target]["name"] = "ours"
        /\ \A i \in Dir, l \in Export!Leaf : i # target => entries'[i][l] = entries[i][l]
    BY <1>2, <2>3, <2>4, <2>5, LeafFacts
  <2>7. Export!TypeOK'
    BY <1>1, <2>1, <2>6 DEF Export!ExportInv, Export!TypeOK, Export!Phase
  <2>8. \A d \in Dir : Export!Ours(d)' => d = target
    BY <1>3, <2>6, LeafFacts DEF Export!Ours
  <2>9. Export!NamesKnown' /\ Export!NeverPartial' /\ Export!FailureLeavesNothing'
    BY <1>1, <1>3, <2>1, <2>6, <2>8 DEF Export!NamesKnown, Export!NeverPartial,
      Export!FailureLeavesNothing
  <2>. QED  BY <1>2, <2>7, <2>9 DEF Export!ExportInv
<1>. QED  BY <1>4, <1>5

LEMMA MarkDeleteKeeps ==
  ASSUME Export!ExportAssumption, Export!ExportInv, Export!MarkDelete
  PROVE  Export!ExportInv'
<1>1. /\ export_phase = "failing" /\ export_phase' = "failed" /\ leftover' \in BOOLEAN
      /\ UNCHANGED <<place, moves, export_content, kind, at, shell, folder, export_chosen, parent_id,
                     target, tries>>
  BY DEF Export!MarkDelete, Export!dialog
<1>2. target \in Dir /\ Export!TargetRetained'
  BY WriteTargets
<1>3. Export!TypeOK /\ Export!None # "ours"
  BY DEF Export!ExportInv, Export!None
<1>4. CASE entries' = entries /\ leftover' = TRUE
  <2>1. Export!TypeOK'
    BY <1>1, <1>4 DEF Export!ExportInv, Export!TypeOK, Export!Phase
  <2>2. Export!NamesKnown' /\ Export!NeverPartial' /\ Export!FailureLeavesNothing'
    BY <1>1, <1>4 DEF Export!ExportInv, Export!NamesKnown, Export!NeverPartial,
      Export!FailureLeavesNothing
  <2>. QED  BY <1>2, <2>1, <2>2 DEF Export!ExportInv
<1>5. CASE ~(entries' = entries /\ leftover' = TRUE)
  <2>. DEFINE cleaned == [leaf \in Export!Leaf |->
                            IF leaf # "link" /\ entries[target][leaf] = "ours"
                            THEN Export!None ELSE entries[target][leaf]]
  <2>1. entries' = [entries EXCEPT ![target] = cleaned] /\ leftover' = FALSE
    BY <1>5 DEF Export!MarkDelete
  <2>2. entries \in [Dir -> [Export!Leaf -> {Export!None, "ours", "theirs"}]]
    BY <1>3 DEF Export!TypeOK
  <2>3. cleaned \in [Export!Leaf -> {Export!None, "ours", "theirs"}]
    BY <1>2, <2>2
  <2>4. cleaned["name"] # "ours" /\ cleaned["stage"] # "ours"
    BY <1>3, LeafFacts
  <2>. HIDE DEF cleaned
  <2>5. /\ entries' \in [Dir -> [Export!Leaf -> {Export!None, "ours", "theirs"}]]
        /\ \A i \in Dir : entries'[i] = IF i = target THEN cleaned ELSE entries[i]
    BY <1>2, <2>1, <2>2, <2>3
  <2>6. Export!TypeOK'
    BY <1>1, <2>5 DEF Export!ExportInv, Export!TypeOK, Export!Phase
  <2>7. kind = "Text" => \A d \in Dir : Export!Ours(d) => d = target
    BY <1>1 DEF Export!ExportInv, Export!NamesKnown
  <2>8. kind = "Text" => \A d \in Dir : ~Export!Ours(d)'
    BY <2>4, <2>5, <2>7 DEF Export!Ours
  <2>9. Export!NamesKnown' /\ Export!NeverPartial' /\ Export!FailureLeavesNothing'
    BY <1>1, <2>8 DEF Export!NamesKnown, Export!NeverPartial, Export!FailureLeavesNothing,
      Export!Ours
  <2>. QED  BY <1>2, <2>6, <2>9 DEF Export!ExportInv
<1>. QED  BY <1>4, <1>5

LEMMA CrashKeeps == ASSUME Export!ExportInv, Export!Crash PROVE Export!ExportInv'
BY DEF Export!Crash, Export!disk, Export!ExportInv, Export!TypeOK, Export!Phase,
  Export!TargetRetained, Export!NamesKnown, Export!NeverPartial, Export!FailureLeavesNothing

LEMMA ExportSteps ==
  ASSUME Export!ExportAssumption, Export!ExportInv, [Export!Next]_(Export!vars)
  PROVE  Export!ExportInv'
<1>1. CASE UNCHANGED Export!vars
  BY <1>1 DEF Export!vars, Export!ExportInv, Export!TypeOK, Export!TargetRetained,
    Export!NamesKnown, Export!NeverPartial, Export!FailureLeavesNothing, Export!Ours
<1>2. CASE Export!Others
  BY <1>2, MovesKeep, NamesOfOthersKeep DEF Export!Others
<1>. QED
  BY <1>1, <1>2, DialogKeeps, StageKeeps, WriteKeeps, CommitKeeps, MarkDeleteKeeps, CrashKeeps
  DEF Export!Next

LEMMA ExportInvSuffices ==
  ASSUME Export!ExportInv
  PROVE  /\ Export!TypeOK /\ Export!SavedWhereShown /\ Export!NeverPartial
         /\ Export!FailureLeavesNothing
<1>1. Export!SavedWhereShown
  BY DEF Export!ExportInv, Export!TargetRetained, Export!NamesKnown, Export!SavedWhereShown,
    Export!TypeOK
<1>. QED  BY <1>1 DEF Export!ExportInv

LEMMA NeverReplacesStep ==
  ASSUME Export!ExportAssumption, Export!ExportInv, [Export!Next]_(Export!vars)
  PROVE  Export!NeverReplaces
<1>. SUFFICES ASSUME NEW d \in Dir, entries[d]["name"] = "theirs"
              PROVE  entries'[d]["name"] = "theirs"
  BY DEF Export!NeverReplaces
<1>0. /\ Export!TypeOK /\ Export!None # "theirs"
      /\ entries \in [Dir -> [Export!Leaf -> {Export!None, "ours", "theirs"}]]
  BY DEF Export!ExportInv, Export!TypeOK, Export!None
<1>1. CASE entries' = entries
  BY <1>1
<1>2. ASSUME NEW e \in Dir, Export!CreateTheirs(e) \/ Export!LinkOurs(e)
  PROVE  entries'[d]["name"] = "theirs"
  BY <1>0, <1>2, LeafFacts DEF Export!CreateTheirs, Export!LinkOurs
<1>3. CASE Export!create_text_export_stage \/ Export!create_new_file
  <2>1. target \in Dir
    BY <1>3, WriteTargets
  <2>. QED  BY <1>0, <1>3, <2>1, LeafFacts DEF Export!create_text_export_stage,
    Export!create_new_file, Export!Put
<1>4. CASE Export!Commit
  <2>1. target \in Dir
    BY <1>4, WriteTargets
  <2>2. \/ entries' = entries
        \/ /\ entries[target]["name"] = Export!None
           /\ entries' = [entries EXCEPT ![target]["name"] = "ours",
                                        ![target]["stage"] = Export!None]
    BY <1>4 DEF Export!Commit
  <2>. QED  BY <1>0, <2>1, <2>2
<1>5. CASE Export!MarkDelete
  <2>1. target \in Dir
    BY <1>5, WriteTargets
  <2>. QED  BY <1>0, <1>5, <2>1, LeafFacts DEF Export!MarkDelete
<1>. QED
  BY <1>1, <1>2, <1>3, <1>4, <1>5
  DEF Export!Next, Export!vars, Export!Others, Export!MoveFolder, Export!SwapFolders,
    Export!FolderChanges, Export!ItemChosen, Export!OnFolderChange, Export!SaveFileOk,
    Export!RecoveryFolderOk, Export!DialogCloses, Export!SelectionIsStale,
    Export!StageNameTaken, Export!WriteAll, Export!RecoveryExported, Export!Crash, Export!disk

-----------------------------------------------------------------------------
(***************************************************************************)
(* The composition: the invariant of the component that runs.              *)
(***************************************************************************)
StateInv ==
  /\ component \in {"Settings", "Language", "Startup", "Recovery", "Export"}
  /\ component = "Settings" => Settings!PreferencesInv
  /\ component = "Language" => Language!PreferencesInv /\ Language!OriginInv
  /\ component = "Startup" => Startup!StartupInv
  /\ component = "Recovery" => Recovery!RecoveryInv
  /\ component = "Export" => Export!ExportInv

LEMMA StateInvInit == ASSUME Init PROVE StateInv
<1>1. Settings!Init => Settings!PreferencesInv
  BY SettingsAssumption, Settings!PreferencesInvInit
<1>2. Language!Init => Language!PreferencesInv /\ Language!OriginInv
  BY LanguageAssumption, Language!PreferencesInvInit, Language!OriginInvInit
<1>3. Startup!Init => Startup!StartupInv
  BY RuntimeAssumption, Startup!StartupInvInit
<1>4. Recovery!Init => Recovery!RecoveryInv
  BY JournalsAssumption, Recovery!RecoveryInvInit
<1>5. Export!Init => Export!ExportInv
  BY FoldersAssumption, ExportInvInit
<1>. QED  BY <1>1, <1>2, <1>3, <1>4, <1>5, Zenon DEF Init, StateInv

\* A step of the composition is one of the component that runs, and changes no
\* component.
LEMMA ComponentSteps ==
  ASSUME [Next]_vars
  PROVE  /\ component' = component
         /\ component = "Settings" => [Settings!Next]_settingsVars
         /\ component = "Language" => [Language!Next]_settingsVars
         /\ component = "Startup" => [Startup!Next]_startupVars
         /\ component = "Recovery" => [Recovery!Next]_recoveryVars
         /\ component = "Export" => [Export!Next]_exportVars
<1>1. CASE UNCHANGED vars
  BY <1>1 DEF vars
<1>2. CASE Next
  BY <1>2 DEF Next
<1>. QED  BY <1>1, <1>2

LEMMA StateSettings ==
  ASSUME [Settings!Next]_settingsVars, Settings!PreferencesInv
  PROVE  Settings!PreferencesInv' /\ Settings!UnreadableKept /\ Settings!ExitSavesSettings
<1>1. [Settings!Next]_(Settings!vars)
  BY DEF settingsVars, Settings!vars
<1>. QED
  BY <1>1, SettingsAssumption, Settings!PreferencesSteps, Settings!UnreadableKeptStep,
    Settings!ExitSavesSettingsStep

LEMMA StateLanguage ==
  ASSUME [Language!Next]_settingsVars, Language!PreferencesInv, Language!OriginInv
  PROVE  Language!PreferencesInv' /\ Language!OriginInv'
<1>1. [Language!Next]_(Language!vars)
  BY DEF settingsVars, Language!vars
<1>. QED
  BY <1>1, LanguageAssumption, Language!PreferencesSteps, Language!OriginSteps

LEMMA StateStartup ==
  ASSUME [Startup!Next]_startupVars, Startup!StartupInv
  PROVE  Startup!StartupInv' /\ Startup!StartupKeepsEvidence
<1>1. [Startup!Next]_(Startup!vars)
  BY DEF startupVars, Startup!vars
<1>. QED
  BY <1>1, RuntimeAssumption, Startup!StartupSteps, Startup!StartupKeepsEvidenceStep

LEMMA StateRecovery ==
  ASSUME [Recovery!Next]_recoveryVars, Recovery!RecoveryInv
  PROVE  /\ Recovery!RecoveryInv'
         /\ Recovery!UnlockFindsNothing /\ Recovery!DeletedOnlyWhenSafe
         /\ Recovery!ReportTruthful /\ Recovery!CopiesKept
<1>1. [Recovery!Next]_(Recovery!vars)
  BY DEF recoveryVars, Recovery!vars
<1>. QED
  BY <1>1, JournalsAssumption, Recovery!RecoverySteps, Recovery!UnlockFindsNothingStep,
    Recovery!DeletedOnlyWhenSafeStep, Recovery!ReportTruthfulStep

LEMMA StateExport ==
  ASSUME [Export!Next]_exportVars, Export!ExportInv
  PROVE  Export!ExportInv' /\ Export!NeverReplaces
<1>1. [Export!Next]_(Export!vars)
  BY DEF exportVars, Export!vars
<1>. QED  BY <1>1, FoldersAssumption, ExportSteps, NeverReplacesStep

LEMMA StateInvSteps == StateInv /\ [Next]_vars => StateInv'
BY ComponentSteps, StateSettings, StateLanguage, StateStartup, StateRecovery, StateExport
DEF StateInv

LEMMA StateInvAlways == Spec => []StateInv
BY StateInvInit, StateInvSteps, PTL DEF Spec

(***************************************************************************)
(* For any settings, values, bounds on saves, faults and crashes: what a   *)
(* writer acknowledged is in the file, the language on screen is the one   *)
(* saved, and without a failed save the first language of an installation  *)
(* is kept (preferences.rs).                                               *)
(***************************************************************************)
THEOREM PreferencesAreDurable == Spec => []PreferencesDurable
<1>1. Settings!PreferencesInv =>
        Settings!TypeOK /\ Settings!AcknowledgedIsDurable /\ Settings!ShownLanguageIsSaved
  BY SettingsAssumption, Settings!PreferencesInvSuffices
<1>2. Language!OriginInv => Language!LanguageOriginKept
  BY Language!OriginInvSuffices
<1>3. StateInv => PreferencesDurable
  BY <1>1, <1>2 DEF StateInv, PreferencesDurable
<1>. QED  BY <1>3, StateInvAlways, PTL

(***************************************************************************)
(* For any number of processes: at most one has an unlocked runtime, and   *)
(* never over evidence of an unfinished batch (SafeRuntime,                *)
(* private_state.rs).                                                      *)
(***************************************************************************)
THEOREM StartupIsExclusive == Spec => []StartupExclusive
<1>1. Startup!StartupInv =>
        /\ Startup!TypeOK /\ Startup!OneRuntime /\ Startup!UnlockedMeansNoEvidence
        /\ Startup!LockOutlivesJournals /\ Startup!StateIsPrivate
  BY RuntimeAssumption, Startup!StartupInvSuffices DEF Startup!StartupInv
<1>2. StateInv => StartupExclusive
  BY <1>1 DEF StateInv, StartupExclusive
<1>. QED  BY <1>2, StateInvAlways, PTL

(***************************************************************************)
(* For any number of steps of other programs: what the recovery menu holds *)
(* or knows of locks Apply, and a journal whose cursor moved is poisoned   *)
(* (recovery_ui.rs).                                                       *)
(***************************************************************************)
THEOREM EvidenceIsKept == Spec => []EvidenceKept
<1>1. Recovery!RecoveryInv =>
        /\ Recovery!TypeOK /\ Recovery!HeldMeansLocked /\ Recovery!LockedKeepsEvidence
        /\ Recovery!CursorOrPoisoned
  BY Recovery!RecoveryInvSuffices
<1>2. StateInv => EvidenceKept
  BY <1>1 DEF StateInv, EvidenceKept
<1>. QED  BY <1>2, StateInvAlways, PTL

(***************************************************************************)
(* For any paths and folders and any number of moves between the steps: a  *)
(* save that succeeds is complete and in the folder that was shown, the    *)
(* chosen name never leads to an incomplete text, and a failure that       *)
(* reports no leftover leaves none (write_text_export_target_inner).       *)
(***************************************************************************)
THEOREM ExportIsWhole == Spec => []ExportWhole
<1>1. StateInv => ExportWhole
  BY ExportInvSuffices DEF StateInv, ExportWhole
<1>. QED  BY <1>1, StateInvAlways, PTL

(***************************************************************************)
(* For every value of the constants: no step overwrites an unreadable      *)
(* settings file, ends with settings unsaved, removes a journal with       *)
(* evidence, unlocks over one, reports or touches an incomplete copy, or   *)
(* replaces a file of others.                                              *)
(***************************************************************************)
THEOREM StateStepsHold == Spec => StateSteps
<1>1. StateInv /\ [Next]_vars =>
        [/\ component = "Settings" => Settings!UnreadableKept /\ Settings!ExitSavesSettings
         /\ component = "Startup" => Startup!StartupKeepsEvidence
         /\ component = "Recovery" =>
              /\ Recovery!UnlockFindsNothing /\ Recovery!DeletedOnlyWhenSafe
              /\ Recovery!ReportTruthful /\ Recovery!CopiesKept
         /\ component = "Export" => Export!NeverReplaces]_vars
  BY ComponentSteps, StateSettings, StateStartup, StateRecovery, StateExport DEF StateInv
<1>. QED  BY <1>1, StateInvAlways, PTL DEF Spec, StateSteps
====
