# DarkReNamer: a verification project

DarkReNamer is a Windows program that renames a list of files and directories in
one batch.  Its hard promise is in `SAFETY.md`: a batch is applied completely or
undone completely, across cancellation, failing system calls and loss of the
process, without ever overwriting a file.  Around that core it is a large
single-threaded UI with worker threads, modal loops and native calls that fail.
This directory holds TLA+ models of both, TLC configurations that check them on
small instances, and TLAPS proofs, for instances of every size, of the rename
transaction, of the main window's state and callbacks, of the progress of a batch, and of
the files the program keeps: startup, recovery menu, preferences and text exports.

Paths below are relative to `src/crates/darknamer-app/src/` unless they start with
`src/`.  `PROJECT.json` maps the definitions of the models to the lines they stand for; a
helper whose lines lie inside those of a mapped definition has no entry of its own.

## 1. Inventory

| Component | State | Operations | Hard behaviour | What makes it correct |
|---|---|---|---|---|
| Journal records, `rename/journal.rs` | vector of records | `replay_journal` | streams that mix executor and recovery records | one grammar; terminal only when all or nothing is applied |
| File journal, `rename/file_journal.rs`, `private_state.rs` | file name, bytes, torn tail, phase, poison flag | create, append, promote, truncate, reopen, delete | partial writes, damage, uncertain promotion, frame limit | every file it leaves behind can be read again; it knows when it does not know |
| Executor, `rename/executor.rs` | cursor, completed steps, row states | freeze, begin, step, roll back, commit | crash between record and rename; cancellation racing begin | no move ahead of its record; truthful report |
| Recovery, `rename/recovery.rs`, `windows/recovery_ui.rs` | retained handles, recovery lock | reconcile, reverse, terminate, discard, export | disk changed since; crash inside recovery | moves only when disk and journal agree; evidence is kept |
| Startup, `windows/safe_runtime.rs` | runtime lock, two journal names | open, claim, collide, exit | two processes; leftovers of a crash | one process; Apply unlocked only without a journal |
| Backend, `rename/windows_backend.rs`, `windows_native.rs` | the directories | `observe`, `rename_no_replace` | other programs act in between | never replaces; reports certainty |
| Schedule, `rename/schedule.rs` | pending, ready, reserved | `build_schedule` | chains, cycles, case-only rows mixed | each step finds its source there and its destination free |
| Planner, `rename/planner.rs` | rows under examination | `plan` | observations at different moments | no duplicate or occupied destination |
| Workers, `windows/worker.rs`, `apply_progress.rs` | worker handles, channels, wake flag | start, cancel, complete, close | lost wake, list changed during a dialog, close while running | the confirmed plan is the one executed; close always ends |
| Application state, `windows.rs`, `windows/command_dispatch.rs` | list, revision, locks, sessions | every command | modal dialogs re-entering | a lock has an owner; an answer meets its own list |
| Callbacks, `windows.rs`, `windows/application.rs` | leased state, deferred boxes | lease, release, destroy, defer | re-entrancy, destruction at any depth | one lease, one free, no lost warning |
| Admission, import, drops | paths, budgets, cancellation | collect, read, drop | capacity, growing files, blocked reads | bounded, whole or nothing |
| Icons, `icon_requests.rs`, `windows/icon_worker.rs` | request slots, cache, generations | submit, deliver, refresh, retire | try-lock, lost wakes, stale results | bounded; results of a retired generation are dropped |
| Preferences, `windows/preferences.rs`, `preference_lifecycle.rs` | files, snapshots, writer queues | load, migrate, save, flush | crash in a save, coalescing | the old settings stay readable, the newest are saved |
| List, `src/crates/darknamer-core/src/lib.rs` | rows, unit counters, index | transforms, sorts, appends | boundaries, running counters | counters equal what they count; a failed edit edits nothing |
| List on screen, `windows/list_view.rs`, `lib.rs` | rendered rows, caches | patch, refresh, rebuild | native call fails half-way | the record never claims more than was written |
| Dialogs and layout | windows, focus, columns, prompts | open, answer, resize, focus | re-entrancy, changes of monitor and font | nothing is cut, lost or left behind |
| Painting, menus, texts, release tooling | none of interest here | | | not modelled |

How they interact: the UI thread owns the application state and every window
procedure takes it by lease.  A command builds a plan request; the plan worker runs the
planner; a dialog shows the plan; after confirmation `start_apply_worker` gives the plan
to a new thread, which creates the candidate journal and runs the executor.  The executor
builds the schedule, freezes the rows, begins the journal and then alternates journal
appends and renames.  The only data the UI shares with it are the cancellation token and
the progress record.  The report comes back over a channel, and the UI thread removes the
journal or keeps it and locks Apply.  At the next start the two journal names are opened
first, under a runtime lock that admits one process.

## 2. Modules

**The rename transaction** (composed in one state machine)

```
Journal              rows, steps, occupancies of one plan; strict replay as a fold
  FileJournal        directory entries, no-replace rename, the journal file
    Executor         the Apply worker and the cancellation token
      RenameTransaction   recovery, startup, user, crash, environment; properties,
                          inductive invariants; refines AtomicBatch
        RenameTransactionProofs   first the journal and the program's control, then
                          the directories, the report and the refinement
  AtomicBatch        abstract specification of a batch
MCRenameTransaction  the instance: a swap
```

A key stands for a `PathKey` (parent directory and folded leaf name), an entry for a
row's `EntryId`, an identity for what the filesystem says the file is; two hard links of
one file are two entries with one identity.  `Occ[i]` is what the keys hold after the
first `i` steps.  `ReplayStep` is one iteration of the loop in `replay_journal`, with that
function's local variables as the fields of its state; a journal is kept as the fold's
state rather than as a sequence.  `rename_no_replace` has the three outcomes its error type
distinguishes; an uncertain append leaves nothing, a torn frame or the whole frame.
Each failure the program does not cause takes one unit of `MaxFaults`.  `disturbed` is a
history variable: another process touched one of the plan's own entries (foreign files on
the plan's names do not set it).  `at` is the row being frozen, then the step, then the
step being reversed.  `token` is the atomic byte of `CancellationToken`, on which
`RequestCancel` and `BeginTransaction` race.  Refusals of the schedule, its capacity check
and its authorization happen before begin and have the effect of a refused freeze.
`Startup` has one disjunct per branch of `initialize_safe_runtime_at`.  `pc` names both
the process and its place, because the runtime lock admits one process; a process that
dies during an append or a rename is the uncertain outcome followed by `Crash`.

**Around the transaction**

| Module | Part |
|---|---|
| `JournalReplay` | all record streams; recovery's unchecked scan against strict replay |
| `JournalCodec` | the frames as cells, torn and damaged writes, strict inspection, the retained handle |
| `Schedule` | `build_schedule` with probes and cancellation, and the confirmation's rows |
| `Namespace`, `Planner` | what the native layer sees of a disk; planning while the disk changes |
| `NativeRename` | one `rename_no_replace`, native call by native call |
| `ConfirmationDisplay` | the texts of the confirmation: escapes, clipping |
| `StartupRuntime`, `RecoveryUi` | two processes over leftover journals; the recovery menu; theorems |

**The application**

| Module | Part |
|---|---|
| `Workbench` | locks, revisions, sessions, commands, workers, completions, cancellation, close |
| `WorkbenchProofs` | the inductive invariant of `Workbench` and its theorems |
| `WindowCallbacks` | the leased state (`SlotSpec`), nested window procedures, deferred boxes; theorems |
| `ApplyProgress` | the progress handoff, its wake and its timer, the Cancel button; theorems |
| `Admission`, `DragDrop`, `TextImport`, `ImportTrace` | how paths and names come in |
| `IconPipeline` | the icon thread |
| `Preferences` | the settings files and their writers; theorems |
| `ListModel`, `ListRefresh` | the list in memory with its commands; the list on screen |
| `PromptDialog`, `AppearanceSession`, `FilePicker`, `Clipboard`, `TextExport` | dialogs and transfers |
| `FocusNavigation`, `CommandRail` | keyboard focus; the rails of buttons |
| `MainLayout`, `WindowLayout`, `Columns`, `PromptLayout`, `AppearanceLayout` | layout |

The MC modules `MCRenamePath`, `MCWindows`, `MCFileList`, `MCStateFiles` and `MCLiveness`
instantiate several components each; `MCWindows` extends `MCLayout`, which holds the
instances of the layouts.  A variable `component` is chosen by
`Init` and never changes: one component runs in a behaviour and the variables of the
others are blank.  These components share no state in the code, or only state that the
composed modules (`RenameTransaction`, `Workbench`) already hold, so a product of them
would add states and no behaviour.  `MCStateFiles` leaves its sets and bounds to
`MCStateFiles.cfg`, because its theorems hold for all of them; it also holds the lemmas about
`TextExport`, in the names of the composition.

Lines "Mutant:" mark the mutated forms of a definition: a plausible bug that must make a
property of some run fail.  They are used for that only.

## 3. Runs

| Run | Instance | Properties |
|---|---|---|
| `rename_transaction` | a swap of two names, four faults, 16 frames | `JournalAlwaysReadable`, `JournalTracksFiles`, `NothingLost`, `OutcomesHonest`, `WriteAhead`, `StepsGuarded`, `ImplementsAtomicBatch`, `ActiveJournalResolved` |
| `rename_path` | streams of a chain of three; a journal file of one step, one cell damaged; all plans of up to three rows over five keys; a disk of a few folders | `ReplayersAgree`, `JournalFileHonest`, `PlanSound`, `RenameOutcomeTrue`, `ConfirmationTruthful` |
| `workbench` | two lists, two revisions, session numbers that wrap at 2, every dialog, every leftover journal | `OwnersConsistent`, `EffectsMeetTheirList` |
| `workbench_liveness` | one list, one lost post | `CompletionHandled`, `CloseCompletes` |
| `windows` | callbacks four deep, three reports, three lost wakes; the other windows with one or two faults each, two edits of a text being read; layouts on ample, tight and tiny monitors with two fonts | `ReclaimedExactlyOnce`, `CallbacksSafe`, `ProgressTruthful`, `RailsUsable`, `PromptSafe`, `AppearanceSafe`, `TransfersSafe`, `WindowSteps`, `WindowsLaidOut`, `PlacedInWorkArea` |
| `file_list` | lists of up to three rows, two icon classes, short texts | `AdditionsComplete`, `IconsConsistent`, `ImportsWhole`, `ListConsistent`, `ViewShowsModel`, `ListSteps` |
| `state_files` | two processes, two settings, crashes and failed saves; three folders | `PreferencesDurable`, `StartupExclusive`, `EvidenceKept`, `ExportWhole`, `StateSteps` |
| `liveness` | ten components at their smallest interesting size | `UserIsAnswered`, `BackgroundWorkEnds` |

A composite property such as `PlanSound` is a conjunction of the named properties of its
components, each stated and explained in the component's module.

Four further runs show a disagreement between the code and what the repository says of
it; they are the findings of `PROJECT.json`:

- `closing_lock` (`ClosingStaysLocked`): the completion handlers of the plan, Apply and
  admission workers clear `mutation_locked` although a close is pending
  (`windows/worker.rs:1240`, `1426`, `2049`), so the closing window takes commands again;
  a test in `windows/list_view.rs:4112` asserts the lock for the whole wait.
- `close_unpolled` (`CloseCompletes`): the wake handler can join the icon thread and stop
  the icon timer without finishing the close (`windows/application.rs:811`); without a
  preference writer nothing is left that would.  The user guide says the window stays open
  until the lookup finishes.
- `torn_frame` (`OnlyTheFinalFrameIsTorn`): a damaged length in an earlier frame makes
  `inspect_journal_records` drop complete frames behind it as a torn tail
  (`rename/file_journal.rs:679`), where its comment says "only a final torn frame".
- `prompt_truncated` (`ValueIsWhole`): `prompt_window_text` compares lengths only
  (`windows/dialog.rs:1895`).  A text that grows past the limit before the bounded copy and
  shrinks back before the second length query is accepted cut, where the comment at that
  query (`windows/dialog.rs:1877`) says it "cannot turn truncation into an accepted
  command".  Run `windows` checks what does hold, with the same two edits allowed:
  `TruncationNeedsTwoChanges`.

Other divergences were met while modelling; the models do what the code does:

- `windows.rs:1011`: a failed save of the language is only reported, so the other settings
  can still turn a new installation into an apparent Korean one, which the comment above
  it wants to prevent.
- `src/crates/darknamer-core/src/lib.rs:1712`: "leaves directories unchanged", but a
  directory whose proposed name holds a backslash is changed.
- `src/crates/darknamer-core/src/lib.rs:2386`: every trailing separator of a parent is
  removed, where the comment says one.
- `windows/application.rs:773`: when the message pump fails during a preview, the previewed
  appearance is what the writers save.  `ShutSavesChosen` names it as its exception; a close
  during a preview saves the chosen appearance.
- `windows/worker.rs:1754`, `windows/application.rs:1025` and `1029`: the timing trace of an
  import can take over an addition or a status text of another import, and the last case
  leaves the trace invalid for the rest of the process.  `InvalidatedOnlyBy` says that
  besides it only a worker that could not be started and one that ended without a result
  do that.

### Bounds

- **Plan.** A swap is the shortest schedule with a hop into and out of a temporary name
  and a direct step between them: every `TemporaryPhase` and every position (first,
  middle, last) of a failing step occurs.  The proofs remove this bound.
- **MaxFaults = 4.** An uncertain append, the crash after it, a failure in the first
  recovery and one in the second.  The proofs hold for any number.
- **MaxFrames = 16** is `4 * StepCount + 4`, as `MAX_JOURNAL_FRAMES` is for
  `MAX_JOURNAL_STEPS`.
- **Streams.** Long enough that every stream of three steps, with one interrupted
  reversal, reaches its terminal record; rejected streams are not extended.
- **Schedule.** Three rows over five names hold chains, swaps, rotations of three,
  case-only rows and a swap beside a case-only row, which needs two temporary names.  Two
  probes stand for 32: success at once, success after a taken name, exhaustion.
- **Workbench.** Two lists and two revisions tell "the same list" from "another"; sessions
  wrap at 2, so a number is reused while an older dialog could still be open.
- **Windows.** Depth four has a handler, a box above it, a handler above the box and one
  more.  Queues, caches, capacities and budgets are one or two: the limit is reached and
  passed.  A text being read is edited twice, so it can grow past its limit and shrink back.
- **Layouts.** Every pair of changes of resolution, font, monitor, size, density and status
  text; a column dragged to nothing and to a wide width.
- **Trace of an import.** Four instances, because their product is too large: every kind of
  import and addition (`Trace`), a status text written twice (`TraceTwice`), one import
  after another (`TraceNext`), and a clock that advances between any two steps
  (`TraceClock`).  All four check the same properties.
- **Liveness.** The same components at smaller bounds (two icon rows of different classes
  that compete for one request slot, two progress steps, four keys and two rows for a
  schedule, one generation of settings).  The classes are interchangeable, so the rows'
  classes are fixed.

One consequence of the frame limit is worth knowing.  A batch of N steps that runs to its
last step and is then reversed whole needs `4N + 2` frames: the Intent, two per step
forward, two per step back and the terminal record.  `MAX_JOURNAL_FRAMES` leaves a plan of
`MAX_JOURNAL_STEPS` steps two frames more, which is one interrupted pair of Prepared and
NotApplied.  After two interruptions of a rollback or of a recovery there is no room for
the terminal record: the files are restored, but the journal never becomes terminal and
Apply stays locked.  After three, the journal is full while the first step is still
applied: no file is lost or overwritten, but the batch stays partly renamed.
`ActiveJournalResolved` therefore assumes that the frames do not run out.  This needs a
plan at the step limit that fails or is cancelled at its end, and no document promises
otherwise.

Deadlock is checked in `rename_transaction`, `workbench` and `workbench_liveness`.  The
other runs switch it off: their components end (a function returns, a window is gone).

### Fairness

Fairness is asked only of code that the system schedules and of the answers a property
names.

- Transaction: `ExecutorStep`, `RecoveryStep` and `Startup` are weakly fair (straight-line
  code of one thread).  That a locked session is left and that a recovery offered again and
  again is confirmed is an assumption on the user; that other processes leave the plan's
  entries alone is a hypothesis of `ActiveJournalResolved`.
- Workbench: threads end, queues and timers are served, open dialogs are answered.  An
  import ends only once cancelled: a provider has no deadline.  A close is promised only if
  the user stops issuing commands.
- `MCLiveness`: weak fairness of each component's own steps.  Strong fairness in three
  places: nested activations of window procedures come and go before an outer one goes on;
  an activation of the prompt at each depth goes on; and the UI thread's tries for the icon
  mutex do not all fall into the worker's short critical sections.

## 4. Proofs

All theorems hold for every value of the constants that satisfies the named assumptions,
and for every number of faults; `LanguageOriginAlwaysKept` alone asks that no save fails.

| Theorem | Module | Statement |
|---|---|---|
| `ControlCorrect` | `RenameTransactionProofs` | `Spec => []ControlInv` |
| `TypeCorrect` | | `Spec => []TypeOK` |
| `JournalReadable` | | `Spec => []JournalAlwaysReadable` |
| `WriteAheadHolds` | | `Spec => WriteAhead` |
| `DiskCorrect` | | `Spec => []DiskInv` |
| `JournalTracks` | | `Spec => []JournalTracksFiles` |
| `NamesKept` | | `Spec => []NothingLost` |
| `StatesCorrect` | | `Spec => []StatesInv` |
| `TransactionCorrect` | | `Spec => []TransactionInv` |
| `OutcomesAreHonest` | | `Spec => []OutcomesHonest` |
| `StepsAreGuarded` | | `Spec => StepsGuarded` |
| `TransactionImplementsBatch` | | `Spec => ImplementsAtomicBatch` |
| `SlotSafe` | `WindowCallbacks` | `SlotSpec => [](OneLease /\ ReclaimedExactlyOnce)` |
| `CallbacksImplementSlot` | | `Spec => SlotSpec` |
| `CallbacksKeepSlot` | | `Spec => [](OneLease /\ ReclaimedExactlyOnce)` |
| `CallbacksKeepReports` | | `Spec => []CallbacksSafe` |
| `NoBoxAfterGone` | | `Spec => [][NoBoxAfterDestroy]_vars` |
| `OwnersAlwaysConsistent` | `WorkbenchProofs` | `Spec => []OwnersConsistent` |
| `EffectsAlwaysMeetTheirList` | | `Spec => EffectsMeetTheirList` |
| `ProgressAlwaysTruthful` | `ApplyProgress` | `Spec => []` of `TypeOK` and the four invariants in `ProgressTruthful` |
| `ProgressNeverGoesBack` | | `Spec => [][ShownNeverGoesBack]_vars` |
| `StartupAlwaysExclusive` | `StartupRuntime` | `Spec => []` of `TypeOK` and the four invariants in `StartupExclusive` |
| `StartupAlwaysKeepsEvidence` | | `Spec => [][StartupKeepsEvidence]_vars` |
| `RecoveryAlwaysKeepsEvidence` | `RecoveryUi` | `Spec => []` of `TypeOK` and the three invariants in `EvidenceKept` |
| `RecoveryStepsSafe` | | `Spec => [][...]_vars` of `UnlockFindsNothing`, `DeletedOnlyWhenSafe`, `ReportTruthful`, `CopiesKept` |
| `PreferencesAlwaysDurable` | `Preferences` | `Spec => []` of `TypeOK`, `AcknowledgedIsDurable`, `ShownLanguageIsSaved` |
| `PreferencesStepsSafe` | | `Spec => [][UnreadableKept /\ ExitSavesSettings]_vars` |
| `LanguageOriginAlwaysKept` | | `Spec => []LanguageOriginKept` |
| `PreferencesAreDurable` | `MCStateFiles` | `Spec => []PreferencesDurable` |
| `StartupIsExclusive` | | `Spec => []StartupExclusive` |
| `EvidenceIsKept` | | `Spec => []EvidenceKept` |
| `ExportIsWhole` | | `Spec => []ExportWhole` |
| `StateStepsHold` | | `Spec => StateSteps` |

So every safety property of run `rename_transaction` is a theorem for plans of every size,
and only its liveness property stays with TLC; and every property of the runs `workbench`
and `state_files` is a theorem.

### The transaction

Assumptions.  `NamesAssumption`, `RowsAssumption`, `StepsAssumption` (`ValidSteps`) and
`OccAssumption` (`ValidOcc`: each step finds its source occupied by its file and its destination free),
`ProgressAssumption` (`ValidRows`: the steps carry out the rows, a hop into a temporary
name before the one out of it), `KeysAssumption` (finitely many names),
`MaxFramesAssumption` (`MaxFrames >= 4 * StepCount + 4`) and `MaxFaultsAssumption`.  They
are what the schedule establishes: `ScheduleIsExecutable`, a part of `PlanSound`, checks
`ValidSteps`, `ValidOcc` and `ValidRows` for every schedule that `build_schedule` returns
on the plans of run `rename_path`.

*Control.*  `JournalAlwaysReadable` is not inductive: that the next record is accepted
depends on the whole history of records and on the executor's cursor.  `ControlInv`
supplies both.  `Shaped` says what a journal that replay accepts looks like: steps `1..m`
were applied, `m..r+1` were reversed, so `1..r` remain, and at most one step is in doubt,
`m + 1` forward or `r` backward.  `PlaceTellsJournal` ties each place of the program to
such a shape (in the forward loop, `m = r = at - 1`), and `NameTellsContent` ties the
file's name to what it can hold.  Lemmas about the replay operator come first (each record
keeps the shape, with its new `m` and `r`), then lemmas about the three outcomes of an
append, then one lemma per action.  `WriteAhead` follows, because a rename happens only at
places where the invariant says which step is in doubt.

*Directories.*  `DiskInv` says, relative to `ControlInv`, where the batch's own entries are:
at one of the `Readings` of the journal (the steps that remain applied, or one more or one
less when a step is in doubt), and at an exact position at the places where the program
knows it.  A step moves `Position(j)` to `Position(j + 1)` and its reversal moves it back;
this rests on `ValidOcc` and on the rule that a rename succeeds only onto a free key.
`JournalTracksFiles` and `AllOrNothing` are what `DiskInv` says of an active and of a settled
journal.  `NothingLost` is inductive by itself together with `ControlInv`: one rename moves
one identity from a key that held it to a key that held none, so the number of its names
stays, by two lemmas on the cardinality of a set with an element exchanged.

*Report.*  `StatesInv` says that the row states at each place are `EntryProgress` of the
steps in effect, which `PhasesPaired` makes well defined under a reversal; with `DiskInv`
this makes `ReportTruthful` hold when the report is given.  `FrameBudget` counts: `2 at - 1`
frames before a step, `2 at` while it is in doubt, at most `4 N + 1 - 2 at` before a
reversal and `4 N + 2 - 2 at` while one is in doubt; hence `ExecutorNeverFull`.
`UncertainRests` says that a process that has reported doubt runs no further, which
`UncertaintyFreezes` needs.

*Refinement.*  `occ` of `AtomicBatch` is the directories with foreign files erased, `status`
is read off the journal on disk.  Promotion is the batch's Begin, a forward rename its
MoveForward, a rollback's first Prepared record (or a forward NotApplied record) its
TurnBack, a reverse rename its MoveBack, a terminal record its Commit or Restore, and
interference with the batch's own entries its Disturb.  Every other step stutters, crashes,
restarts and uncertain appends among them.

### The callbacks

The slot (`SlotSpec`: the state behind the window, its leases and the hold of the run scope)
is proved on its own from `SlotInv`, in which `StatusAccounts` says that the two flags of
`CallbackState` are a true account of the owners.  The nested window procedures implement
it, whatever their depth.  `CallbackInv` adds three parts: `StackInv` (the leases are those
of the activations that act as handlers, and no box is above one), `MessageInv` (what was
shown, followed by what is queued, is the numbers `1..issued` while the window exists) and
`ScopeInv` (the order in which window, drop targets, icon thread and run scope end).  A box
is opened only over a state that is not busy, and by `StatusAccounts` nobody on the stack
leases such a state.

### The main window

Assumptions.  `PromptIdAssumption` (a dialog number other than 0 exists) and
`WorkbenchAssumption` (`MaxRevision` and `MaxLost` are numbers, `StartupJournals` are sets of
journal handles).  The lists, their number and the number of revisions are arbitrary.

Neither property is inductive.  That an answer meets its own list depends on what a revision
stands for, and that no lock is an orphan depends on which of dialogs, workers and the close
could release it.  `WorkbenchInv` says both.  `OneLockedWorker`, `DialogsHold` and
`SessionsHeld` tie the locks and the session number to the one dialog or the one worker that
holds them; since there is one dialog at most, a session number that is reused after a wrap
never belongs to two.  `DialogsVersioned` and `WorkersVersioned` say that what carries the
present revision was made for the present list, which is what the comparison of revisions in
the answers and completions relies on.  `BatchFits` says that a batch runs for the list on
screen: nothing edits a locked list.  `LockJustified` and `JournalLocked` give each lock its
reason.  The parts are stated of a state of `AppState` and the dialogs beside it (`Held`),
because handlers are compositions of `AppState` operators: there is one lemma per operator
(a session taken, a worker installed, an edit committed, a close requested), and the lemma
of an action strings those of its operators together.  The two action properties are proved
in the same lemmas: a completion or an answer changes the list only behind the comparison
that the invariant makes conclusive.  TLC checked `WorkbenchInv` on the instance of run
`workbench`.


### The progress of a batch

`ApplyProgressAssumption` says that the schedule has a step and that posts are lost a number
of times.  That an early cancellation never commits, and that the progress on screen never
goes back, depend on what the worker published last.  `SnapshotFits` ties it to the worker's
place: at the commit point the publication is Finalizing already, so a request stored before
it was stored before the last look at the token (`EarlyCancelStands`).  Each publication ranks
above the one before it, and what is shown is at most what is published (`ShownIsOlder`).

### Startup

`StartupAssumption` says that the other program and nobody are two things and not processes.
The number of processes and the descriptors a directory may have are arbitrary.
`StartupInv` has three parts for each process.  `LockHeld`: past the lock it holds the
lock, while it has a journal open it holds the lock too unless the system tears it down, and
before the lock and after its end it holds nothing; so only one process ever changes a
journal.  `EvidenceSeen`: at each place of the start, what lies on disk under a name that was
looked at is in the runtime, which is why an unlocked runtime has no journal beside it.
`PathChecked`: the part of the directory chain that a process has opened has passed the check,
and stays so, because another process only adds directories with the program's own
descriptor (`CreatedIsAccepted`).  That a descriptor that passes gives other accounts no
dangerous right is a lemma for every access list, of any length (`AcceptedIsPrivate`).

### The recovery menu

`MaxForeignAssumption` says that the other programs' steps are counted.  `RecoveryInv` adds
to the stated invariants what the handlers rely on between two dialogs: a journal held open
for use can be read (`HeldJournalsReadable`), a recovery and its cleanup run on the active
journal held open (`RecoveryNeedsJournal`), and a lock is for a journal that is known, except
between a discard and the reopening after it (`LockedForKnown`).  With that,
`LockedKeepsEvidence` is a consequence: what is known can be exported or shown.  The lemma of
each action of another program is short, because it can only add files or let go of them.

The action properties use the invariant too.  Apply is unlocked in two steps only
(`UnlockSteps`): a cleanup that deleted the active journal, and a reopening that found neither
name.  What an export leaves behind is a lemma about `copy_exact_with` (`CopyFacts`): an
earlier copy is never touched, and a copy reported good is whole.

### Preferences

`PreferencesAssumption` says that the default is a value, that the language is not one of
the ordinary settings, that the languages to choose from are languages, that no value is one
of the two marks for a missing and an unreadable file, and that the bounds are numbers.  The
settings and their values are arbitrary.

`AcknowledgedIsDurable` relates the window's account of a save to the file, and between them
lie a request slot, a thread and a queue of events.  `Consistent` follows the generations
through all of them, setting by setting.  `Due` is the oldest generation not yet done;
`Ordered` says that every event is behind `Due`, after what the window knows, and in rising
order; `Queue` says that the newest request, waiting or in the thread's hands, is for the
snapshot asked for last; `Outcome` says that once the newest generation is done, the file
holds that snapshot or a failure of that generation is on its way or known.  Each part is a
predicate of the values of one setting, so each step of a writer has one lemma about such
values, and a step of one setting keeps the others by `SettingKept`.  Draining the events
takes the largest generation among them, which is one use of a library theorem on
well-founded sets (`HasLargest`).  The language needs `LanguageNews` besides: what is on
screen, or the last news of it, is what the file holds.

`OriginInv` is about a user who chose no language.  The language file is then missing,
unreadable or holds the first language; while it is missing in an old installation some other
settings file is there, and in a new one none is until the default has been committed.  That
last part is false when a save fails, as section 3 says of `windows.rs:1011`, and so the theorem
asks for `MaxFaults = 0`.

### Text exports

`ExportAssumption` asks for numbers and that "none" is neither a path nor a folder; paths,
folders, the names tried and the moves of other programs are arbitrary.  `ExportInv` adds two
parts to what is promised.  `TargetRetained`: from the moment the item is accepted, the path
that was chosen leads to the folder that is held, and no other program can change that while
it is held.  `NamesKnown`: the program's file has no name before it is created, none outside
the target while it is open, and not the chosen one before it is complete.

### The composition

`StateInv` says of the component that runs that its invariant holds.  A step of
`MCStateFiles` is a step of that component (`ComponentSteps`), and the lemmas of the
components are used under their instances' names, so each theorem of `MCStateFiles` is about the
very property that run `state_files` checks.

### Only model-checked

- Liveness: fairness and ENABLED are outside the prover.
- What recursive definitions compute: the folds over sequences in `JournalReplay`,
  `JournalCodec`, `FilePicker` and `ListRefresh`.  `Schedule` is checked for all plans of up
  to three rows and not proved: that its walk around a cycle ends is an induction over data.
- The safety of the components that no theorem above names.
- For `ApplyProgress` the theorems are about the component; run `windows` checks the same
  invariants of it inside `MCWindows`.

## 5. Modelling decisions

The control of the code is kept; data is reduced to what the properties tell apart.

- *Journal.*  Checksums are injective; one cell of a file is damaged at most; a torn write
  leaves a prefix of what was written.  In `FileJournal` a frame stands for a record; the
  bytes are in `JournalCodec`.
- *Loss of power.*  `SAFETY.md` claims recovery from process loss only, and so do the models:
  what an append reported durable stays.
- *Planner and admission.*  The disk does not change during one admission (its branch for a
  limit reached at `Pop` is then dead); in the planner one native call is one step.
- *Startup.*  At most one irregularity in the directory chain initially; a journal's content
  is reduced to active, staged or unreadable.
- *Confirmation.*  A name has at most three units, an escape two digits.
- *Layout.*  Saturating arithmetic is plain arithmetic at these sizes; a wrapped text's
  height is its lines at its width; a drag of a hidden column stays loose until the next
  change of metrics.
- *Windows.*  Posts that the code does not check are taken to succeed in `FocusNavigation`
  and `AppearanceLayout`; a disabled or hidden button gets no mouse moves; in
  `AppearanceSession` input arrives only in the message loop.  The second `CloseClipboard`
  of the guard succeeds.
- *List on screen.*  A refresh handler runs to its end on the UI thread; a failing native
  call stops it where it is, at most `MaxFaults` times; four cells stand for a row, and the
  sort is by size.
- *Imports and exports.*  A single-byte code page; a native call may never return, and
  `CancelSynchronousIo` ends only a call under way.  A held folder cannot be renamed and file
  reference numbers are not reused.  A picked path is its length.
- *Import trace.*  The clock only advances, and ticks may coincide.
- *Recovery menu.*  The dialog sessions are those of `Workbench`; a rollback with its cleanup
  is two steps.

## 6. Not modelled

Painting, menus and accelerators, texts and translations, the visual capture and the
release tooling keep no state that a property could be about.  Native calls are modelled by
their results.  The bodies of the shell's dialogs are external.  `PROJECT.json` gives the
status of each component.

## 7. Plan

Done: all components of the inventory modelled and checked; proved, for instances of every
size, the transaction's safety and its refinement, the safety of the main window's state, its
callbacks, the progress of a batch, and all that run `state_files` checks.  Next:

1. Proofs of `IconPipeline`: bounds of its queues, and results of a retired generation.
2. Proofs of `TextImport` and `Admission`: the budgets are never passed, and an import is
   whole or nothing.
3. Proofs of `AppearanceSession` and `PromptDialog`, and the theorems of `ApplyProgress` and
   `WindowCallbacks` restated for `MCWindows`, as `MCStateFiles` does for its components.
