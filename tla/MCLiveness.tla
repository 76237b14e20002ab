----------------------------- MODULE MCLiveness -----------------------------
(***************************************************************************)
(* What must happen in the end, for each component that waits for          *)
(* something, one component in each behaviour, with the fairness its code  *)
(* justifies.                                                              *)
(***************************************************************************)
EXTENDS Integers, Sequences, FiniteSets

CONSTANTS
  iconA, iconB,    \* two icon classes
  k1, k2, k3, k4,  \* four directory entries
  NoFile, Outside  \* no file, a file outside the plan

VARIABLES
  component,   \* the component that runs in this behaviour
  \* WindowCallbacks
  callbacks_window, callbacks_status, reclaim_held, callbacks_freed, leases,
  hold, callbacks_stack, deferred, callbacks_shown, issued, wake,
  callbacks_timer, callbacks_faults, run, icons, registrations,
  \* ApplyProgress
  progress_pc, completed, total, snapshot, wake_pending, posting, wakes,
  progress_lost, progress_cancel, before, asking, present, progress_shown,
  button,
  \* PromptDialog
  task, details, modal, read_only, prompt_window, prompt_stack, prompt, read,
  text, style, painted, prompt_owner, queue, quit, prompt_outcome,
  prompt_faults, prompt_edits,
  \* AppearanceSession
  app, appearance_owner, windows, runner, accessible, saved, shut, committed,
  appearance_edits, appearance_faults,
  \* FocusNavigation
  states, visible, colors, indicator, focus_cancel, add, focus, tab_stop,
  active, held, posted,
  \* FilePicker
  picker_pc, kind, room, enabled, guard, options, picked, paths, budget,
  strings, fetched, selection,
  \* IconPipeline
  requests, retiring, wake_enabled, ui_wake_pending, unavailable,
  work_pending, work_wake, ui_wake, icons_lost, refreshes, worker, joined,
  key, resolved, attached, cache, batch, ack, reconcile, demand, cursor,
  continue_posted, icons_timer, close_pending, poll,
  \* Preferences
  phase, file, temp, settings_shown, asked, writer, settings_status, legacy,
  chosen, settings_faults, crashes,
  \* TextImport
  disk, origin, grown, import_pc, buffer, seen, result, cancellation,
  import_outcome,
  \* Schedule
  plan, busy, schedule_pc, pending, ready, reserved, pivot, schedule_freed,
  probes, schedule, spelling, summary

Callbacks == INSTANCE WindowCallbacks WITH
  Lease <- {1, 2, 3}, MaxDepth <- 3, MaxReports <- 2, MaxFaults <- 2,
  window <- callbacks_window, status <- callbacks_status,
  freed <- callbacks_freed, stack <- callbacks_stack,
  shown <- callbacks_shown, timer <- callbacks_timer,
  faults <- callbacks_faults

Progress == INSTANCE ApplyProgress WITH
  Steps <- 2, MaxLost <- 2, pc <- progress_pc, lost <- progress_lost,
  cancel <- progress_cancel, shown <- progress_shown

Prompt == INSTANCE PromptDialog WITH
  MaxText <- 1, MaxDetails <- 4, MaxDepth <- 2, MaxFaults <- 1,
  MaxEdits <- 0, MaxStyles <- 0, Texts <- {<<"a", "LF">>},
  window <- prompt_window, stack <- prompt_stack, owner <- prompt_owner,
  outcome <- prompt_outcome, faults <- prompt_faults, edits <- prompt_edits

Appearance == INSTANCE AppearanceSession WITH
  Theme <- {"System", "Dark"}, Density <- {"Automatic"},
  Emphasis <- {"Strong"}, IdLimit <- 2, MaxWindows <- 2, MaxEdits <- 1,
  MaxChanges <- 0, MaxFaults <- 1, owner <- appearance_owner,
  edits <- appearance_edits, faults <- appearance_faults

Focus == INSTANCE FocusNavigation WITH
  LeftButtons <- 2, RightButtons <- 1, MaxPosted <- 2, cancel <- focus_cancel

Picker == INSTANCE FilePicker WITH
  MaxPathUnits <- 2, Lengths <- {1, 3}, MaxSelected <- 2,
  Capacities <- [count : {0, 1}, bytes : {0, 4}], pc <- picker_pc

Icons == INSTANCE IconPipeline WITH
  Class <- {iconA, iconB}, MaxPending <- 1, MaxSerial <- 4,
  MaxGeneration <- 1, Rows <- 2, Chunk <- 1, CacheLimit <- 1,
  MaxRefreshes <- 0, MaxLost <- 1, lost <- icons_lost, timer <- icons_timer

Settings == INSTANCE Preferences WITH
  Ordinary <- {"Columns"}, Value <- {"V0"}, Default <- "V0",
  Choices <- {"English"}, MaxGeneration <- 1, MaxFaults <- 1,
  MaxCrashes <- 0, shown <- settings_shown, status <- settings_status,
  faults <- settings_faults

Import == INSTANCE TextImport WITH
  Texts <- {<<97>>, <<97, 10>>}, RawFiles <- {<<255>>}, MaxBytes <- 8,
  MaxGrowth <- 1, Remaining <- 1, pc <- import_pc, outcome <- import_outcome

Schedule == INSTANCE Schedule WITH
  None <- NoFile, Foreign <- Outside, Keys <- {k1, k2, k3, k4}, MaxRows <- 2,
  MAX_TEMP_CANDIDATES <- 2, pc <- schedule_pc, freed <- schedule_freed

ASSUME Progress!ApplyProgressAssumption
ASSUME Prompt!PromptAssumption
ASSUME Appearance!AppearanceAssumption
ASSUME Focus!FocusAssumption
ASSUME Picker!PickerAssumption
ASSUME Icons!IconRequestsAssumption
ASSUME Icons!IconPipelineAssumption
ASSUME Settings!PreferencesAssumption
ASSUME Import!ImportAssumption
ASSUME Schedule!ScheduleAssumption

callbacksVars == <<callbacks_window, callbacks_status, reclaim_held,
                   callbacks_freed, leases, hold, callbacks_stack, deferred,
                   callbacks_shown, issued, wake, callbacks_timer,
                   callbacks_faults, run, icons, registrations>>
progressVars == <<progress_pc, completed, total, snapshot, wake_pending,
                  posting, wakes, progress_lost, progress_cancel, before,
                  asking, present, progress_shown, button>>
promptVars == <<task, details, modal, read_only, prompt_window, prompt_stack,
                prompt, read, text, style, painted, prompt_owner, queue,
                quit, prompt_outcome, prompt_faults, prompt_edits>>
appearanceVars == <<app, appearance_owner, windows, runner, accessible,
                    saved, shut, committed, appearance_edits,
                    appearance_faults>>
focusVars == <<states, visible, colors, indicator, focus_cancel, add, focus,
               tab_stop, active, held, posted>>
pickerVars == <<picker_pc, kind, room, enabled, guard, options, picked,
                paths, budget, strings, fetched, selection>>
iconsVars == <<requests, retiring, wake_enabled, ui_wake_pending,
               unavailable, work_pending, work_wake, ui_wake, icons_lost,
               refreshes, worker, joined, key, resolved, attached, cache,
               batch, ack, reconcile, demand, cursor, continue_posted,
               icons_timer, close_pending, poll>>
settingsVars == <<phase, file, temp, settings_shown, asked, writer,
                  settings_status, legacy, chosen, settings_faults, crashes>>
importVars == <<disk, origin, grown, import_pc, buffer, seen, result,
                cancellation, import_outcome>>
scheduleVars == <<plan, busy, schedule_pc, pending, ready, reserved, pivot,
                  schedule_freed, probes, schedule, spelling, summary>>

vars == <<component, callbacksVars, progressVars, promptVars, appearanceVars,
  focusVars, pickerVars, iconsVars, settingsVars, importVars, scheduleVars>>

\* The variables of a component that does not run are blank.
NoCallbacks ==
  callbacks_window = 0 /\ callbacks_status = 0 /\ reclaim_held = 0 /\
  callbacks_freed = 0 /\ leases = 0 /\ hold = 0 /\ callbacks_stack = 0 /\
  deferred = 0 /\ callbacks_shown = 0 /\ issued = 0 /\ wake = 0 /\
  callbacks_timer = 0 /\ callbacks_faults = 0 /\ run = 0 /\ icons = 0 /\
  registrations = 0
NoProgress ==
  progress_pc = 0 /\ completed = 0 /\ total = 0 /\ snapshot = 0 /\
  wake_pending = 0 /\ posting = 0 /\ wakes = 0 /\ progress_lost = 0 /\
  progress_cancel = 0 /\ before = 0 /\ asking = 0 /\ present = 0 /\
  progress_shown = 0 /\ button = 0
NoPrompt ==
  task = 0 /\ details = 0 /\ modal = 0 /\ read_only = 0 /\
  prompt_window = 0 /\ prompt_stack = 0 /\ prompt = 0 /\ read = 0 /\
  text = 0 /\ style = 0 /\ painted = 0 /\ prompt_owner = 0 /\ queue = 0 /\
  quit = 0 /\ prompt_outcome = 0 /\ prompt_faults = 0 /\ prompt_edits = 0
NoAppearance ==
  app = 0 /\ appearance_owner = 0 /\ windows = 0 /\ runner = 0 /\
  accessible = 0 /\ saved = 0 /\ shut = 0 /\ committed = 0 /\
  appearance_edits = 0 /\ appearance_faults = 0
NoFocus ==
  states = 0 /\ visible = 0 /\ colors = 0 /\ indicator = 0 /\
  focus_cancel = 0 /\ add = 0 /\ focus = 0 /\ tab_stop = 0 /\ active = 0 /\
  held = 0 /\ posted = 0
NoPicker ==
  picker_pc = 0 /\ kind = 0 /\ room = 0 /\ enabled = 0 /\ guard = 0 /\
  options = 0 /\ picked = 0 /\ paths = 0 /\ budget = 0 /\ strings = 0 /\
  fetched = 0 /\ selection = 0
NoIcons ==
  requests = 0 /\ retiring = 0 /\ wake_enabled = 0 /\ ui_wake_pending = 0 /\
  unavailable = 0 /\ work_pending = 0 /\ work_wake = 0 /\ ui_wake = 0 /\
  icons_lost = 0 /\ refreshes = 0 /\ worker = 0 /\ joined = 0 /\ key = 0 /\
  resolved = 0 /\ attached = 0 /\ cache = 0 /\ batch = 0 /\ ack = 0 /\
  reconcile = 0 /\ demand = 0 /\ cursor = 0 /\ continue_posted = 0 /\
  icons_timer = 0 /\ close_pending = 0 /\ poll = 0
NoSettings ==
  phase = 0 /\ file = 0 /\ temp = 0 /\ settings_shown = 0 /\ asked = 0 /\
  writer = 0 /\ settings_status = 0 /\ legacy = 0 /\ chosen = 0 /\
  settings_faults = 0 /\ crashes = 0
NoImport ==
  disk = 0 /\ origin = 0 /\ grown = 0 /\ import_pc = 0 /\ buffer = 0 /\
  seen = 0 /\ result = 0 /\ cancellation = 0 /\ import_outcome = 0
NoSchedule ==
  plan = 0 /\ busy = 0 /\ schedule_pc = 0 /\ pending = 0 /\ ready = 0 /\
  reserved = 0 /\ pivot = 0 /\ schedule_freed = 0 /\ probes = 0 /\
  schedule = 0 /\ spelling = 0 /\ summary = 0

Init ==
  \/ /\ component = "Callbacks" /\ Callbacks!Init
     /\ NoProgress /\ NoPrompt /\ NoAppearance /\ NoFocus /\ NoPicker
     /\ NoIcons /\ NoSettings /\ NoImport /\ NoSchedule
  \/ /\ component = "Progress" /\ Progress!Init
     /\ NoCallbacks /\ NoPrompt /\ NoAppearance /\ NoFocus /\ NoPicker
     /\ NoIcons /\ NoSettings /\ NoImport /\ NoSchedule
  \/ /\ component = "Prompt" /\ Prompt!Init
     /\ NoCallbacks /\ NoProgress /\ NoAppearance /\ NoFocus /\ NoPicker
     /\ NoIcons /\ NoSettings /\ NoImport /\ NoSchedule
  \/ /\ component = "Appearance" /\ Appearance!Init
     /\ NoCallbacks /\ NoProgress /\ NoPrompt /\ NoFocus /\ NoPicker
     /\ NoIcons /\ NoSettings /\ NoImport /\ NoSchedule
  \/ /\ component = "Focus" /\ Focus!Init
     /\ NoCallbacks /\ NoProgress /\ NoPrompt /\ NoAppearance /\ NoPicker
     /\ NoIcons /\ NoSettings /\ NoImport /\ NoSchedule
  \/ /\ component = "Picker" /\ Picker!Init
     /\ NoCallbacks /\ NoProgress /\ NoPrompt /\ NoAppearance /\ NoFocus
     /\ NoIcons /\ NoSettings /\ NoImport /\ NoSchedule
  \/ /\ component = "Icons" /\ Icons!Init /\ key[0] = iconA /\ key[1] = iconB
     /\ NoCallbacks /\ NoProgress /\ NoPrompt /\ NoAppearance /\ NoFocus
     /\ NoPicker /\ NoSettings /\ NoImport /\ NoSchedule
  \/ /\ component = "Settings" /\ Settings!Init
     /\ NoCallbacks /\ NoProgress /\ NoPrompt /\ NoAppearance /\ NoFocus
     /\ NoPicker /\ NoIcons /\ NoImport /\ NoSchedule
  \/ /\ component = "Import" /\ Import!Init
     /\ NoCallbacks /\ NoProgress /\ NoPrompt /\ NoAppearance /\ NoFocus
     /\ NoPicker /\ NoIcons /\ NoSettings /\ NoSchedule
  \/ /\ component = "Schedule" /\ Schedule!Init /\ spelling = 0 /\ summary = 0
     /\ NoCallbacks /\ NoProgress /\ NoPrompt /\ NoAppearance /\ NoFocus
     /\ NoPicker /\ NoIcons /\ NoSettings /\ NoImport

Next ==
  \/ /\ component = "Callbacks" /\ Callbacks!Next
     /\ UNCHANGED <<component, progressVars, promptVars, appearanceVars,
                   focusVars, pickerVars, iconsVars, settingsVars,
                   importVars, scheduleVars>>
  \/ /\ component = "Progress" /\ Progress!Next
     /\ UNCHANGED <<component, callbacksVars, promptVars, appearanceVars,
                   focusVars, pickerVars, iconsVars, settingsVars,
                   importVars, scheduleVars>>
  \/ /\ component = "Prompt" /\ Prompt!Next
     /\ UNCHANGED <<component, callbacksVars, progressVars, appearanceVars,
                   focusVars, pickerVars, iconsVars, settingsVars,
                   importVars, scheduleVars>>
  \/ /\ component = "Appearance" /\ Appearance!Next
     /\ UNCHANGED <<component, callbacksVars, progressVars, promptVars,
                   focusVars, pickerVars, iconsVars, settingsVars,
                   importVars, scheduleVars>>
  \/ /\ component = "Focus" /\ Focus!Next
     /\ UNCHANGED <<component, callbacksVars, progressVars, promptVars,
                   appearanceVars, pickerVars, iconsVars, settingsVars,
                   importVars, scheduleVars>>
  \/ /\ component = "Picker" /\ Picker!Next
     /\ UNCHANGED <<component, callbacksVars, progressVars, promptVars,
                   appearanceVars, focusVars, iconsVars, settingsVars,
                   importVars, scheduleVars>>
  \/ /\ component = "Icons" /\ Icons!Next
     /\ UNCHANGED <<component, callbacksVars, progressVars, promptVars,
                   appearanceVars, focusVars, pickerVars, settingsVars,
                   importVars, scheduleVars>>
  \/ /\ component = "Settings" /\ Settings!Next
     /\ UNCHANGED <<component, callbacksVars, progressVars, promptVars,
                   appearanceVars, focusVars, pickerVars, iconsVars,
                   importVars, scheduleVars>>
  \/ /\ component = "Import" /\ Import!Next
     /\ UNCHANGED <<component, callbacksVars, progressVars, promptVars,
                   appearanceVars, focusVars, pickerVars, iconsVars,
                   settingsVars, scheduleVars>>
  \/ /\ component = "Schedule" /\ Schedule!Next
     /\ UNCHANGED <<component, spelling, summary, callbacksVars, progressVars,
                   promptVars, appearanceVars, focusVars, pickerVars,
                   iconsVars, settingsVars, importVars>>

-----------------------------------------------------------------------------
(***************************************************************************)
(* Fairness, for each component what its code and its scheduling justify:  *)
(* the i-th weakly or strongly fair step of the component that runs. As    *)
(* the component never changes, fairness of the i-th step is fairness of   *)
(* that step of the component.                                             *)
(***************************************************************************)
\* Every native call returns and every box is answered, the loop delivers
\* what is queued, timers fire, and ordinary messages (paint, mouse) keep
\* reaching the window while the loop is idle. Nested activations come and go
\* before an outer one goes on, hence the strong fairness.
CallbacksWeak(i) ==
  \/ i = 1 /\ Callbacks!StartRun
  \/ i = 2 /\ Callbacks!IconThreadEnds
  \/ i = 3 /\ Callbacks!LeaveLoop
  \/ i = 4 /\ Callbacks!EndRun

CallbacksStrong(i) ==
  \/ i \in 1..3 /\ Callbacks!Depth = i /\ (Callbacks!Return \/ Callbacks!NextBox)
  \/ i = 4 /\ Callbacks!DeferredWake /\ callbacks_stack = << >>
  \/ i = 5 /\ Callbacks!DeferredTimer /\ callbacks_stack = << >>
  \/ i = 6 /\ callbacks_stack = << >> /\ run = "Pumping" /\ Callbacks!Callback

\* The message loop keeps delivering messages and timers. The Apply worker
\* may hang in a rename: only the post that follows a publication is certain.
ProgressWeak(i) ==
  \/ i = 1 /\ Progress!PostWake
  \/ i = 2 /\ Progress!WakeMessage
  \/ i = 3 /\ Progress!PollTimer
  \/ i = 4 /\ Progress!RequestCancel
  \/ i = 5 /\ Progress!Completion

\* Native calls return, so every activation goes on; a finished loop ends;
\* the loop keeps taking posted messages.
PromptWeak(i) ==
  \/ i = 1 /\ Prompt!LoopEnds
  \/ i = 2 /\ Prompt!DropPrompt
  \/ i = 3 /\ Prompt!RestoreOwner

PromptStrong(i) ==
  \/ i \in 1..2 /\ Prompt!Depth = i /\ Prompt!HandlerStep
  \/ \E msg \in {"Ok", "Cancel", "Close"} :
       /\ i = (CASE msg = "Ok" -> 3 [] msg = "Cancel" -> 4 [] msg = "Close" -> 5)
       /\ msg \in queue /\ Prompt!DispatchPosted /\ msg \notin queue'

\* The runner is straight-line code, workers end, and messages are handled.
AppearanceWeak(i) ==
  \/ i = 1 /\ Appearance!RunnerStep
  \/ i = 2 /\ Appearance!WorkEnds
  \/ i = 3 /\ Appearance!FinishClose

\* The Shell answers, the worker's wait is finite, the message loop keeps
\* delivering posts and timers, and the UI thread's tries for the lock do not
\* all fall into the worker's short sections. Nothing forces a close.
IconsWeak(i) ==
  \/ i = 1 /\ Icons!Worker
  \/ i = 2 /\ Icons!PollOnTimer
  \/ i = 3 /\ Icons!PollOnWake
  \/ i = 4 /\ Icons!PollOnContinue
  \/ i = 5 /\ Icons!PollClosing
  \/ i = 6 /\ (Icons!Snapshot \/ Icons!Visit \/ Icons!VisitsDone \/ Icons!EndPoll)

IconsStrong(i) ==
  \/ i \in 1..2 /\ cursor = i - 1 /\ Icons!VisitWith(TRUE)
  \/ i = 3 /\ Icons!PollOnTimer /\ Icons!PollWith(continue_posted, TRUE)
  \/ i = 4 /\ Icons!SnapshotWith(TRUE)
  \/ i = 5 /\ Icons!EndPollWith(TRUE)

\* The writer threads run, the timer drains, a close that is ready is finished.
SettingsWeak(i) ==
  \/ i = 1 /\ Settings!Writes("Columns")
  \/ i = 2 /\ Settings!Writes("Language")
  \/ i = 3 /\ Settings!Drain
  \/ i = 4 /\ Settings!FinishClose

\* The worker runs and the timer fires; nothing says that a native call of an
\* import ever returns.
ImportWeak(i) ==
  \/ i = 1 /\ Import!WorkerStep
  \/ i = 2 /\ Import!Poll
  \/ i = 3 /\ Import!handle_import_completion

\* The loop takes the request to restore the focus; the file picker and
\* build_schedule are straight-line code of a thread that is not starved.
WeakStep(i) ==
  /\ UNCHANGED component
  /\ \/ component = "Callbacks" /\ CallbacksWeak(i)
     \/ component = "Progress" /\ ProgressWeak(i)
     \/ component = "Prompt" /\ PromptWeak(i)
     \/ component = "Appearance" /\ AppearanceWeak(i)
     \/ component = "Focus" /\ i = 1 /\ Focus!RestoreFocus
     \/ component = "Picker" /\ i = 1 /\ Picker!Next
     \/ component = "Icons" /\ IconsWeak(i)
     \/ component = "Settings" /\ SettingsWeak(i)
     \/ component = "Import" /\ ImportWeak(i)
     \/ component = "Schedule" /\ i = 1 /\ Schedule!Iterate

StrongStep(i) ==
  /\ UNCHANGED component
  /\ \/ component = "Callbacks" /\ CallbacksStrong(i)
     \/ component = "Prompt" /\ PromptStrong(i)
     \/ component = "Icons" /\ IconsStrong(i)

\* The variables of the component that runs.
running ==
  CASE component = "Callbacks" -> callbacksVars
    [] component = "Progress" -> progressVars
    [] component = "Prompt" -> promptVars
    [] component = "Appearance" -> appearanceVars
    [] component = "Focus" -> focusVars
    [] component = "Picker" -> pickerVars
    [] component = "Icons" -> iconsVars
    [] component = "Settings" -> settingsVars
    [] component = "Import" -> importVars
    [] component = "Schedule" -> Schedule!vars

Spec ==
  /\ Init /\ [][Next]_vars
  /\ \A i \in 1..6 : WF_running(WeakStep(i))
  /\ \A i \in 1..6 : SF_running(StrongStep(i))

-----------------------------------------------------------------------------
\* Somebody waits for the window: a deferred warning for its box, progress
\* for the status line, a refused close of a prompt, a close of the window
\* during a preview, a missing keyboard focus, a picker that took its owner,
\* a close that needs the icon thread or the writers, a cancelled import.
Waiting ==
  CASE component = "Callbacks" -> deferred # << >>
    [] component = "Progress" -> progress_shown # snapshot
    [] component = "Prompt" -> "Close" \in queue
    [] component = "Appearance" -> app.close_pending
    [] component = "Focus" -> active /\ held = Focus!Nobody
    [] component = "Picker" -> guard
    [] component = "Icons" -> close_pending
    [] component = "Settings" -> phase = "Closing"
    [] component = "Import" -> cancellation
    [] OTHER -> FALSE

Answered ==
  CASE component = "Callbacks" -> deferred = << >> \/ callbacks_window = "Gone"
    [] component = "Progress" -> progress_shown = snapshot \/ ~present
    [] component = "Prompt" -> prompt_window = "Gone" \/ modal = "Aborted"
    [] component = "Appearance" -> ~appearance_owner.alive
    [] component = "Focus" -> held # Focus!Nobody \/ ~active
    [] component = "Picker" -> picker_pc = "Idle" /\ enabled
    [] component = "Icons" -> joined
    [] component = "Settings" -> phase = "Off"
    [] component = "Import" -> import_outcome # Import!NoOutcome
    [] OTHER -> TRUE

(***************************************************************************)
(* Whoever waits for a window is answered in the end, through busy         *)
(* callbacks, lost posts and nested loops: a deferred warning gets its     *)
(* box, every publication reaches the status line, a close put off while a *)
(* prompt was busy closes it, a window that is to close goes and its       *)
(* threads are joined, the keyboard focus comes back, a picker gives its   *)
(* owner back, and a cancelled import ends even if its native call never   *)
(* returns.                                                                *)
(***************************************************************************)
UserIsAnswered == Waiting ~> Answered

\* Work under way behind the window.
Unfinished ==
  CASE component = "Progress" -> Progress!is_finishing /\ button = "Enabled"
    [] component = "Icons" -> Icons!Unresolved # 0
    [] component = "Settings" ->
         /\ phase = "Running"
         /\ \E k \in {"Columns", "Language"} : settings_status[k].requested > settings_status[k].saved
    [] component = "Schedule" -> schedule_pc \notin Schedule!Returned
    [] OTHER -> FALSE

Settled ==
  CASE component = "Progress" -> button # "Enabled"
    [] component = "Icons" -> Icons!Unresolved = 0 \/ close_pending
    [] component = "Settings" ->
         \/ phase # "Running"
         \/ \A k \in {"Columns", "Language"} :
              settings_status[k].failed > 0 \/ settings_status[k].saved >= settings_status[k].requested
    [] component = "Schedule" -> schedule_pc \in Schedule!Returned
    [] OTHER -> TRUE

(***************************************************************************)
(* Work in the background comes to an end that the user sees: a worker     *)
(* that undoes or finishes takes the Cancel button away, every row gets    *)
(* its icon or is told that there is none, a submitted setting is saved or *)
(* its failure reported, and build_schedule returns.                       *)
(***************************************************************************)
BackgroundWorkEnds == Unfinished ~> Settled
=============================================================================
