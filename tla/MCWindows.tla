----------------------------- MODULE MCWindows ------------------------------
(***************************************************************************)
(* The windows of the program, one in each behaviour: the main window's    *)
(* callbacks, the progress of a batch, keyboard focus and the command      *)
(* rails, a prompt, the appearance window, the file picker, the clipboard, *)
(* and the layouts of MCLayout.  A component is on its own because each is *)
(* entered with the others idle; the main window's callbacks wait in their *)
(* initial state while another component runs.                             *)
(***************************************************************************)
EXTENDS WindowCallbacks, MCLayout, TLC

\* Full texts of up to two units and three of three.
PromptTexts ==
  UNION {[1..n -> {"a", "CR", "LF"}] : n \in 1..2}
    \cup {<<"CR", "LF", "LF">>, <<"CR", "CR", "LF">>, <<"a", "NUL">>}

VARIABLES
  \* ApplyProgress
  progress_pc, completed, total, snapshot, wake_pending, posting, wakes,
  lost, progress_cancel, before, asking, present, progress_shown, button,
  \* FocusNavigation
  states, visible, colors, indicator, focus_cancel, add, focus, tab_stop,
  active, held, posted,
  \* CommandRail
  phase, buttons, subclassed, separators, tooltip, texts, tools,
  rail_visible, separators_requested, shown_separators, rail_enabled, mouse,
  capture, hot, tracking, leave, rail_faults,
  \* PromptDialog
  task, details, modal, read_only, prompt_window, prompt_stack, prompt, read,
  text, style, painted, prompt_owner, queue, quit, outcome, prompt_faults,
  prompt_edits,
  \* AppearanceSession
  app, appearance_owner, windows, runner, accessible, saved, shut, committed,
  appearance_edits, appearance_faults,
  \* FilePicker
  picker_pc, kind, room, picker_enabled, guard, options, picked, paths,
  budget, strings, fetched, selection,
  \* Clipboard
  clipboard_pc, copies, owned, clipboard_freed, allocated, filled, session,
  holder, contents, result

Progress == INSTANCE ApplyProgress WITH
  Steps <- 3, MaxLost <- 2, pc <- progress_pc, cancel <- progress_cancel,
  shown <- progress_shown

Focus == INSTANCE FocusNavigation WITH
  LeftButtons <- 3, RightButtons <- 1, MaxPosted <- 2, cancel <- focus_cancel

Rail == INSTANCE CommandRail WITH
  Commands <- 3, Separators <- 2, MaxFaults <- 2, enabled <- rail_enabled,
  faults <- rail_faults

Prompt == INSTANCE PromptDialog WITH
  MaxText <- 2, MaxDetails <- 4, MaxDepth <- 2, MaxFaults <- 1,
  MaxEdits <- 2, MaxStyles <- 1, Texts <- PromptTexts,
  window <- prompt_window, stack <- prompt_stack, owner <- prompt_owner,
  faults <- prompt_faults, edits <- prompt_edits

Appearance == INSTANCE AppearanceSession WITH
  Theme <- {"System", "Dark"}, Density <- {"Automatic", "Compact"},
  Emphasis <- {"Strong"}, IdLimit <- 2, MaxWindows <- 2, MaxEdits <- 2,
  MaxChanges <- 1, MaxFaults <- 1, owner <- appearance_owner,
  edits <- appearance_edits, faults <- appearance_faults

Picker == INSTANCE FilePicker WITH
  MaxPathUnits <- 2, Lengths <- {0, 1, 2, 3}, MaxSelected <- 4,
  Capacities <- [count : 0..2, bytes : {0, 4, 6}], pc <- picker_pc,
  enabled <- picker_enabled

Clipboard == INSTANCE Clipboard WITH
  MaxCopies <- 3, pc <- clipboard_pc, freed <- clipboard_freed

ASSUME Progress!ApplyProgressAssumption
ASSUME Focus!FocusAssumption
ASSUME Rail!RailAssumption
ASSUME Prompt!PromptAssumption
ASSUME Appearance!AppearanceAssumption
ASSUME Picker!PickerAssumption
ASSUME Clipboard!ClipboardAssumption

progressVars == <<progress_pc, completed, total, snapshot, wake_pending,
                  posting, wakes, lost, progress_cancel, before, asking,
                  present, progress_shown, button>>
focusVars == <<states, visible, colors, indicator, focus_cancel, add, focus,
               tab_stop, active, held, posted>>
railVars == <<phase, buttons, subclassed, separators, tooltip, texts, tools,
              rail_visible, separators_requested, shown_separators,
              rail_enabled, mouse, capture, hot, tracking, leave, rail_faults>>
promptVars == <<task, details, modal, read_only, prompt_window, prompt_stack,
                prompt, read, text, style, painted, prompt_owner, queue,
                quit, outcome, prompt_faults, prompt_edits>>
appearanceVars == <<app, appearance_owner, windows, runner, accessible,
                    saved, shut, committed, appearance_edits,
                    appearance_faults>>
pickerVars == <<picker_pc, kind, room, picker_enabled, guard, options,
                picked, paths, budget, strings, fetched, selection>>
clipboardVars == <<clipboard_pc, copies, owned, clipboard_freed, allocated,
                   filled, session, holder, contents, result>>

allVars == <<component, vars, progressVars, focusVars, railVars, promptVars,
  appearanceVars, pickerVars, clipboardVars, layoutVars>>

\* The variables of a component that does not run are blank.
NoProgress ==
  progress_pc = 0 /\ completed = 0 /\ total = 0 /\ snapshot = 0 /\
  wake_pending = 0 /\ posting = 0 /\ wakes = 0 /\ lost = 0 /\
  progress_cancel = 0 /\ before = 0 /\ asking = 0 /\ present = 0 /\
  progress_shown = 0 /\ button = 0
NoFocus ==
  states = 0 /\ visible = 0 /\ colors = 0 /\ indicator = 0 /\
  focus_cancel = 0 /\ add = 0 /\ focus = 0 /\ tab_stop = 0 /\ active = 0 /\
  held = 0 /\ posted = 0
NoRail ==
  phase = 0 /\ buttons = 0 /\ subclassed = 0 /\ separators = 0 /\
  tooltip = 0 /\ texts = 0 /\ tools = 0 /\ rail_visible = 0 /\
  separators_requested = 0 /\ shown_separators = 0 /\ rail_enabled = 0 /\
  mouse = 0 /\ capture = 0 /\ hot = 0 /\ tracking = 0 /\ leave = 0 /\
  rail_faults = 0
NoPrompt ==
  task = 0 /\ details = 0 /\ modal = 0 /\ read_only = 0 /\
  prompt_window = 0 /\ prompt_stack = 0 /\ prompt = 0 /\ read = 0 /\
  text = 0 /\ style = 0 /\ painted = 0 /\ prompt_owner = 0 /\ queue = 0 /\
  quit = 0 /\ outcome = 0 /\ prompt_faults = 0 /\ prompt_edits = 0
NoAppearance ==
  app = 0 /\ appearance_owner = 0 /\ windows = 0 /\ runner = 0 /\
  accessible = 0 /\ saved = 0 /\ shut = 0 /\ committed = 0 /\
  appearance_edits = 0 /\ appearance_faults = 0
NoPicker ==
  picker_pc = 0 /\ kind = 0 /\ room = 0 /\ picker_enabled = 0 /\ guard = 0 /\
  options = 0 /\ picked = 0 /\ paths = 0 /\ budget = 0 /\ strings = 0 /\
  fetched = 0 /\ selection = 0
NoClipboard ==
  clipboard_pc = 0 /\ copies = 0 /\ owned = 0 /\ clipboard_freed = 0 /\
  allocated = 0 /\ filled = 0 /\ session = 0 /\ holder = 0 /\ contents = 0 /\
  result = 0

AllInit ==
  \/ /\ component = "Callbacks" /\ Init
     /\ NoProgress /\ NoFocus /\ NoRail /\ NoPrompt /\ NoAppearance
     /\ NoPicker /\ NoClipboard /\ NoLayout
  \/ /\ component = "Progress" /\ Progress!Init /\ Init
     /\ NoFocus /\ NoRail /\ NoPrompt /\ NoAppearance /\ NoPicker
     /\ NoClipboard /\ NoLayout
  \/ /\ component = "Focus" /\ Focus!Init /\ Init
     /\ NoProgress /\ NoRail /\ NoPrompt /\ NoAppearance /\ NoPicker
     /\ NoClipboard /\ NoLayout
  \/ /\ component = "Rail" /\ Rail!Init /\ Init
     /\ NoProgress /\ NoFocus /\ NoPrompt /\ NoAppearance /\ NoPicker
     /\ NoClipboard /\ NoLayout
  \/ /\ component = "Prompt" /\ Prompt!Init /\ Init
     /\ NoProgress /\ NoFocus /\ NoRail /\ NoAppearance /\ NoPicker
     /\ NoClipboard /\ NoLayout
  \/ /\ component = "Appearance" /\ Appearance!Init /\ Init
     /\ NoProgress /\ NoFocus /\ NoRail /\ NoPrompt /\ NoPicker
     /\ NoClipboard /\ NoLayout
  \/ /\ component = "Picker" /\ Picker!Init /\ Init
     /\ NoProgress /\ NoFocus /\ NoRail /\ NoPrompt /\ NoAppearance
     /\ NoClipboard /\ NoLayout
  \/ /\ component = "Clipboard" /\ Clipboard!Init /\ Init
     /\ NoProgress /\ NoFocus /\ NoRail /\ NoPrompt /\ NoAppearance
     /\ NoPicker /\ NoLayout
  \/ /\ LayoutInit /\ Init
     /\ NoProgress /\ NoFocus /\ NoRail /\ NoPrompt /\ NoAppearance
     /\ NoPicker /\ NoClipboard

AllNext ==
  \/ /\ component = "Callbacks" /\ Next
     /\ UNCHANGED <<component, progressVars, focusVars, railVars, promptVars,
                   appearanceVars, pickerVars, clipboardVars, layoutVars>>
  \/ /\ component = "Progress" /\ Progress!Next
     /\ UNCHANGED <<component, vars, focusVars, railVars, promptVars,
                   appearanceVars, pickerVars, clipboardVars, layoutVars>>
  \/ /\ component = "Focus" /\ Focus!Next
     /\ UNCHANGED <<component, vars, progressVars, railVars, promptVars,
                   appearanceVars, pickerVars, clipboardVars, layoutVars>>
  \/ /\ component = "Rail" /\ Rail!Next
     /\ UNCHANGED <<component, vars, progressVars, focusVars, promptVars,
                   appearanceVars, pickerVars, clipboardVars, layoutVars>>
  \/ /\ component = "Prompt" /\ Prompt!Next
     /\ UNCHANGED <<component, vars, progressVars, focusVars, railVars,
                   appearanceVars, pickerVars, clipboardVars, layoutVars>>
  \/ /\ component = "Appearance" /\ Appearance!Next
     /\ UNCHANGED <<component, vars, progressVars, focusVars, railVars,
                   promptVars, pickerVars, clipboardVars, layoutVars>>
  \/ /\ component = "Picker" /\ Picker!Next
     /\ UNCHANGED <<component, vars, progressVars, focusVars, railVars,
                   promptVars, appearanceVars, clipboardVars, layoutVars>>
  \/ /\ component = "Clipboard" /\ Clipboard!Next
     /\ UNCHANGED <<component, vars, progressVars, focusVars, railVars,
                   promptVars, appearanceVars, pickerVars, layoutVars>>
  \/ /\ LayoutNext
     /\ UNCHANGED <<vars, progressVars, focusVars, railVars, promptVars,
                   appearanceVars, pickerVars, clipboardVars>>

AllSpec == AllInit /\ [][AllNext]_allVars

-----------------------------------------------------------------------------
(***************************************************************************)
(* While a batch runs, the status is never behind without a wake under     *)
(* way, a cancellation accepted before the commit point stops the batch,   *)
(* and no cancel is offered after it (ApplyProgress).                      *)
(***************************************************************************)
ProgressTruthful ==
  component = "Progress" =>
    /\ Progress!TypeOK /\ Progress!BehindMeansPending /\ Progress!PendingIsPosted
    /\ Progress!EarlyCancelNeverCommits /\ Progress!NoCancelOffered

(***************************************************************************)
(* The command rails stay usable by keyboard and mouse: lost focus is      *)
(* always asked back, Tab and F6 reach every usable rail and region, arrow *)
(* keys are inverse, the focus indicator is true; tooltip texts live as    *)
(* long as their tools, a rail is created whole or not at all, and no      *)
(* unusable button is hot (FocusNavigation, CommandRail).                  *)
(***************************************************************************)
RailsUsable ==
  /\ component = "Focus" =>
       /\ Focus!TypeOK /\ Focus!LostFocusIsRequested /\ Focus!MemoryFollowsFocus
       /\ Focus!TabReachesEveryRail /\ Focus!F6VisitsEveryRegion
       /\ Focus!UpUndoesDown /\ Focus!IndicatorIsTrue
  /\ component = "Rail" =>
       /\ Rail!TypeOK /\ Rail!TooltipTextsOutliveTools /\ Rail!CreateIsAllOrNothing
       /\ Rail!SeparatorsFollowBoth /\ Rail!UnusableIsCold /\ Rail!HotIsTemporary

(***************************************************************************)
(* A prompt's state outlives its window and every activation of its        *)
(* procedure, the owner is disabled while it is open, and the details and  *)
(* the painted text are current and whole (PromptDialog).                  *)
(***************************************************************************)
PromptSafe ==
  component = "Prompt" =>
    /\ Prompt!TypeOK /\ Prompt!StateOutlivesWindow /\ Prompt!OwnerDisabledWhileOpen
    /\ Prompt!IdlePaintIsCurrent /\ Prompt!DetailsAreWhole

(***************************************************************************)
(* The appearance window previews without committing: while the program    *)
(* runs only a chosen appearance is saved, a preview never outlives its    *)
(* session, one window belongs to one session, the owner is never left     *)
(* disabled, and the controls and the window follow the draft and the      *)
(* system (AppearanceSession).                                             *)
(***************************************************************************)
AppearanceSafe ==
  component = "Appearance" =>
    /\ Appearance!TypeOK /\ Appearance!OnlyChosenIsSaved
    /\ Appearance!PreviewNeverOutlivesSession /\ Appearance!OneWindowOneSession
    /\ Appearance!OwnerNeverStranded /\ Appearance!ControlsShowDraft
    /\ Appearance!WindowFollowsSystem

(***************************************************************************)
(* Memory handed to and taken from the system is freed once, by whoever    *)
(* owns it: a picked file is delivered or the selection is refused aloud,  *)
(* every name the picker allocated is freed, a clipboard block belongs to  *)
(* us or to the clipboard, and the clipboard is closed by whoever opened   *)
(* it (FilePicker, Clipboard).                                             *)
(***************************************************************************)
TransfersSafe ==
  /\ component = "Picker" =>
       /\ Picker!TypeOK /\ Picker!NothingDroppedSilently /\ Picker!WorkIsBounded
       /\ Picker!NamesFreed /\ Picker!SelectionFits
  /\ component = "Clipboard" =>
       /\ Clipboard!TypeOK /\ Clipboard!ClipboardBlockIsLive /\ Clipboard!NoBlockLeaks
       /\ Clipboard!ClipboardIsClosed /\ Clipboard!ClosesItsOwn

(***************************************************************************)
(* What one step may never do: open a deferred box after the window is     *)
(* gone, show older progress than before, return from a prompt with its    *)
(* owner disabled, accept a text that was cut by a single change, ask for  *)
(* a confirmation without a live owner, save a preview when the program is *)
(* closed, empty the clipboard before the new text is ready or report a    *)
(* copy that is not on it.                                                 *)
(***************************************************************************)
WindowSteps ==
  [][ /\ component = "Callbacks" => NoBoxAfterDestroy
      /\ component = "Progress" => Progress!ShownNeverGoesBack
      /\ component = "Prompt" =>
           /\ Prompt!OwnerRestored /\ Prompt!ConfirmationOnlyWhileOpen
           /\ Prompt!TruncationNeedsTwoChanges
      /\ component = "Appearance" => Appearance!ShutSavesChosen
      /\ component = "Clipboard" => Clipboard!OldContentsKept /\ Clipboard!SuccessIsOnClipboard
    ]_allVars
=============================================================================
