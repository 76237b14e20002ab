---------------------------- MODULE PromptDialog ----------------------------
(***************************************************************************)
(* The modal prompt (windows/dialog.rs): create_prompt_window, the nested  *)
(* message loop, prompt_proc with its lease on the PromptState, the result *)
(* it hands back, and the task dialog that can open a prompt with the full *)
(* text and is then shown again.                                           *)
(*                                                                         *)
(* Everything runs on the UI thread.  `stack' holds the activations of     *)
(* prompt_proc, the innermost last; a native call of the innermost one can *)
(* enter prompt_proc again, destroy the window, or let another process     *)
(* change the text of the edit control.  Texts are represented by their    *)
(* length, palettes by the number of the system style they were made for.  *)
(***************************************************************************)
EXTENDS Integers, Sequences, FiniteSets

LOCAL SX == INSTANCE SequencesExt

CONSTANTS
  MaxText,       \* MAX_PROMPT_TEXT_UTF16_UNITS
  MaxDetails,    \* MAX_TEXT_DETAILS_UTF16_UNITS
  MaxDepth,      \* bound on nested activations
  MaxFaults,     \* bound on failing native calls
  MaxEdits,      \* bound on changes of the control's text
  MaxStyles,     \* bound on changes of the system style
  Texts          \* full texts the task dialog can offer

PromptAssumption ==
  /\ MaxText \in Nat /\ MaxDetails \in Nat /\ MaxDepth \in Nat
  /\ MaxFaults \in Nat /\ MaxEdits \in Nat /\ MaxStyles \in Nat

VARIABLES
  task,       \* select_prepared_task_dialog: "None", "Shown", "Details" or "Done"
  details,    \* its full text, and what text_details_value made of it
  modal,      \* where prompt_input_variant is
  read_only,
  window,     \* "None", "Published" (GWLP_USERDATA set) or "Gone"
  stack,      \* activations of prompt_proc: [msg, at]
  prompt,     \* PromptState: [done, result, error, palette, freed]
  read,       \* the latest prompt_window_text: [length, copied], and two histories:
              \* whole, whether the copy held all of the text; since, the value of
              \* edits when the first length was read
  text,       \* length of the edit control's text
  style,      \* the system's style
  painted,    \* the palette on the screen, or Native
  owner,      \* [alive, enabled, was, closing]
  queue,      \* messages in the thread's queue
  quit,       \* WM_QUIT: "No", "Queued" or "Reposted"
  outcome,    \* what prompt_input returned: "None", "Value", "Cancelled", "Error"
  faults, edits

promptVars == <<modal, read_only, window, stack, prompt, read, painted, outcome>>
outerVars  == <<task, details>>
worldVars  == <<text, style, owner, queue, quit, faults, edits>>
vars == <<promptVars, outerVars, worldVars>>

Native == -1
NoText == -1

Message == {"Create", "Paint", "Refresh", "Ok", "Cancel", "Close"}
Actionable == {"Ok", "Cancel", "Close"}

At == {"Held", "Length", "Copy", "Check", "Free"}

Depth == Len(stack)
Top   == stack[Depth]

Leased == \E i \in 1..Depth : stack[i].at # "Free"

NewPrompt == [done |-> FALSE, result |-> NoText, error |-> FALSE,
              palette |-> Native, freed |-> FALSE]

NewRead == [length |-> 0, copied |-> 0, whole |-> TRUE, since |-> 0]

TypeOK ==
  /\ task \in {"None", "Shown", "Details", "Done"}
  /\ modal \in {"Idle", "Creating", "Loop", "Drop", "Restore", "Returned", "Aborted"}
  /\ window \in {"None", "Published", "Gone"}
  /\ \A i \in 1..Depth : stack[i].msg \in Message /\ stack[i].at \in At
  /\ Depth <= MaxDepth
  /\ Cardinality({i \in 1..Depth : stack[i].at # "Free"}) <= 1
  /\ prompt.result \in NoText..MaxText
  /\ prompt.palette \in Native..MaxStyles /\ painted \in Native..MaxStyles
  /\ text \in 0..(MaxText + 2) /\ style \in 0..MaxStyles
  /\ queue \subseteq Actionable
  /\ outcome \in {"None", "Value", "Cancelled", "Error"}

-----------------------------------------------------------------------------
(***************************************************************************)
(* text_details_value: every line break becomes CR LF; a NUL or a text     *)
(* that grows past the limit is refused (NoDetails).                       *)
(***************************************************************************)
NoDetails == <<"Refused">>

Breaks(units, i) ==
  units[i] = "CR" \/ (units[i] = "LF" /\ (i = 1 \/ units[i - 1] # "CR"))

Normalised(units) ==
  SX!FlattenSeq([i \in 1..Len(units) |->
    IF Breaks(units, i) THEN <<"CR", "LF">>
    ELSE IF units[i] = "LF" THEN << >> ELSE <<units[i]>>])

text_details_value(units) ==
  IF \/ \E i \in 1..Len(units) : units[i] = "NUL"
     \/ Len(Normalised(units)) > MaxDetails
  THEN NoDetails
  ELSE Normalised(units)

-----------------------------------------------------------------------------
Init ==
  /\ \/ /\ task = "None" /\ details = [full |-> << >>, shown |-> << >>]
        /\ read_only = FALSE /\ text \in 0..MaxText
     \/ /\ task = "Shown" /\ text = 0   \* a read-only text is never read back
        /\ details \in {[full |-> t, shown |-> << >>] : t \in Texts}
        /\ read_only = TRUE
  /\ modal = "Idle"
  /\ window = "None"
  /\ stack = << >>
  /\ prompt = NewPrompt /\ read = NewRead
  /\ style = 0 /\ painted = Native
  /\ owner \in {[alive |-> TRUE, enabled |-> e, was |-> FALSE, closing |-> FALSE] :
                  e \in BOOLEAN}
  /\ queue = {} /\ quit = "No"
  /\ outcome = "None"
  /\ faults = 0 /\ edits = 0

Fault == faults < MaxFaults /\ faults' = faults + 1

Enter(frame) == stack' = Append(stack, frame)

Leave == stack' = SubSeq(stack, 1, Depth - 1)

GoOn(at) == stack' = [stack EXCEPT ![Depth].at = at]

(***************************************************************************)
(* select_prepared_task_dialog: a button other than the details button is  *)
(* the answer; after the details the dialog comes back only for an owner   *)
(* that is alive and not closing.                                          *)
(***************************************************************************)
TaskDialogAnswered ==
  /\ task = "Shown" /\ modal = "Idle"
  /\ task' = "Done"
  /\ UNCHANGED <<details, promptVars, worldVars>>

OpenDetails ==
  /\ task = "Shown" /\ modal = "Idle"
  /\ details' = [details EXCEPT !.shown = text_details_value(details.full)]
  /\ IF details'.shown = NoDetails
     THEN task' = "Done" /\ UNCHANGED modal
     ELSE task' = "Details" /\ modal' = "Creating"
  /\ UNCHANGED <<read_only, window, stack, prompt, read, painted, outcome, worldVars>>

ShowAgain == owner.alive /\ ~owner.closing

CloseDetails ==
  /\ task = "Details" /\ modal = "Returned"
  /\ IF outcome # "Error" /\ ShowAgain
     THEN /\ task' = "Shown" /\ modal' = "Idle" /\ window' = "None"
          /\ prompt' = NewPrompt /\ outcome' = "None" /\ painted' = Native
     ELSE task' = "Done" /\ UNCHANGED <<modal, window, prompt, outcome, painted>>
  /\ UNCHANGED <<details, read_only, stack, read, worldVars>>

(***************************************************************************)
(* create_prompt_window.  CreateWindowExW can fail before the window       *)
(* procedure runs; otherwise WM_NCCREATE publishes the slot and WM_CREATE  *)
(* makes the children.  A child that cannot be made fails the creation,    *)
(* and the window is destroyed before the call returns.                    *)
(***************************************************************************)
StartPrompt ==
  /\ task = "None" /\ modal = "Idle"
  /\ modal' = "Creating"
  /\ UNCHANGED <<read_only, window, stack, prompt, read, painted, outcome, outerVars, worldVars>>

CreateWindow ==
  /\ modal = "Creating" /\ window = "None"
  /\ window' = "Published"
  /\ Enter([msg |-> "Create", at |-> "Held"])
  /\ UNCHANGED <<modal, read_only, prompt, read, painted, outcome, outerVars, worldVars>>

CreateWindowFails ==
  /\ modal = "Creating" /\ window = "None"
  /\ Fault
  /\ modal' = "Drop" /\ outcome' = "Error"
  /\ UNCHANGED <<read_only, window, stack, prompt, read, painted, outerVars,
                 text, style, owner, queue, quit, edits>>

Running(msg, at) == Depth > 0 /\ Top = [msg |-> msg, at |-> at]

create_prompt_children ==
  /\ Running("Create", "Held")
  /\ prompt' = [prompt EXCEPT !.palette = style]
  /\ GoOn("Free")
  /\ UNCHANGED <<modal, read_only, window, read, painted, outcome, outerVars, worldVars>>

ChildFails ==
  /\ Running("Create", "Held")
  /\ Fault
  /\ prompt' = [prompt EXCEPT !.error = TRUE]
  /\ Leave
  /\ window' = "Gone" /\ queue' = {}
  /\ modal' = "Drop" /\ outcome' = "Error"
  /\ UNCHANGED <<read_only, read, painted, outerVars, text, style, owner, quit, edits>>

(***************************************************************************)
(* The rest of WM_CREATE, and the return of CreateWindowExW: the guard     *)
(* disables the owner and the loop begins.                                 *)
(***************************************************************************)
redraw_prompt == painted' = IF window = "Published" THEN prompt.palette ELSE painted

FinishCreate ==
  /\ Running("Create", "Free")
  /\ redraw_prompt
  /\ Leave
  /\ IF window = "Published"
     THEN /\ modal' = "Loop" /\ UNCHANGED outcome
          /\ owner' = [owner EXCEPT !.was = owner.enabled, !.enabled = FALSE]
     ELSE modal' = "Drop" /\ outcome' = "Error" /\ UNCHANGED owner
  /\ UNCHANGED <<read_only, window, prompt, read, outerVars, text, style, queue, quit,
                 faults, edits>>

-----------------------------------------------------------------------------
(***************************************************************************)
(* prompt_proc.  An activation that finds the state leased posts a close   *)
(* or a button again and leaves everything else to DefWindowProcW.         *)
(***************************************************************************)
Arrive(msg) ==
  IF Leased
  THEN /\ IF msg \in Actionable
          THEN \/ queue' = queue \cup {msg} /\ UNCHANGED faults
               \/ Fault /\ UNCHANGED queue
          ELSE UNCHANGED <<queue, faults>>
       /\ painted' = IF msg = "Paint" THEN Native ELSE painted
       /\ UNCHANGED stack
  ELSE Enter([msg |-> msg, at |-> "Held"]) /\ UNCHANGED <<painted, queue, faults>>

\* A message sent during a native call of the innermost activation; the ones
\* that draw at once are made for a creation or a refresh.
SentMessage ==
  /\ Depth > 0 /\ Depth < MaxDepth /\ window = "Published"
  /\ \E msg \in {"Paint", "Refresh", "Close"} :
       /\ msg = "Paint" => Top.msg \in {"Create", "Refresh"}
       /\ Arrive(msg)
  /\ UNCHANGED <<modal, read_only, window, prompt, read, outcome, outerVars,
                 text, style, owner, quit, edits>>

finished == prompt.done \/ window # "Published"

\* GetMessageW and DispatchMessageW in run_prompt_message_loop.
DispatchPosted ==
  /\ modal = "Loop" /\ Depth = 0 /\ ~finished
  /\ \E msg \in queue :
       /\ Enter([msg |-> msg, at |-> "Held"])
       /\ queue' = queue \ {msg}
  /\ UNCHANGED <<modal, read_only, window, prompt, read, painted, outcome, outerVars,
                 text, style, owner, quit, faults, edits>>

DispatchInput ==
  /\ modal = "Loop" /\ Depth = 0 /\ ~finished
  /\ \E msg \in Message \ {"Create"} : Enter([msg |-> msg, at |-> "Held"])
  /\ UNCHANGED <<modal, read_only, window, prompt, read, painted, outcome, outerVars, worldVars>>

Paint ==
  /\ Running("Paint", "Held")
  /\ painted' = prompt.palette
  /\ Leave
  /\ UNCHANGED <<modal, read_only, window, prompt, read, outcome, outerVars, worldVars>>

\* WM_DPICHANGED, WM_THEMECHANGED, WM_SETTINGCHANGE and the like: the new
\* palette under the lease, the repaint after it.
Refresh ==
  /\ Running("Refresh", "Held")
  /\ prompt' = [prompt EXCEPT !.palette = style]
  /\ GoOn("Free")
  /\ UNCHANGED <<modal, read_only, window, read, painted, outcome, outerVars, worldVars>>

FinishRefresh ==
  /\ Running("Refresh", "Free")
  /\ redraw_prompt
  /\ Leave
  /\ UNCHANGED <<modal, read_only, window, prompt, read, outcome, outerVars, worldVars>>

\* The button that copies: the lease is released before the clipboard is used.
CopyAll ==
  /\ Running("Ok", "Held") /\ read_only
  /\ GoOn("Free")
  /\ UNCHANGED <<modal, read_only, window, prompt, read, painted, outcome, outerVars, worldVars>>

Copied ==
  /\ Running("Ok", "Free") /\ read_only
  /\ Leave
  /\ UNCHANGED <<modal, read_only, window, prompt, read, painted, outcome, outerVars, worldVars>>

-----------------------------------------------------------------------------
(***************************************************************************)
(* Accept: prompt_window_text reads the length, copies at most MaxText     *)
(* units and reads the length again.  Then the prompt is done, the lease   *)
(* ends and the window is destroyed.                                       *)
(***************************************************************************)
ReadLength ==
  /\ Running("Ok", "Held") /\ ~read_only
  /\ read' = [NewRead EXCEPT !.length = text, !.since = edits]
  /\ GoOn(IF text > MaxText \/ text = 0 THEN "Check" ELSE "Copy")
  /\ UNCHANGED <<modal, read_only, window, prompt, painted, outcome, outerVars, worldVars>>

CopyText ==
  /\ Running("Ok", "Copy")
  /\ read' = [read EXCEPT !.copied = IF text > MaxText THEN MaxText ELSE text,
                          !.whole = text <= MaxText]
  /\ GoOn("Check")
  /\ UNCHANGED <<modal, read_only, window, prompt, painted, outcome, outerVars, worldVars>>

AcceptsText ==
  \/ read.length = 0
  \/ /\ read.length <= MaxText
     /\ text <= MaxText
     /\ read.copied = text
     /\ text <= read.length

prompt_result ==
  /\ Running("Ok", "Check")
  /\ prompt' = IF AcceptsText
               THEN [prompt EXCEPT !.result = read.copied, !.done = TRUE]
               ELSE [prompt EXCEPT !.error = TRUE, !.done = TRUE]
  /\ GoOn("Free")
  /\ UNCHANGED <<modal, read_only, window, read, painted, outcome, outerVars, worldVars>>

CloseButton ==
  /\ \E msg \in {"Cancel", "Close"} : Running(msg, "Held")
  /\ prompt' = [prompt EXCEPT !.done = TRUE]
  /\ GoOn("Free")
  /\ UNCHANGED <<modal, read_only, window, read, painted, outcome, outerVars, worldVars>>

\* close_prompt: the destruction of a window that is still published may fail.
\* A destroyed window takes its queued messages with it.
close_prompt ==
  \/ window = "Published" /\ window' = "Gone" /\ queue' = {} /\ UNCHANGED faults
  \/ window = "Published" /\ Fault /\ UNCHANGED <<window, queue>>
  \/ window # "Published" /\ UNCHANGED <<window, faults, queue>>

FinishClose ==
  /\ Depth > 0 /\ Top.msg \in Actionable /\ Top.at = "Free"
  /\ ~(read_only /\ Top.msg = "Ok")
  /\ close_prompt
  /\ Leave
  /\ UNCHANGED <<modal, read_only, prompt, read, painted, outcome, outerVars,
                 text, style, owner, quit, edits>>

-----------------------------------------------------------------------------
(***************************************************************************)
(* The end of run_prompt_message_loop: an error of GetMessageW, WM_QUIT    *)
(* (posted again for the outer loop), or a prompt that is finished.        *)
(***************************************************************************)
LoopFails ==
  /\ modal = "Loop" /\ Depth = 0 /\ ~finished
  /\ faults < MaxFaults
  /\ faults' = faults + 1
  /\ \/ window' = "Gone" /\ queue' = {}
     \/ UNCHANGED <<window, queue>>
  /\ modal' = "Drop" /\ outcome' = "Error"
  /\ UNCHANGED <<read_only, stack, prompt, read, painted, outerVars,
                 text, style, owner, quit, edits>>

LoopQuits ==
  /\ modal = "Loop" /\ Depth = 0 /\ ~finished /\ quit = "Queued"
  /\ close_prompt
  /\ quit' = "Reposted"
  /\ modal' = "Drop" /\ outcome' = "Cancelled"
  /\ UNCHANGED <<read_only, stack, prompt, read, painted, outerVars,
                 text, style, owner, edits>>

LoopEnds ==
  /\ modal = "Loop" /\ Depth = 0 /\ finished
  /\ modal' = "Drop"
  /\ outcome' = IF prompt.error THEN "Error"
                ELSE IF prompt.result # NoText THEN "Value" ELSE "Cancelled"
  /\ UNCHANGED <<read_only, window, stack, prompt, read, painted, outerVars, worldVars>>

(***************************************************************************)
(* Drop of PromptWindow, then of the owner's guard.  A window that cannot  *)
(* be destroyed ends the process.                                          *)
(***************************************************************************)
DropPromptDone ==   \* mutant: a prompt that is done is not closed again
  /\ modal = "Drop"
  /\ IF prompt.done THEN UNCHANGED <<window, faults, queue>> ELSE close_prompt
  /\ prompt' = [prompt EXCEPT !.freed = TRUE]
  /\ modal' = "Restore"
  /\ UNCHANGED <<read_only, stack, read, painted, outcome, outerVars,
                 text, style, owner, quit, edits>>

DropPrompt ==
  /\ modal = "Drop"
  /\ close_prompt
  /\ IF window' = "Published"
     THEN modal' = "Aborted" /\ UNCHANGED prompt
     ELSE modal' = "Restore" /\ prompt' = [prompt EXCEPT !.freed = TRUE]
  /\ UNCHANGED <<read_only, stack, read, painted, outcome, outerVars,
                 text, style, owner, quit, edits>>

EnabledAgain == owner.enabled \/ (owner.was /\ owner.alive)

RestoreOwner ==
  /\ modal = "Restore"
  /\ modal' = "Returned"
  /\ owner' = [owner EXCEPT !.enabled = EnabledAgain, !.was = FALSE]
  /\ UNCHANGED <<read_only, window, stack, prompt, read, painted, outcome, outerVars,
                 text, style, queue, quit, faults, edits>>

-----------------------------------------------------------------------------
(***************************************************************************)
(* The world around the prompt: the window destroyed with its owner or by  *)
(* another process, a text set past the control's limit, a style change,   *)
(* a quit, a request to close the owner.                                   *)
(***************************************************************************)
DestroyedFromOutside ==
  /\ window = "Published"
  /\ \/ modal = "Loop"
     \/ Depth > 0
  /\ window' = "Gone" /\ queue' = {}
  /\ owner' \in {owner, [owner EXCEPT !.alive = FALSE]}
  /\ UNCHANGED <<modal, read_only, stack, prompt, read, painted, outcome, outerVars,
                 text, style, quit, faults, edits>>

EditText ==
  /\ window = "Published" /\ ~read_only /\ edits < MaxEdits
  /\ text' \in 0..(MaxText + 2)
  /\ edits' = edits + 1
  /\ UNCHANGED <<promptVars, outerVars, style, owner, queue, quit, faults>>

ChangeStyle ==
  /\ style < MaxStyles
  /\ style' = style + 1
  /\ UNCHANGED <<promptVars, outerVars, text, owner, queue, quit, faults, edits>>

RequestQuit ==
  /\ modal = "Loop" /\ quit = "No"
  /\ quit' = "Queued"
  /\ UNCHANGED <<promptVars, outerVars, text, style, owner, queue, faults, edits>>

RequestOwnerClose ==
  /\ owner.alive /\ ~owner.closing /\ modal \in {"Creating", "Loop"}
  /\ owner' = [owner EXCEPT !.closing = TRUE]
  /\ UNCHANGED <<promptVars, outerVars, text, style, queue, quit, faults, edits>>

Finished ==
  /\ \/ modal = "Aborted"
     \/ task = "None" /\ modal = "Returned"
     \/ task = "Done"
  /\ UNCHANGED vars

HandlerStep ==
  \/ create_prompt_children \/ ChildFails \/ FinishCreate
  \/ Paint \/ Refresh \/ FinishRefresh \/ CopyAll \/ Copied
  \/ ReadLength \/ CopyText \/ prompt_result \/ CloseButton \/ FinishClose

CallerStep ==
  \/ CreateWindow \/ CreateWindowFails \/ StartPrompt
  \/ LoopFails \/ LoopQuits \/ LoopEnds \/ DropPrompt \/ RestoreOwner
  \/ OpenDetails \/ TaskDialogAnswered \/ CloseDetails

Next ==
  \/ HandlerStep \/ CallerStep
  \/ SentMessage \/ DispatchPosted \/ DispatchInput
  \/ DestroyedFromOutside \/ EditText \/ ChangeStyle \/ RequestQuit \/ RequestOwnerClose
  \/ Finished

Spec == Init /\ [][Next]_vars

-----------------------------------------------------------------------------
(***************************************************************************)
(* The state the window procedure, the child controls and the painting     *)
(* use is released only after the window is gone and every activation has  *)
(* given its lease back.                                                   *)
(***************************************************************************)
StateOutlivesWindow == prompt.freed => window # "Published" /\ ~Leased

(***************************************************************************)
(* The owner stays disabled while the prompt is open, and when prompt_input*)
(* returns it is enabled exactly if it was before, whichever way the       *)
(* prompt ended.                                                           *)
(***************************************************************************)
OwnerDisabledWhileOpen ==
  (window = "Published" /\ modal \in {"Loop", "Drop", "Restore"}) => ~owner.enabled

OwnerRestored ==
  (modal = "Restore" /\ modal' = "Returned" /\ owner.alive) =>
      owner'.enabled = (owner.was \/ owner.enabled)

(***************************************************************************)
(* The comment at the second length query: it is there "so a changed or    *)
(* misbehaving control cannot turn truncation into an accepted command".   *)
(* Text handed back would then be the whole text at the moment of the copy.*)
(* It is not: a text that grows past the limit before the copy and shrinks *)
(* back to the first length before the second query is accepted cut.       *)
(***************************************************************************)
ValueIsWhole == prompt.result # NoText => read.whole

(***************************************************************************)
(* What the three native calls do guarantee: a cut text is accepted only   *)
(* after two changes between them, never after one, whichever of the gaps  *)
(* it falls into.                                                          *)
(***************************************************************************)
TruncationNeedsTwoChanges ==
  (prompt.result = NoText /\ prompt'.result # NoText /\ ~read.whole) =>
    edits >= read.since + 2

(***************************************************************************)
(* Between two messages the window shows the palette of its state, also    *)
(* after a paint that arrived while the state was busy and fell back to    *)
(* the native colours.                                                     *)
(***************************************************************************)
IdlePaintIsCurrent ==
  (modal = "Loop" /\ Depth = 0 /\ window = "Published" /\ ~prompt.done) =>
    painted = prompt.palette

(***************************************************************************)
(* The full text is shown with CR LF line breaks only and is otherwise     *)
(* unchanged: as many breaks as the text had, the same units between them. *)
(***************************************************************************)
DetailsAreWhole ==
  details.shown \notin {<< >>, NoDetails} =>
    LET shown == details.shown
        plain(units) == SelectSeq(units, LAMBDA u : u \notin {"CR", "LF"})
        breaks == {i \in 1..Len(details.full) :
                     /\ details.full[i] \in {"CR", "LF"}
                     /\ ~(details.full[i] = "LF" /\ i > 1 /\ details.full[i - 1] = "CR")}
    IN  /\ plain(shown) = plain(details.full)
        /\ Len(shown) = Len(plain(shown)) + 2 * Cardinality(breaks)
        /\ \A i \in 1..Len(shown) :
             /\ shown[i] = "CR" => i < Len(shown) /\ shown[i + 1] = "LF"
             /\ shown[i] = "LF" => i > 1 /\ shown[i - 1] = "CR"

(***************************************************************************)
(* The confirmation comes back after its details only over an owner that   *)
(* is alive and has not been asked to close meanwhile.                     *)
(***************************************************************************)
ConfirmationOnlyWhileOpen ==
  (task = "Details" /\ task' = "Shown") => (owner.alive /\ ~owner.closing)

=============================================================================
