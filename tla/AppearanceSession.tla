------------------------- MODULE AppearanceSession --------------------------
(***************************************************************************)
(* The appearance window (windows/appearance_dialog.rs and                 *)
(* appearance_model.rs): a modeless window whose changes are shown at once *)
(* in the main window and kept only when the user accepts them.            *)
(*                                                                         *)
(* Everything runs on the UI thread.  Opening the window takes several     *)
(* native calls made without the lease on AppState; `runner' says between  *)
(* which of them run_prepared_appearance_action is.  Messages that other   *)
(* threads send (a close, a changed setting) and what they entail can be   *)
(* handled inside those calls; input is handled only by the message loop,  *)
(* when no runner is active.  Windows are numbered in the order in which   *)
(* they are created, and a message to the owner carries a packed number.   *)
(***************************************************************************)
EXTENDS Integers

CONSTANTS
  Theme, Density, Emphasis,   \* the values the user can choose here
  IdLimit,                    \* u32::MAX
  MaxWindows, MaxEdits, MaxChanges, MaxFaults    \* bounds

AppearanceAssumption ==
  /\ Theme \subseteq {"System", "Light", "Dark"}
  /\ Density \subseteq {"Automatic", "Comfortable", "Compact", "MenuOnly"}
  /\ Emphasis \subseteq {"Subtle", "Standard", "Strong"}
  /\ IdLimit \in Nat \ {0} /\ MaxWindows \in Nat \ {0}
  /\ MaxEdits \in Nat /\ MaxChanges \in Nat /\ MaxFaults \in Nat

VARIABLES
  app,        \* AppState, as far as the window is concerned
  owner,      \* the main window: [alive, enabled]
  windows,    \* every appearance window so far, by number
  runner,     \* the running run_prepared_appearance_action
  accessible, \* WM_APP_APPEARANCE_ACCESSIBILITY messages: [window, packed, id]
  saved,      \* what the preference writer was last told to save
  shut,       \* the writer was told to stop
  committed,  \* the appearance the user last chose
  edits, faults

vars == <<app, owner, windows, runner, accessible, saved, shut, committed, edits, faults>>

-----------------------------------------------------------------------------
(***************************************************************************)
(* Appearances and the numbers they travel as.                             *)
(***************************************************************************)
UiAppearance ==
  [theme : {"System", "Light", "Dark"},
   density : {"Automatic", "Comfortable", "Compact", "MenuOnly"},
   emphasis : {"Subtle", "Standard", "Strong"},
   show_separators : BOOLEAN, show_preview_tint : BOOLEAN, show_empty_safety : BOOLEAN]

DEFAULT == [theme |-> "System", density |-> "Automatic", emphasis |-> "Standard",
            show_separators |-> TRUE, show_preview_tint |-> TRUE, show_empty_safety |-> TRUE]

None == [DEFAULT EXCEPT !.theme = "None"]   \* no appearance

ThemeCode    == [System |-> 0, Light |-> 1, Dark |-> 2]
DensityCode  == [Automatic |-> 0, Comfortable |-> 1, Compact |-> 2, MenuOnly |-> 3]
EmphasisCode == [Subtle |-> 0, Standard |-> 1, Strong |-> 2]

Bit(b) == IF b THEN 1 ELSE 0

ACCEPTED == 2^30   \* 1 << 31 in the code: a bit above the nine of an appearance

pack_ui_appearance(a) ==
  ThemeCode[a.theme] + 4 * DensityCode[a.density] + 16 * EmphasisCode[a.emphasis]
  + 64 * Bit(a.show_separators) + 128 * Bit(a.show_preview_tint)
  + 256 * Bit(a.show_empty_safety)

Named(code, n) == CHOOSE s \in DOMAIN code : code[s] = n

unpack_ui_appearance(n) ==
  IF n >= 512 \/ n % 4 = 3 \/ (n \div 16) % 4 = 3 THEN None
  ELSE [theme |-> Named(ThemeCode, n % 4),
        density |-> Named(DensityCode, (n \div 4) % 4),
        emphasis |-> Named(EmphasisCode, (n \div 16) % 4),
        show_separators |-> (n \div 64) % 2 = 1,
        show_preview_tint |-> (n \div 128) % 2 = 1,
        show_empty_safety |-> (n \div 256) % 2 = 1]

\* The theme an appearance resolves to; forced colours come first.
resolve(a, forced, system) ==
  CASE forced -> "NativeSystem"
    [] ~forced /\ a.theme # "System" -> a.theme
    [] OTHER -> system

SystemCode == [NativeSystem |-> 0, Light |-> 1, Dark |-> 2]

pack_appearance_environment(forced, system) == Bit(forced) + 2 * SystemCode[system]

unpack_appearance_environment(n) ==
  [forced |-> n % 2 = 1, system |-> Named(SystemCode, (n \div 2) % 4)]

-----------------------------------------------------------------------------
(***************************************************************************)
(* The window's model: a draft, the original, and whether colours can be   *)
(* chosen.  An action gives the next draft.                                *)
(***************************************************************************)
AppearanceDialogAction ==
  [set : {"density"}, to : Density] \cup [set : {"emphasis"}, to : Emphasis]
  \cup [set : {"show_separators", "show_preview_tint", "show_empty_safety"}, to : BOOLEAN]
  \cup [set : {"ResetDefaults"}, to : {TRUE}]

OfColour(action) == action.set \in {"emphasis", "show_preview_tint"}

DraftAfter(d, action) ==
  IF action.set = "ResetDefaults" THEN [DEFAULT EXCEPT !.theme = d.draft.theme]
  ELSE IF OfColour(action) /\ d.forced THEN d.draft
  ELSE [d.draft EXCEPT ![action.set] = action.to]

appearance_dialog_should_notify_cancel(d) == d.armed /\ ~d.finished

-----------------------------------------------------------------------------
NoSession == [id |-> 0, window |-> 0, baseline |-> DEFAULT, guard |-> "None"]
NoRunner  == [at |-> "Idle", window |-> 0, prompt |-> 0, revision |-> 0, id |-> 0,
              appearance |-> DEFAULT, forced |-> FALSE, system |-> "NativeSystem",
              guard |-> "None"]
NoWindow  == [at |-> "None", id |-> 0, original |-> DEFAULT, draft |-> DEFAULT,
              checks |-> DEFAULT, forced |-> FALSE, enabled |-> FALSE,
              system |-> "NativeSystem", palette |-> "NativeSystem",
              armed |-> FALSE, finished |-> FALSE]

Session == app.session.id # 0
Live(w) == windows[w].at = "Live"

Init ==
  /\ \E theme \in Theme, f \in BOOLEAN, s \in {"NativeSystem", "Dark"} :
       /\ app = [appearance |-> [DEFAULT EXCEPT !.theme = theme], session |-> NoSession,
                 prompt |-> 0, next_prompt |-> 0, next_id |-> 0, busy |-> FALSE,
                 revision |-> 0, close_pending |-> FALSE, finish |-> FALSE,
                 forced |-> f, system |-> s, missed |-> FALSE]
       /\ saved = [DEFAULT EXCEPT !.theme = theme]
       /\ committed = [DEFAULT EXCEPT !.theme = theme]
  /\ owner = [alive |-> TRUE, enabled |-> TRUE]
  /\ windows = [w \in 1..MaxWindows |-> NoWindow]
  /\ runner = NoRunner
  /\ accessible = {}
  /\ shut = FALSE
  /\ edits = 0 /\ faults = 0

-----------------------------------------------------------------------------
(***************************************************************************)
(* What the handlers share, as functions of AppState.                      *)
(***************************************************************************)
Quiet(s) == s.close_pending /\ s.prompt = 0 /\ ~s.busy

\* try_finish_window_close posts WM_APP_FINISH_CLOSE.
try_finish_window_close(s) == IF Quiet(s) THEN [s EXCEPT !.finish = TRUE] ELSE s

\* Mutant: a cancelled window leaves its preview.
FinishedKeepsPreview(s, packed, id) ==
  LET a == unpack_ui_appearance(packed % ACCEPTED)
  IN  IF s.session.id = 0 \/ s.session.id # id \/ a = None THEN s
      ELSE [s EXCEPT !.session = NoSession,
                     !.appearance = IF packed >= ACCEPTED THEN a ELSE s.appearance]

\* finish_appearance_dialog; a message of another session changes nothing.
Finished(s, packed, id) ==
  LET accepted == packed >= ACCEPTED
      a == unpack_ui_appearance(packed % ACCEPTED)
  IN  IF s.session.id = 0 \/ s.session.id # id \/ a = None THEN s
      ELSE [s EXCEPT !.session = NoSession,
                     !.appearance = IF accepted THEN a ELSE s.session.baseline]

\* cancel_appearance_dialog, which keeps the main window disabled.
Cancelled(s) ==
  IF s.session.id = 0 THEN s
  ELSE [s EXCEPT !.session = NoSession, !.appearance = s.session.baseline]

\* handle_appearance_preview.
Previewed(s, packed, id) ==
  LET a == unpack_ui_appearance(packed)
  IN  IF s.session.id = 0 \/ s.session.id # id \/ a = None THEN s
      ELSE [s EXCEPT !.appearance = a]

\* A session that is dropped restores the main window if it holds the guard.
OwnerAfterDrop(s) ==
  IF s.session.guard = "Restores" THEN [owner EXCEPT !.enabled = owner.alive] ELSE owner

Gone(ws, w) ==
  IF w = 0 \/ ws[w].at # "Live" THEN ws
  ELSE [ws EXCEPT ![w] = [NoWindow EXCEPT !.at = "Gone"]]

\* DestroyWindow: the dropped state cancels, unless the user has decided.
DropState(s, d) ==
  IF appearance_dialog_should_notify_cancel(d)
  THEN Finished(s, pack_ui_appearance(d.original), d.id)
  ELSE s

Destroyed(s, w) == IF w = 0 \/ ~Live(w) THEN s ELSE DropState(s, windows[w])

\* The native colours unless every step of installing a palette succeeds.
apply_dialog_appearance(d) ==
  IF faults < MaxFaults
  THEN {resolve(d.draft, d.forced, d.system), "NativeSystem"}
  ELSE {resolve(d.draft, d.forced, d.system)}

\* A palette that could not be installed is one fault.
CountFault(d) ==
  faults' = faults + IF d.palette # resolve(d.draft, d.forced, d.system) THEN 1 ELSE 0

sync_controls(d) == [d EXCEPT !.checks = d.draft, !.enabled = ~d.forced]

-----------------------------------------------------------------------------
(***************************************************************************)
(* prepare_appearance_dialog and run_prepared_appearance_action.           *)
(***************************************************************************)
Running == runner.at # "Idle"
Loop    == owner.alive /\ ~Running

\* wrapping_add(1).max(1)
After(n, limit) == IF n = limit THEN 1 ELSE n + 1

prepare_appearance_dialog ==
  /\ Loop /\ app.prompt = 0 /\ ~Session /\ ~app.busy
  /\ \E w \in 1..MaxWindows : windows[w].at = "None"
  /\ LET p == After(app.next_prompt, IdLimit)
     IN  /\ app' = [app EXCEPT !.next_prompt = p, !.prompt = p, !.missed = FALSE]
         /\ runner' = [NoRunner EXCEPT
              !.at = "Create", !.prompt = p, !.revision = app.revision,
              !.id = After(app.next_id, IdLimit), !.appearance = app.appearance,
              !.forced = app.forced, !.system = app.system]
  /\ UNCHANGED <<owner, windows, accessible, saved, shut, committed, edits, faults>>

\* finish_failed_appearance_creation.
CreateFails ==
  /\ runner.at = "Create" /\ faults < MaxFaults
  /\ faults' = faults + 1
  /\ runner' = NoRunner
  /\ app' = IF owner.alive /\ app.prompt = runner.prompt
            THEN try_finish_window_close([app EXCEPT !.prompt = 0]) ELSE app
  /\ UNCHANGED <<owner, windows, accessible, saved, shut, committed, edits>>

NextWindow == CHOOSE w \in 1..MaxWindows :
  windows[w].at = "None" /\ \A v \in 1..(w - 1) : windows[v].at # "None"

create_appearance_dialog_window ==
  /\ runner.at = "Create" /\ owner.alive
  /\ LET d == sync_controls([NoWindow EXCEPT
                !.at = "Live", !.id = runner.id, !.original = runner.appearance,
                !.draft = runner.appearance, !.forced = runner.forced,
                !.system = runner.system])
     IN  \E p \in apply_dialog_appearance(d) :
           /\ windows' = [windows EXCEPT ![NextWindow] = [d EXCEPT !.palette = p]]
           /\ CountFault([d EXCEPT !.palette = p])
  /\ runner' = [runner EXCEPT !.at = "Install", !.window = NextWindow]
  /\ UNCHANGED <<app, owner, accessible, saved, shut, committed, edits>>

\* Nothing that forbids opening the window has happened since it was prepared.
Current(s) == ~s.close_pending /\ ~s.busy /\ s.revision = runner.revision

\* The runner gives up: its window is destroyed and AppState becomes s.
GiveUp(s) ==
  /\ app' = Destroyed(s, runner.window)
  /\ windows' = Gone(windows, runner.window)
  /\ runner' = NoRunner

Install ==
  /\ runner.at = "Install" /\ owner.alive /\ app.prompt = runner.prompt
  /\ UNCHANGED <<owner, accessible, saved, shut, committed, edits, faults>>
  /\ LET s == [app EXCEPT !.prompt = 0]
     IN  IF Current(s) /\ ~Session /\ Live(runner.window)
         THEN /\ app' = [s EXCEPT !.next_id = runner.id,
                                  !.session = [id |-> runner.id, window |-> runner.window,
                                               baseline |-> runner.appearance, guard |-> "None"]]
              /\ runner' = [runner EXCEPT !.at = "Arm"]
              /\ UNCHANGED windows
         ELSE GiveUp(try_finish_window_close(s))

\* WM_APP_APPEARANCE_ARM is answered by a live, undecided window only.
Arm ==
  /\ runner.at = "Arm"
  /\ UNCHANGED <<owner, accessible, saved, shut, committed, edits, faults>>
  /\ LET w == runner.window IN
     \/ /\ Live(w) /\ ~windows[w].finished
        /\ windows' = [windows EXCEPT ![w].armed = TRUE]
        /\ runner' = [runner EXCEPT !.at = "Guard"]
        /\ UNCHANGED app
     \/ /\ ~Live(w)
        /\ GiveUp(IF owner.alive /\ app.session.id = runner.id /\ app.session.window = w
                  THEN try_finish_window_close([app EXCEPT !.session = NoSession]) ELSE app)

\* OwnerEnableGuard::new, then SetForegroundWindow and SetFocus.
Guard ==
  /\ runner.at = "Guard"
  /\ runner' = [runner EXCEPT !.at = "Settle",
                              !.guard = IF owner.enabled THEN "Restores" ELSE "None"]
  /\ owner' = [owner EXCEPT !.enabled = FALSE]
  /\ UNCHANGED <<app, windows, accessible, saved, shut, committed, edits, faults>>

ExactSession ==
  app.session.id = runner.id /\ app.session.window = runner.window
  /\ app.session.guard = "None"

Restored(s) ==
  IF runner.guard = "Restores" /\ ~s.close_pending THEN [owner EXCEPT !.enabled = TRUE] ELSE owner

Settle ==
  /\ runner.at = "Settle" /\ owner.alive
  /\ UNCHANGED <<accessible, saved, shut, committed, edits, faults>>
  /\ IF ExactSession /\ Current(app)
     THEN /\ app' = [app EXCEPT !.session.guard = runner.guard]
          /\ runner' = NoRunner
          /\ UNCHANGED <<windows, owner>>
     ELSE /\ GiveUp(try_finish_window_close(
                IF ExactSession THEN [app EXCEPT !.session = NoSession] ELSE app))
          /\ owner' = Restored(app)

\* The owner or the prompt it opened for is gone: only the window is left.
Abandon ==
  /\ \/ runner.at \in {"Install", "Settle"} /\ ~owner.alive
     \/ runner.at = "Create" /\ ~owner.alive
     \/ runner.at = "Install" /\ app.prompt # runner.prompt
  /\ GiveUp(app)
  /\ UNCHANGED <<owner, accessible, saved, shut, committed, edits, faults>>

-----------------------------------------------------------------------------
(***************************************************************************)
(* The user in the open window: apply_action and send_effect.              *)
(***************************************************************************)
\* Buttons set their own check before they send WM_COMMAND.
Clicked(d, action) ==
  IF action.set = "ResetDefaults" THEN d.checks ELSE [d.checks EXCEPT ![action.set] = action.to]

Edit(w, action) ==
  /\ Loop /\ Live(w) /\ edits < MaxEdits
  /\ OfColour(action) => windows[w].enabled
  /\ edits' = edits + 1
  /\ UNCHANGED <<owner, runner, accessible, saved, shut, committed>>
  /\ LET old  == windows[w]
         next == DraftAfter(old, action)
         set  == [old EXCEPT !.draft = next, !.checks = Clicked(old, action)]
         mid  == IF action.set = "ResetDefaults" THEN sync_controls(set) ELSE set
     IN  \E p \in apply_dialog_appearance(mid) :
           /\ windows' = [windows EXCEPT ![w] = [mid EXCEPT !.palette = p]]
           /\ CountFault([mid EXCEPT !.palette = p])
           /\ app' = IF next # old.draft /\ old.armed
                     THEN Previewed(app, pack_ui_appearance(next), old.id) ELSE app

\* OK: the owner takes the draft, saves it and drops the session.
Accept(w) ==
  /\ Loop /\ Live(w)
  /\ UNCHANGED <<runner, accessible, edits, faults, shut>>
  /\ LET d == windows[w]
         after == IF d.armed
                  THEN Finished(app, pack_ui_appearance(d.draft) + ACCEPTED, d.id) ELSE app
     IN  /\ app' = after
         /\ windows' = Gone(windows, w)
         /\ IF Session /\ after.session.id = 0
            THEN /\ committed' = d.draft
                 /\ saved' = IF shut THEN saved ELSE after.appearance
                 /\ owner' = OwnerAfterDrop(app)
            ELSE UNCHANGED <<committed, saved, owner>>

\* Cancel and WM_CLOSE, and a window destroyed without a decision.
Cancel(w) ==
  /\ Loop /\ Live(w)
  /\ UNCHANGED <<runner, accessible, edits, faults, saved, shut, committed>>
  /\ LET after == DropState(app, windows[w])
     IN  /\ app' = after
         /\ windows' = Gone(windows, w)
         /\ owner' = IF Session /\ after.session.id = 0 THEN OwnerAfterDrop(app) ELSE owner

-----------------------------------------------------------------------------
(***************************************************************************)
(* The main window meanwhile.                                              *)
(***************************************************************************)
\* WM_CLOSE: cancel_appearance_dialog, request_window_close, then the window
\* is dismissed (WM_APP_APPEARANCE_DISMISS) and destroyed.
CloseRequested ==
  /\ owner.alive
  /\ LET w == app.session.window
         s == [Cancelled(app) EXCEPT !.close_pending = TRUE]
     IN  /\ app' = try_finish_window_close(s)
         /\ windows' = Gone(windows, w)
         /\ saved' = IF shut THEN saved ELSE s.appearance
         /\ shut' = TRUE
  /\ UNCHANGED <<owner, runner, accessible, committed, edits, faults>>

\* Every appearance window is owned by the main window and goes with it.
DestroyOwner(s) ==
  /\ app' = [Cancelled(s) EXCEPT !.finish = FALSE]
  /\ owner' = [alive |-> FALSE, enabled |-> FALSE]
  /\ windows' = [w \in 1..MaxWindows |->
                   IF Live(w) THEN [NoWindow EXCEPT !.at = "Gone"] ELSE windows[w]]
  /\ accessible' = {}

\* WM_APP_FINISH_CLOSE: prepare_window_close looks again.  A loop nested in
\* one of the runner's native calls may deliver it as well.
FinishClose ==
  /\ owner.alive /\ app.finish
  /\ UNCHANGED <<runner, saved, shut, committed, edits, faults>>
  /\ IF Quiet(app) THEN DestroyOwner(app)
     ELSE app' = [app EXCEPT !.finish = FALSE] /\ UNCHANGED <<owner, windows, accessible>>

\* The message pump fails: the writers are shut with the appearance on
\* screen, then the window is cancelled and the main window destroyed.
MessagePumpFails ==
  /\ Loop
  /\ saved' = IF shut THEN saved ELSE app.appearance
  /\ shut' = TRUE
  /\ DestroyOwner([app EXCEPT !.close_pending = TRUE])
  /\ UNCHANGED <<runner, committed, edits, faults>>

\* A theme chosen in the menu, possible whenever no prompt or session is.
ThemeCommand(theme) ==
  /\ Loop /\ app.prompt = 0 /\ ~Session
  /\ theme # app.appearance.theme
  /\ edits < MaxEdits /\ edits' = edits + 1
  /\ LET a == [app.appearance EXCEPT !.theme = theme]
     IN  /\ app' = [app EXCEPT !.appearance = a]
         /\ committed' = a
         /\ saved' = IF shut THEN saved ELSE a
  /\ UNCHANGED <<owner, windows, runner, accessible, shut, faults>>

\* WM_SETTINGCHANGE; `missed' remembers a change no session heard of.
SettingChange(forced, system) ==
  /\ owner.alive /\ <<forced, system>> # <<app.forced, app.system>>
  /\ edits < MaxEdits /\ edits' = edits + 1
  /\ app' = [app EXCEPT !.forced = forced, !.system = system,
                        !.missed = ~Session /\ Running]
  /\ accessible' = accessible \cup
       (IF Session
        THEN {[window |-> app.session.window, id |-> app.session.id,
               packed |-> pack_appearance_environment(forced, system)]} ELSE {})
  /\ UNCHANGED <<owner, windows, runner, saved, shut, committed, faults>>

\* WM_APP_APPEARANCE_ACCESSIBILITY; posted messages are handled in order,
\* and only the last one that is left in the queue matters.
Accessibility(m) ==
  /\ Loop /\ m \in accessible
  /\ m.packed = pack_appearance_environment(app.forced, app.system)
  /\ accessible' = {n \in accessible : n.window # m.window}
  /\ IF Live(m.window) /\ m.id = windows[m.window].id
     THEN LET e == unpack_appearance_environment(m.packed)
              d == sync_controls([windows[m.window] EXCEPT !.forced = e.forced, !.system = e.system])
          IN  \E p \in apply_dialog_appearance(d) :
                /\ windows' = [windows EXCEPT ![m.window] = [d EXCEPT !.palette = p]]
                /\ CountFault([d EXCEPT !.palette = p])
     ELSE UNCHANGED <<windows, faults>>
  /\ UNCHANGED <<app, owner, runner, saved, shut, committed, edits>>

\* A worker starts or ends, a confirmation opens or closes.
WorkStarts ==
  /\ owner.alive /\ ~app.busy /\ ~app.close_pending
  /\ edits < MaxEdits /\ edits' = edits + 1
  /\ app' = [app EXCEPT !.busy = TRUE]
  /\ UNCHANGED <<owner, windows, runner, accessible, saved, shut, committed, faults>>

WorkEnds ==
  /\ owner.alive /\ app.busy
  /\ app' = try_finish_window_close([app EXCEPT !.busy = FALSE])
  /\ UNCHANGED <<owner, windows, runner, accessible, saved, shut, committed, edits, faults>>

ModelChanges ==
  /\ owner.alive /\ app.revision < MaxChanges
  /\ app' = [app EXCEPT !.revision = app.revision + 1]
  /\ UNCHANGED <<owner, windows, runner, accessible, saved, shut, committed, edits, faults>>

-----------------------------------------------------------------------------
RunnerStep ==
  \/ CreateFails \/ create_appearance_dialog_window \/ Install \/ Arm \/ Guard \/ Settle
  \/ Abandon

Next ==
  \/ prepare_appearance_dialog \/ RunnerStep
  \/ \E w \in 1..MaxWindows :
       \/ \E action \in AppearanceDialogAction : Edit(w, action)
       \/ Accept(w) \/ Cancel(w)
  \/ CloseRequested \/ FinishClose \/ MessagePumpFails
  \/ \E theme \in Theme : ThemeCommand(theme)
  \/ \E forced \in BOOLEAN, system \in {"NativeSystem", "Dark"} : SettingChange(forced, system)
  \/ \E m \in accessible : Accessibility(m)
  \/ WorkStarts \/ WorkEnds \/ ModelChanges

Spec == Init /\ [][Next]_vars

-----------------------------------------------------------------------------
TypeOK ==
  /\ app.appearance \in UiAppearance /\ saved \in UiAppearance /\ committed \in UiAppearance
  /\ app.session.id \in 0..IdLimit /\ app.prompt \in 0..IdLimit
  /\ app.session.guard \in {"None", "Restores"}
  /\ runner.at \in {"Idle", "Create", "Install", "Arm", "Guard", "Settle"}
  /\ \A w \in 1..MaxWindows :
       /\ windows[w].at \in {"None", "Live", "Gone"}
       /\ windows[w].draft \in UiAppearance
       /\ windows[w].palette \in {"NativeSystem", "Light", "Dark"}
  /\ edits <= MaxEdits /\ faults <= MaxFaults

\* What the main window shows without a session is what the user last chose,
\* and an open session can go back to it: no preview outlives its window.
PreviewNeverOutlivesSession ==
  IF Session THEN app.session.baseline = committed ELSE app.appearance = committed

\* While the program runs, what the preference writer was last handed is what
\* the user last chose: previews, cancelled windows and windows that could
\* not be opened leave it alone.  (ShutSavesChosen is about the shutdown.)
OnlyChosenIsSaved == ~shut => saved = committed

\* The handler that shuts the writer hands it the appearance the user chose:
\* WM_CLOSE also while another one is previewed or its window is being
\* opened, a failed message pump while no window is open.  With one open the
\* pump's failure saves the preview, before the window is cancelled.
ShutSavesChosen ==
  /\ (CloseRequested /\ ~shut) => saved' = committed
  /\ (MessagePumpFails /\ ~shut /\ ~Session) => saved' = committed

\* Outside the opening sequence, the window on screen is the session's, and
\* a session has its window on screen.
OneWindowOneSession ==
  ~Running /\ owner.alive =>
    /\ \A w \in 1..MaxWindows : Live(w) => Session /\ app.session.window = w
    /\ Session => Live(app.session.window) /\ windows[app.session.window].armed

\* A main window that no appearance window keeps disabled accepts input,
\* unless it is about to be destroyed.
OwnerNeverStranded ==
  ~Running /\ ~Session /\ owner.alive /\ ~app.close_pending => owner.enabled

\* The window's buttons show its draft, and a colour can be chosen exactly
\* when forced colours are off for the window.
ControlsShowDraft ==
  \A w \in 1..MaxWindows :
    Live(w) => /\ windows[w].checks = windows[w].draft
               /\ windows[w].enabled = ~windows[w].forced

\* The open window knows the system's colours: it follows every change that
\* came after it became the session.  Custom colours are never used by a
\* window that knows of forced colours.
WindowFollowsSystem ==
  \A w \in 1..MaxWindows :
    Live(w) =>
      /\ Session /\ app.session.window = w /\ ~app.missed
         /\ (\A m \in accessible : m.window # w)
           => windows[w].forced = app.forced /\ windows[w].system = app.system
      /\ windows[w].palette # "NativeSystem" =>
           windows[w].palette = resolve(windows[w].draft, windows[w].forced, windows[w].system)

=============================================================================
