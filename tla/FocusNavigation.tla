-------------------------- MODULE FocusNavigation ---------------------------
(***************************************************************************)
(* Keyboard focus in the main window (focus_navigation.rs, and its callers *)
(* in windows/menu.rs and windows/application.rs): the list, two rails of  *)
(* command buttons, the Cancel button and the empty list's Add button.     *)
(*                                                                         *)
(* Windows takes the focus away from a control that is disabled or hidden. *)
(* The handlers that disable and hide controls hold the lease on AppState, *)
(* so they may not call SetFocus: they post WM_APP_RESTORE_FOCUS, which    *)
(* finds its target only when it is handled.  In between come other        *)
(* updates, layouts, clicks, keys and changes of the active window.        *)
(***************************************************************************)
EXTENDS Integers, Sequences

CONSTANTS
  LeftButtons, RightButtons,   \* the commands of LEFT_RAIL and of RIGHT_RAIL
  MaxPosted                    \* bound on the focus requests in the queue

FocusAssumption ==
  /\ LeftButtons \in Nat \ {0} /\ RightButtons \in Nat \ {0}
  /\ MaxPosted \in Nat \ {0}

VARIABLES
  states,     \* AppState.command_states of the rails' commands
  visible,    \* AppState.rails_visible
  colors,     \* forced_colors allows custom colors
  indicator,  \* CommandRail.apply_readiness_requested
  cancel,     \* the Cancel button
  add,        \* the Add button is shown, and enabled
  focus,      \* AppState.focus
  tab_stop,   \* the button of each rail that has WS_TABSTOP
  active,     \* the main window is the active one
  held,       \* the control that has the keyboard focus
  posted      \* WM_APP_RESTORE_FOCUS messages

vars == <<states, visible, colors, indicator, cancel, add, focus, tab_stop,
          active, held, posted>>

Rail == {"LeftRail", "RightRail"}
Buttons(rail) == 0 .. (IF rail = "LeftRail" THEN LeftButtons ELSE RightButtons) - 1
Count(rail) == IF rail = "LeftRail" THEN LeftButtons ELSE RightButtons

FocusChild == Rail \cup {"List"}

List   == <<"List", 0>>
Cancel == <<"Cancel", 0>>
Add    == <<"Add", 0>>
Nobody == <<"Nobody", 0>>
Control == {List, Cancel, Add} \cup UNION {{rail} \X Buttons(rail) : rail \in Rail}

None == -1

ANY == Nobody   \* a request without a target of its own

TypeOK ==
  /\ DOMAIN states = Rail /\ \A rail \in Rail : states[rail] \in [Buttons(rail) -> BOOLEAN]
  /\ visible \in BOOLEAN /\ colors \in BOOLEAN /\ indicator \in BOOLEAN
  /\ cancel \in {"Hidden", "Unavailable", "Enabled"}
  /\ add \in BOOLEAN
  /\ focus.last_child \in FocusChild
  /\ DOMAIN focus.index = Rail /\ \A rail \in Rail : focus.index[rail] \in Buttons(rail)
  /\ DOMAIN tab_stop = Rail /\ \A rail \in Rail : tab_stop[rail] \in Buttons(rail) \cup {None}
  /\ active \in BOOLEAN
  /\ held \in Control \cup {Nobody}
  /\ posted \in Seq({ANY, List}) /\ Len(posted) <= MaxPosted

-----------------------------------------------------------------------------
(***************************************************************************)
(* FocusState: which region had the focus last, and which button of each   *)
(* rail is the one that Tab and F6 return to.                              *)
(***************************************************************************)
Enabled(enabled, rail) == {i \in Buttons(rail) : enabled[rail][i]}

FirstOf(S) == CHOOSE i \in S : \A j \in S : i <= j

repair_focus_index(current, enabled, rail) ==
  IF enabled[rail][current] THEN current
  ELSE IF Enabled(enabled, rail) = {} THEN None ELSE FirstOf(Enabled(enabled, rail))

RepairedIndex(f, enabled, shown, rail) ==
  IF shown THEN repair_focus_index(f.index[rail], enabled, rail) ELSE None

repair(f, enabled, shown) ==
  LET index(rail) == RepairedIndex(f, enabled, shown, rail) IN
  [last_child |-> IF f.last_child \in Rail /\ index(f.last_child) = None
                  THEN "List" ELSE f.last_child,
   index |-> [rail \in Rail |-> IF index(rail) = None THEN f.index[rail] ELSE index(rail)]]

record(f, control) ==
  IF control[1] \in Rail
  THEN [last_child |-> control[1], index |-> [f.index EXCEPT ![control[1]] = control[2]]]
  ELSE [f EXCEPT !.last_child = "List"]

Available(child, enabled, shown) ==
  child = "List" \/ (shown /\ Enabled(enabled, child) # {})

Regions == <<"List", "LeftRail", "RightRail">>
NextRegion(child) ==
  LET at == CHOOSE i \in 1 .. 3 : Regions[i] = child IN Regions[(at % 3) + 1]

cycle_major(f, enabled, shown) ==
  LET r     == repair(f, enabled, shown)
      one   == NextRegion(r.last_child)
      two   == NextRegion(one)
  IN [r EXCEPT !.last_child = IF Available(one, enabled, shown) THEN one
                              ELSE IF Available(two, enabled, shown) THEN two
                              ELSE r.last_child]

Offset(current, i, rail, forward) ==
  LET n == Count(rail)
      by == IF forward THEN (i - current + n) % n ELSE (current - i + n) % n
  IN IF by = 0 THEN n ELSE by

adjacent_enabled_index(current, enabled, rail, forward) ==
  LET S == Enabled(enabled, rail) IN
  IF S = {} THEN None
  ELSE CHOOSE i \in S : \A j \in S :
         Offset(current, i, rail, forward) <= Offset(current, j, rail, forward)

\* the state after the move; it stays in the list, and then nothing is handled
move_within_rail(f, enabled, shown, forward) ==
  LET r    == repair(f, enabled, shown)
      rail == r.last_child
  IN IF rail = "List" THEN r
     ELSE [r EXCEPT !.index[rail] = adjacent_enabled_index(@, enabled, rail, forward)]

active_index(f, enabled, shown, rail) ==
  IF shown /\ enabled[rail][f.index[rail]] THEN f.index[rail] ELSE None

action(f) == IF f.last_child = "List" THEN List ELSE <<f.last_child, f.index[f.last_child]>>

TabStops(f, enabled, shown) == [rail \in Rail |-> active_index(f, enabled, shown, rail)]

-----------------------------------------------------------------------------
(***************************************************************************)
(* What Windows does with the focus, and the posted requests.              *)
(***************************************************************************)
Usable(control, enabled, shown, c, a) ==
  \/ control = List
  \/ control = Cancel /\ c = "Enabled"
  \/ control = Add /\ a
  \/ /\ control[1] \in Rail
     /\ shown /\ enabled[control[1]][control[2]]

\* GetFocus, while another window is active
GetFocus == IF active THEN held ELSE Nobody

\* the control keeps the focus only while it is enabled and shown
Keep(enabled, shown, c, a) ==
  IF held = Nobody \/ Usable(held, enabled, shown, c, a) THEN held ELSE Nobody

valid_focus_target(control) == Usable(control, states, visible, cancel, add)

\* SetFocus: the control that gets the focus notifies its parent, which records it
record_child_focus(f, control) ==
  IF control \in {Cancel, Add} THEN f ELSE repair(record(f, control), states, visible)

apply_focus_target(f, control) ==
  /\ held' = IF active THEN control ELSE Nobody
  /\ focus' = IF active THEN record_child_focus(f, control) ELSE f
  /\ tab_stop' = TabStops(focus', states, visible)

Room(n) == Len(posted) + n <= MaxPosted

Post(list_requests, restore) ==
  posted' = posted \o [i \in 1 .. list_requests |-> List]
                   \o (IF restore THEN <<ANY>> ELSE <<>>)

-----------------------------------------------------------------------------
(***************************************************************************)
(* update_controls: called whenever the list, the selection, a lock or a   *)
(* worker changed.  The commands' new states are its inputs.               *)
(***************************************************************************)
apply_readiness_indicator_visible(ready, c, shown) == shown /\ ready /\ c

\* Mutant: only a hidden Cancel button loses the focus.
CancelLosesFocusHidden(c) == GetFocus = Cancel /\ c = "Hidden"

\* disabling or hiding the focused Cancel button
CancelLosesFocus(c) == GetFocus = Cancel /\ c # "Enabled"

\* hiding the focused Add button
AddLosesFocus(a) == GetFocus = Add /\ ~a

RailLosesFocus(f, enabled) ==
  /\ GetFocus[1] \in Rail
  /\ active_index(f, enabled, visible, GetFocus[1]) # GetFocus[2]

update_controls(enabled, c, a) ==
  LET f == repair(focus, enabled, visible)
      requests == (IF CancelLosesFocus(c) THEN 1 ELSE 0) + (IF AddLosesFocus(a) THEN 1 ELSE 0)
  IN /\ Room(1)
     /\ states' = enabled
     /\ cancel' = c
     /\ add' = a
     /\ focus' = f
     /\ tab_stop' = TabStops(f, enabled, visible)
     /\ indicator' = apply_readiness_indicator_visible(enabled["LeftRail"][0], colors, visible)
     /\ held' = Keep(enabled, visible, c, a)
     /\ Post(requests, RailLosesFocus(f, enabled))
     /\ UNCHANGED <<visible, colors, active>>

\* the Add button is shown only while no worker runs, and Apply is then disabled
UpdateControls ==
  \E left \in [Buttons("LeftRail") -> BOOLEAN], right \in [Buttons("RightRail") -> BOOLEAN],
     c \in {"Hidden", "Unavailable", "Enabled"}, a \in BOOLEAN :
    /\ a => c = "Hidden" /\ ~left[0]
    /\ c # "Hidden" => ~left[0]
    /\ update_controls([LeftRail |-> left, RightRail |-> right], c, a)

\* a cancellation or the end of the cancellable part of a worker
apply_cancel_control_state ==
  /\ cancel = "Enabled"
  /\ Room(1)
  /\ cancel' = "Unavailable"
  /\ held' = Keep(states, visible, "Unavailable", add)
  /\ Post(IF CancelLosesFocus("Unavailable") THEN 1 ELSE 0, FALSE)
  /\ UNCHANGED <<states, visible, colors, indicator, add, focus, tab_stop, active>>

\* The rails are replaced by the menu, or come back, when the window is laid out.
arrange(shown, c) ==
  LET f == repair(focus, states, shown) IN
  /\ Room(1)
  /\ visible' = shown
  /\ colors' = c
  /\ indicator' = apply_readiness_indicator_visible(states["LeftRail"][0], c, shown)
  /\ focus' = f
  /\ tab_stop' = TabStops(f, states, shown)
  /\ held' = Keep(states, shown, cancel, add)
  /\ Post(0, ~shown /\ GetFocus[1] \in Rail)
  /\ UNCHANGED <<states, cancel, add, active>>

Arrange == \E shown \in BOOLEAN : arrange(shown, colors)

\* WM_SETTINGCHANGE: high contrast was turned on or off; the commands keep their
\* states, and the layout follows the new fonts
SettingChange == \E shown \in BOOLEAN : arrange(shown, ~colors)

\* added files: the list is to have the focus
FilesAdded ==
  /\ Room(1)
  /\ Post(1, FALSE)
  /\ UNCHANGED <<states, visible, colors, indicator, cancel, add, focus, tab_stop, active, held>>

-----------------------------------------------------------------------------
(***************************************************************************)
(* Input and focus messages.                                               *)
(***************************************************************************)
\* a click on a control, or Tab
TakeFocus(control) ==
  /\ active
  /\ Usable(control, states, visible, cancel, add)
  /\ apply_focus_target(focus, control)
  /\ UNCHANGED <<states, visible, colors, indicator, cancel, add, active, posted>>

\* F6, Up and Down, before any control sees them
Recorded == IF GetFocus \in {Nobody, Cancel, Add} THEN focus ELSE record(focus, GetFocus)

Moved(key) ==
  IF key = "F6" THEN cycle_major(Recorded, states, visible)
  ELSE move_within_rail(Recorded, states, visible, key = "Down")

handle_focus_navigation(key) ==
  LET moved   == Moved(key)
      handled == key = "F6" \/ moved.last_child # "List"
      f       == repair(moved, states, visible)
  IN /\ active
     /\ IF handled /\ valid_focus_target(action(f))
        THEN apply_focus_target(f, action(f))
        ELSE /\ focus' = moved
             /\ tab_stop' = IF handled THEN TabStops(f, states, visible) ELSE tab_stop
             /\ held' = held
     /\ UNCHANGED <<states, visible, colors, indicator, cancel, add, active, posted>>

FocusKey == \E key \in {"F6", "Up", "Down"} : handle_focus_navigation(key)

\* the list, a button of a rail, or nothing
focus_target == action(repair(focus, states, visible))

GiveFocus(target) ==
  LET f == IF target = ANY THEN repair(focus, states, visible) ELSE focus
      control == IF target = ANY THEN focus_target ELSE target
  IN IF valid_focus_target(control)
     THEN apply_focus_target(f, control)
     ELSE /\ focus' = f
          /\ tab_stop' = TabStops(f, states, visible)
          /\ held' = held

\* WM_APP_RESTORE_FOCUS
RestoreFocus ==
  /\ posted # <<>>
  /\ posted' = Tail(posted)
  /\ GiveFocus(Head(posted))
  /\ UNCHANGED <<states, visible, colors, indicator, cancel, add, active>>

Deactivate ==
  /\ active
  /\ active' = FALSE
  /\ held' = Nobody
  /\ UNCHANGED <<states, visible, colors, indicator, cancel, add, focus, tab_stop, posted>>

\* WM_SETFOCUS: the window becomes the active one again, and passes the focus on
Activate ==
  LET f == repair(focus, states, visible) IN
  /\ ~active
  /\ active' = TRUE
  /\ held' = focus_target
  /\ focus' = record_child_focus(f, focus_target)
  /\ tab_stop' = TabStops(focus', states, visible)
  /\ UNCHANGED <<states, visible, colors, indicator, cancel, add, posted>>

\* the window as it is first shown: an empty list, the rails laid out
Init ==
  /\ states = [rail \in Rail |-> [i \in Buttons(rail) |-> FALSE]]
  /\ visible = TRUE
  /\ colors = TRUE
  /\ indicator = FALSE
  /\ cancel = "Hidden"
  /\ add = TRUE
  /\ focus = [last_child |-> "List", index |-> [rail \in Rail |-> 0]]
  /\ tab_stop = [rail \in Rail |-> None]
  /\ active = TRUE
  /\ held = List
  /\ posted = <<>>

Next ==
  \/ UpdateControls
  \/ apply_cancel_control_state
  \/ Arrange
  \/ SettingChange
  \/ FilesAdded
  \/ \E control \in Control : TakeFocus(control)
  \/ FocusKey
  \/ RestoreFocus
  \/ Deactivate
  \/ Activate

Spec == Init /\ [][Next]_vars

-----------------------------------------------------------------------------
(***************************************************************************)
(* Properties.                                                             *)
(***************************************************************************)
\* Keyboard users are never stranded (schedule_focus_restore,
\* apply_cancel_control_state, apply_empty_state_presentation): whenever the
\* active window has no focused control, a request to restore it is queued.
LostFocusIsRequested == active /\ held = Nobody => posted # <<>>

\* Roving tab stop (repair_focus_state): a rail that shows an enabled button has
\* one tab stop, on an enabled button, and on the focused one if it has the focus;
\* any other rail has none.
TabReachesEveryRail ==
  \A rail \in Rail :
    IF visible /\ \E i \in Buttons(rail) : states[rail][i]
    THEN /\ tab_stop[rail] # None
         /\ states[rail][tab_stop[rail]]
         /\ held[1] = rail => tab_stop[rail] = held[2]
    ELSE tab_stop[rail] = None

\* What AppState remembers is what has the focus (record_child_focus): returning
\* to the window returns to the control that was left.
MemoryFollowsFocus ==
  /\ held = List => focus.last_child = "List"
  /\ held[1] \in Rail => focus.last_child = held[1] /\ focus.index[held[1]] = held[2]

\* F6 visits every region that can take the focus, whatever is disabled
\* (FocusState::cycle_major), and only those.
F6VisitsEveryRegion ==
  LET one   == cycle_major(focus, states, visible)
      two   == cycle_major(one, states, visible)
      three == cycle_major(two, states, visible)
  IN {one.last_child, two.last_child, three.last_child} =
       {"List"} \cup {rail \in Rail : visible /\ \E i \in Buttons(rail) : states[rail][i]}

\* Down and Up are inverse to one another on the enabled buttons of a rail
\* (adjacent_enabled_index), and reach an enabled button from anywhere.
UpUndoesDown ==
  \A rail \in Rail, forward \in BOOLEAN : \A i \in Buttons(rail) :
    (\E j \in Buttons(rail) : states[rail][j]) =>
      LET next == adjacent_enabled_index(i, states, rail, forward) IN
      /\ states[rail][next]
      /\ states[rail][i] => adjacent_enabled_index(next, states, rail, ~forward) = i

\* The mark that says Apply is ready is shown only on a visible, enabled Apply
\* button, and not under high contrast (refresh_apply_readiness).
IndicatorIsTrue == indicator => visible /\ colors /\ states["LeftRail"][0]

=============================================================================
