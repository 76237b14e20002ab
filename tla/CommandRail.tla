---------------------------- MODULE CommandRail -----------------------------
(***************************************************************************)
(* One rail of command buttons (windows/command_rail.rs): the native       *)
(* windows it creates and owns, the tooltip that keeps pointers to the     *)
(* rail's texts, and the hover state of a button, a single bit that the    *)
(* button's subclass keeps and that mouse, capture, enable and show        *)
(* messages change.                                                        *)
(*                                                                         *)
(* Any native call of the construction can fail.  Hover is followed on     *)
(* one button; the mouse, the capture and the queue are those of Windows.  *)
(***************************************************************************)
EXTENDS Integers, FiniteSets

CONSTANTS
  Commands,     \* how many buttons the rail has
  Separators,   \* the gaps between its groups
  MaxFaults     \* bound on the failing calls of the hover subclass

RailAssumption ==
  /\ Commands \in Nat \ {0} /\ Separators \in Nat
  /\ MaxFaults \in Nat

VARIABLES
  phase,      \* "building", "ready", "failed", "destroyed"
  buttons,    \* how many buttons exist
  subclassed, \* how many of them have the hover subclass
  separators, \* how many separators exist
  tooltip,    \* the tooltip window exists
  texts,      \* CommandRail.tooltip_texts
  tools,      \* the tools whose text the tooltip window points to
  rail_visible, separators_requested, shown_separators,
  enabled,    \* of the button the mouse visits
  mouse,      \* the mouse is over it
  capture,    \* it has the mouse capture
  hot,        \* its subclass reference data
  tracking,   \* TrackMouseEvent will report the mouse leaving it
  leave,      \* WM_MOUSELEAVE is in the queue
  faults

build == <<buttons, subclassed, separators, tooltip, texts, tools>>
hover == <<enabled, mouse, capture, hot, tracking, leave, faults>>
shown == <<rail_visible, separators_requested, shown_separators>>
vars == <<phase, build, hover, shown>>

TypeOK ==
  /\ phase \in {"building", "ready", "failed", "destroyed"}
  /\ buttons \in 0 .. Commands /\ subclassed \in 0 .. Commands
  /\ separators \in 0 .. Separators
  /\ tooltip \in BOOLEAN
  /\ texts \subseteq 1 .. Commands /\ tools \subseteq 1 .. Commands
  /\ rail_visible \in BOOLEAN /\ separators_requested \in BOOLEAN
  /\ shown_separators \in BOOLEAN
  /\ enabled \in BOOLEAN /\ mouse \in BOOLEAN /\ capture \in BOOLEAN
  /\ hot \in BOOLEAN /\ tracking \in BOOLEAN /\ leave \in BOOLEAN
  /\ faults \in 0 .. MaxFaults

-----------------------------------------------------------------------------
(***************************************************************************)
(* Construction and destruction.                                           *)
(***************************************************************************)
Destroyed ==
  /\ tooltip' = FALSE /\ tools' = {}
  /\ separators' = 0
  /\ buttons' = 0 /\ subclassed' = 0
  /\ texts' = {}

\* destroy_partial, then the error
Fail ==
  /\ phase' = "failed"
  /\ Destroyed

create_tooltip ==
  /\ phase = "building" /\ ~tooltip
  /\ \/ /\ tooltip' = TRUE
        /\ UNCHANGED <<phase, buttons, subclassed, separators, texts, tools>>
     \/ Fail
  /\ UNCHANGED <<hover, shown>>

CreateButton ==
  /\ phase = "building" /\ tooltip
  /\ buttons < Commands /\ buttons = Cardinality(texts)
  /\ \/ /\ buttons' = buttons + 1
        /\ UNCHANGED <<phase, subclassed, separators, tooltip, texts, tools>>
     \/ Fail
  /\ UNCHANGED <<hover, shown>>

install_rail_hover_subclass ==
  /\ phase = "building" /\ subclassed < buttons
  /\ \/ /\ subclassed' = buttons
        /\ UNCHANGED <<phase, buttons, separators, tooltip, texts, tools>>
     \/ Fail
  /\ UNCHANGED <<hover, shown>>

add_tooltip ==
  /\ phase = "building"
  /\ subclassed = buttons /\ buttons = Cardinality(texts) + 1
  /\ \/ /\ texts' = texts \cup {buttons}
        /\ tools' = tools \cup {buttons}
        /\ UNCHANGED <<phase, buttons, subclassed, separators, tooltip>>
     \/ Fail
  /\ UNCHANGED <<hover, shown>>

CreateSeparator ==
  /\ phase = "building" /\ Cardinality(texts) = Commands /\ separators < Separators
  /\ \/ /\ separators' = separators + 1
        /\ UNCHANGED <<phase, buttons, subclassed, tooltip, texts, tools>>
     \/ Fail
  /\ UNCHANGED <<hover, shown>>

populate ==
  /\ phase = "building" /\ Cardinality(texts) = Commands /\ separators = Separators
  /\ phase' = "ready"
  /\ UNCHANGED <<build, hover, shown>>

\* the tooltip window goes first: it points to the texts
DestroyTooltip ==
  /\ phase = "ready"
  /\ phase' = "destroyed"
  /\ tooltip' = FALSE /\ tools' = {}
  /\ UNCHANGED <<buttons, subclassed, separators, texts, hover, shown>>

destroy ==
  /\ phase = "destroyed" /\ buttons > 0
  /\ Destroyed
  /\ hot' = FALSE
  /\ UNCHANGED <<phase, shown, enabled, mouse, capture, tracking, leave, faults>>

-----------------------------------------------------------------------------
(***************************************************************************)
(* Visibility.                                                             *)
(***************************************************************************)
update_separator_visibility(visible, requested) == shown_separators' = (visible /\ requested)

set_separators_visible(visible) ==
  /\ phase = "ready"
  /\ separators_requested' = visible
  /\ update_separator_visibility(rail_visible, visible)
  /\ UNCHANGED <<phase, build, hover, rail_visible>>

-----------------------------------------------------------------------------
(***************************************************************************)
(* rail_hover_subclass.                                                    *)
(***************************************************************************)
MayFail == faults < MaxFaults

\* SetWindowSubclass with the new bit; it can fail and leave the old one
SetHot(bit) ==
  \/ hot' = bit /\ faults' = faults
  \/ MayFail /\ hot' = hot /\ faults' = faults + 1

Clears(message, wparam) ==
  message \in {"LEAVE", "CAPTURECHANGED", "CANCELMODE"} \/ wparam = 0

\* leave, capture, cancel, show and enable messages
OnMessage(message, wparam) ==
  IF hot /\ Clears(message, wparam) THEN SetHot(FALSE) ELSE UNCHANGED <<hot, faults>>

\* the button becomes hot only if the mouse's leaving will be reported
TrackedMove ==
  \/ /\ tracking' = TRUE
     /\ SetHot(TRUE)
  \/ /\ MayFail
     /\ faults' = faults + 1
     /\ UNCHANGED <<tracking, hot>>

\* WM_MOUSEMOVE; with the capture also from outside
MouseMove ==
  /\ phase = "ready" /\ rail_visible /\ enabled
  /\ mouse \/ capture
  /\ IF ~mouse THEN (IF hot THEN SetHot(FALSE) ELSE UNCHANGED <<hot, faults>>) /\ tracking' = tracking
     ELSE IF ~hot THEN TrackedMove
     ELSE UNCHANGED <<hot, faults, tracking>>
  /\ UNCHANGED <<phase, build, shown, enabled, mouse, capture, leave>>

\* the mouse enters or leaves; a tracked leave is reported once
MouseEnters ==
  /\ phase = "ready" /\ ~mouse
  /\ mouse' = TRUE
  /\ UNCHANGED <<phase, build, shown, enabled, capture, hot, tracking, leave, faults>>

MouseExits ==
  /\ phase = "ready" /\ mouse
  /\ mouse' = FALSE
  /\ leave' = (leave \/ tracking)
  /\ tracking' = FALSE
  /\ UNCHANGED <<phase, build, shown, enabled, capture, hot, faults>>

\* WM_MOUSELEAVE
MouseLeave ==
  /\ phase = "ready" /\ leave
  /\ leave' = FALSE
  /\ OnMessage("LEAVE", 0)
  /\ UNCHANGED <<phase, build, shown, enabled, mouse, capture, tracking>>

\* the button is pressed, and released or robbed of the capture
Press ==
  /\ phase = "ready" /\ rail_visible /\ enabled /\ mouse /\ ~capture
  /\ capture' = TRUE
  /\ UNCHANGED <<phase, build, shown, enabled, mouse, hot, tracking, leave, faults>>

Release ==
  /\ phase = "ready" /\ capture
  /\ capture' = FALSE
  /\ OnMessage("CAPTURECHANGED", 0)
  /\ UNCHANGED <<phase, build, shown, enabled, mouse, tracking, leave>>

\* set_enabled: WM_ENABLE is sent when the state changes
set_enabled(on) ==
  /\ phase = "ready" /\ enabled # on
  /\ enabled' = on
  /\ capture' = (capture /\ on)
  /\ OnMessage("ENABLE", IF on THEN 1 ELSE 0)
  /\ UNCHANGED <<phase, build, shown, mouse, tracking, leave>>

\* set_visible: WM_SHOWWINDOW is sent to each button that changes
set_visible(visible) ==
  /\ phase = "ready"
  /\ rail_visible' = visible
  /\ update_separator_visibility(visible, separators_requested)
  /\ IF visible = rail_visible THEN UNCHANGED <<hot, faults, capture>>
     ELSE /\ capture' = (capture /\ visible)
          /\ OnMessage("SHOW", IF visible THEN 1 ELSE 0)
  /\ UNCHANGED <<phase, build, separators_requested, enabled, mouse, tracking, leave>>

Init ==
  /\ phase = "building"
  /\ buttons = 0 /\ subclassed = 0 /\ separators = 0
  /\ tooltip = FALSE /\ texts = {} /\ tools = {}
  /\ rail_visible = TRUE /\ separators_requested = TRUE /\ shown_separators = TRUE
  /\ enabled = TRUE /\ mouse = FALSE /\ capture = FALSE
  /\ hot = FALSE /\ tracking = FALSE /\ leave = FALSE
  /\ faults = 0

Next ==
  \/ create_tooltip \/ CreateButton \/ install_rail_hover_subclass \/ add_tooltip
  \/ CreateSeparator \/ populate
  \/ DestroyTooltip \/ destroy
  \/ \E visible \in BOOLEAN : set_separators_visible(visible) \/ set_visible(visible)
  \/ \E on \in BOOLEAN : set_enabled(on)
  \/ MouseMove \/ MouseEnters \/ MouseExits \/ MouseLeave \/ Press \/ Release

Spec == Init /\ [][Next]_vars

-----------------------------------------------------------------------------
(***************************************************************************)
(* Properties.                                                             *)
(***************************************************************************)
\* The tooltip control keeps pointers, not copies (add_tooltip, destroy_partial):
\* every text it points to is still owned by the rail.
TooltipTextsOutliveTools == tools \subseteq texts

\* All or nothing (CommandRail::create): a construction that failed left no
\* window behind, and a rail that is ready has every button with its hover
\* subclass and tooltip.
CreateIsAllOrNothing ==
  /\ phase = "failed" => ~tooltip /\ buttons = 0 /\ separators = 0 /\ subclassed = 0
  /\ phase = "ready" => /\ tooltip /\ buttons = Commands /\ subclassed = Commands
                        /\ separators = Separators /\ tools = 1 .. Commands

\* Separators are shown exactly when both the layout and the user's appearance
\* show them (update_separator_visibility), in whichever order the two change.
SeparatorsFollowBoth ==
  phase = "ready" => shown_separators = (rail_visible /\ separators_requested)

\* A hot button will be told to cool down (rail_hover_subclass): the mouse is on
\* it and its leaving is tracked, or the leave message is queued, or the button
\* has the capture, whose end clears it - unless a call that clears it failed.
HotIsTemporary == hot /\ faults = 0 => tracking \/ leave \/ capture

\* A button that cannot be used is never drawn hot (WM_ENABLE, WM_SHOWWINDOW),
\* unless the call that clears it failed.
UnusableIsCold == phase = "ready" /\ hot /\ faults = 0 => enabled /\ rail_visible
=============================================================================
