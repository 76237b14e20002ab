------------------------------ MODULE DragDrop ------------------------------
(***************************************************************************)
(* The OLE drop targets of the list and of its empty-state overlay: their  *)
(* registration, which the destruction of the window can overtake, and one *)
(* drag over a target. The calls a Drop makes into the data provider and   *)
(* its message boxes run nested message loops: between two of its steps    *)
(* the list may lock, grow, shrink, its state may be leased, and the       *)
(* window may go. What drop_locked means is in Workbench.                  *)
(***************************************************************************)
EXTENDS Naturals, FiniteSets

CONSTANTS
  MaxRows,     \* MAX_ADMITTED_SOURCES
  MaxPaths,    \* bound on the paths a source reports
  Budget       \* bytes left for paths, one byte each

DragDropAssumption == MaxRows \in Nat /\ MaxPaths \in Nat /\ Budget \in Nat

Target == {"list", "overlay"}

VARIABLES
  registered,  \* targets OLE knows
  sidecar,     \* DropTargetRegistrations in the slot; NoSidecar when there is none
  setup,       \* progress of register_drop_targets
  window,      \* "Live" or "Destroyed"
  locked,      \* drop_locked of the state
  leased,      \* another callback holds the state: try_app_state gives None
  rows,        \* state.model.len()
  source,      \* the drag: [supported, copy, paths] or NoDrag
  format_supported,
  presentation,   \* DropPresentation of the overlay control
  skipped,     \* a leased state made set_overlay_for_owner do nothing
  pc,          \* where Drop is
  medium,      \* the OwnedStgMedium is held
  extracted,   \* paths copied out of it
  effect,      \* what the drag was answered last
  admission    \* capacity given to the admission worker this drop started

setupVars == <<registered, sidecar, setup>>
dragVars == <<source, format_supported, presentation, skipped, effect>>
dropVars == <<pc, medium, extracted, admission>>
worldVars == <<window, locked, leased, rows>>
vars == <<setupVars, dragVars, dropVars, worldVars>>

NoSidecar == {"None"}
NoDrag == [supported |-> FALSE, copy |-> FALSE, paths |-> 0]
NotStarted == MaxRows + 1

TypeOK ==
  /\ registered \subseteq Target
  /\ sidecar = NoSidecar \/ sidecar \subseteq Target
  /\ setup \in {"Idle", "list", "listCalled", "overlay", "overlayCalled", "Done", "Failed"}
  /\ window \in {"Live", "Destroyed"}
  /\ locked \in BOOLEAN /\ leased \in BOOLEAN /\ rows \in 0..MaxRows
  /\ source \in [supported : BOOLEAN, copy : BOOLEAN, paths : 0..MaxPaths]
  /\ format_supported \in BOOLEAN /\ skipped \in BOOLEAN /\ medium \in BOOLEAN
  /\ presentation \in {"Inactive", "Accepting", "Locked", "Unsupported", "Full"}
  /\ pc \in {"Idle", "Get", "Extract", "LimitBox", "ExcludedBox", "Admit"}
  /\ extracted \in 0..MaxPaths
  /\ effect \in {"None", "Copy"}
  /\ admission \in 0..NotStarted

Init ==
  /\ registered = {} /\ sidecar = NoSidecar /\ setup = "Idle"
  /\ window = "Live" /\ locked = FALSE /\ leased = FALSE /\ rows \in 0..MaxRows
  /\ source = NoDrag /\ format_supported = FALSE
  /\ presentation = "Inactive" /\ skipped = FALSE
  /\ pc = "Idle" /\ medium = FALSE /\ extracted = 0
  /\ effect = "None" /\ admission = NotStarted

-----------------------------------------------------------------------------
(***************************************************************************)
(* register_drop_targets. Between RegisterDragDrop and the transfer of its *)
(* result into the sidecar the window can be destroyed.                    *)
(***************************************************************************)
Quiet == UNCHANGED <<dragVars, dropVars, worldVars>>

BeginSetup ==
  /\ setup = "Idle" /\ window = "Live"
  /\ sidecar' = {} /\ setup' = "list"
  /\ UNCHANGED registered /\ Quiet

Called(t) == IF t = "list" THEN "listCalled" ELSE "overlayCalled"

RegisterDragDrop(t) ==
  /\ setup = t
  /\ Quiet
  /\ \/ registered' = registered \cup {t} /\ setup' = Called(t) /\ UNCHANGED sidecar
     \/ \* OLE refuses: everything transferred so far is revoked
        /\ setup' = "Failed"
        /\ registered' = IF sidecar = NoSidecar THEN registered ELSE registered \ sidecar
        /\ sidecar' = NoSidecar

install_drop_registration(t) ==
  /\ setup = Called(t)
  /\ Quiet
  /\ IF sidecar = NoSidecar
     THEN registered' = registered \ {t} /\ setup' = "Failed" /\ UNCHANGED sidecar
     ELSE /\ sidecar' = sidecar \cup {t}
          /\ setup' = IF t = "list" THEN "overlay" ELSE "Done"
          /\ UNCHANGED registered

\* WM_NCDESTROY takes the sidecar, which revokes what it holds.
Destroy ==
  /\ window = "Live" /\ setup # "Idle"
  /\ window' = "Destroyed"
  /\ registered' = IF sidecar = NoSidecar THEN registered ELSE registered \ sidecar
  /\ sidecar' = NoSidecar
  /\ UNCHANGED <<setup, dragVars, dropVars, locked, leased, rows>>

-----------------------------------------------------------------------------
(***************************************************************************)
(* What the rest of the UI thread does between two callbacks, or inside a  *)
(* nested loop of one: commands, workers and leases of the state.          *)
(***************************************************************************)
Elsewhere ==
  /\ window = "Live" /\ setup = "Done"
  /\ \/ admission = NotStarted /\ locked' \in BOOLEAN /\ UNCHANGED <<leased, rows>>
     \/ leased' \in BOOLEAN /\ UNCHANGED <<locked, rows>>
     \/ ~locked /\ rows' \in 0..MaxRows /\ UNCHANGED <<locked, leased>>
  /\ UNCHANGED <<setupVars, dragVars, dropVars, window>>

Reachable == window = "Live" /\ ~leased    \* try_app_state
Unlocked == Reachable /\ ~locked           \* drop_locked(owner) = Some(false)
Remaining == IF Reachable THEN MaxRows - rows ELSE 0

set_overlay(p) ==
  IF Reachable THEN presentation' = p /\ UNCHANGED skipped
  ELSE skipped' = TRUE /\ UNCHANGED presentation

Presentation(supported, copy) ==
  IF ~supported \/ ~copy THEN "Unsupported"
  ELSE IF Remaining = 0 THEN "Full"
  ELSE IF Reachable /\ ~locked THEN "Accepting"
  ELSE "Locked"

negotiate(supported, copy) ==
  /\ set_overlay(Presentation(supported, copy))
  /\ effect' = IF Presentation(supported, copy) = "Accepting" THEN "Copy" ELSE "None"

DragIdle == source = NoDrag
OverTarget == setup = "Done" /\ registered # {} /\ pc = "Idle"

DragEnter ==
  /\ OverTarget /\ DragIdle
  /\ \E s \in [supported : BOOLEAN, copy : BOOLEAN, paths : 1..MaxPaths] :
       /\ source' = s
       /\ format_supported' = s.supported
       /\ negotiate(s.supported, s.copy)
  /\ admission' = NotStarted
  /\ UNCHANGED <<setupVars, worldVars, pc, medium, extracted>>

DragOver ==
  /\ OverTarget /\ ~DragIdle
  /\ negotiate(format_supported, source.copy)
  /\ UNCHANGED <<setupVars, worldVars, dropVars, source, format_supported>>

DragLeave ==
  /\ OverTarget /\ ~DragIdle
  /\ source' = NoDrag /\ format_supported' = FALSE
  /\ set_overlay("Inactive") /\ effect' = "None"
  /\ UNCHANGED <<setupVars, worldVars, dropVars>>

-----------------------------------------------------------------------------
(***************************************************************************)
(* Drop.                                                                   *)
(***************************************************************************)
Back == pc' = "Idle" /\ source' = NoDrag

DropBegins ==
  /\ OverTarget /\ ~DragIdle
  /\ format_supported' = FALSE /\ effect' = "None"
  /\ set_overlay("Inactive")
  /\ IF format_supported /\ source.copy /\ Unlocked /\ Remaining > 0
     THEN pc' = "Get" /\ UNCHANGED source
     ELSE Back
  /\ UNCHANGED <<setupVars, worldVars, medium, extracted, admission>>

Within(label) == pc = label /\ UNCHANGED <<setupVars, worldVars, format_supported, presentation, skipped>>

\* IDataObject::GetData; the provider may refuse.
GetData ==
  /\ Within("Get")
  /\ \/ pc' = "Extract" /\ medium' = TRUE /\ UNCHANGED source
     \/ Back /\ UNCHANGED medium
  /\ UNCHANGED <<effect, extracted, admission>>

Min2(a, b) == IF a < b THEN a ELSE b

\* One path beyond the capacity witnesses the overflow.
bounded_selection(reported, remaining) == Min2(reported, remaining + 1)

\* remaining_admission_limits: by number and by bytes
ExtractionBound == Min2(bounded_selection(source.paths, Remaining), Budget)

\* extract_drop_paths within what the list still takes; unreadable paths are
\* left out. Every way out releases the medium.
Extract ==
  /\ Within("Extract")
  /\ medium' = FALSE
  /\ IF Reachable
     THEN /\ extracted' \in 0..ExtractionBound
          /\ IF Unlocked THEN pc' = "LimitBox" /\ UNCHANGED source ELSE Back
     ELSE Back /\ UNCHANGED extracted
  /\ UNCHANGED <<effect, admission>>

\* The two message boxes; the lock is looked at again after each.
ShowBox ==
  \E box \in {"LimitBox", "ExcludedBox"} :
    /\ Within(box)
    /\ IF ~Unlocked \/ (box = "ExcludedBox" /\ extracted = 0)
       THEN Back ELSE pc' = (IF box = "LimitBox" THEN "ExcludedBox" ELSE "Admit") /\ UNCHANGED source
    /\ UNCHANGED <<medium, extracted, effect, admission>>

\* admit_paths asks the list again for its capacity.
Capacity == MaxRows - rows

drop_effect_after_admission_start(started) == IF started THEN "Copy" ELSE "None"

\* admit_paths under one lease: the worker starts, or its timer or thread fails.
AdmitPaths ==
  /\ pc = "Admit"
  /\ Back
  /\ IF ~Unlocked
     THEN UNCHANGED <<locked, admission, effect>>
     ELSE \E started \in BOOLEAN :
            /\ effect' = drop_effect_after_admission_start(started)
            /\ admission' = IF started THEN Capacity ELSE admission
            /\ locked' = started
  /\ UNCHANGED <<setupVars, format_supported, presentation, skipped, medium, extracted,
                 window, leased, rows>>

Next ==
  \/ BeginSetup \/ (\E t \in Target : RegisterDragDrop(t) \/ install_drop_registration(t))
  \/ Destroy \/ Elsewhere
  \/ DragEnter \/ DragOver \/ DragLeave
  \/ DropBegins \/ GetData \/ Extract \/ ShowBox \/ AdmitPaths

Spec == Init /\ [][Next]_vars

-----------------------------------------------------------------------------
(***************************************************************************)
(* Whenever the window goes, at any point of the registration, no target   *)
(* stays registered once register_drop_targets has returned.               *)
(***************************************************************************)
NoTargetLeaks ==
  window = "Destroyed" /\ setup \in {"Done", "Failed"} => registered = {}

\* A failed registration takes the other target back.
BothTargetsOrNone == setup = "Failed" => registered = {}

\* The medium the provider handed over is released on every way out of Drop.
MediumReleased == pc \in {"Idle", "LimitBox", "ExcludedBox", "Admit"} => ~medium

(***************************************************************************)
(* A finished drop answers Copy exactly when it started an admission.      *)
(***************************************************************************)
EffectIsTrue == pc = "Idle" /\ DragIdle => (effect = "Copy" <=> admission # NotStarted)

(***************************************************************************)
(* The admission a drop starts can only fill the list, although the limits *)
(* its paths were extracted under may be older than two message boxes.     *)
(***************************************************************************)
NeverTooManyRows == admission # NotStarted => rows + admission <= MaxRows

(***************************************************************************)
(* No drag feedback stays on the window after the drag left or dropped,    *)
(* unless the state was leased at that moment.                             *)
(***************************************************************************)
OverlayGoesAway == DragIdle /\ pc = "Idle" /\ ~skipped => presentation = "Inactive"
=============================================================================
