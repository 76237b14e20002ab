-------------------------- MODULE WindowCallbacks ---------------------------
(***************************************************************************)
(* The UI thread of the main window: nested activations of window_proc on  *)
(* one call stack, the state lease each of them takes or is refused, and   *)
(* the message boxes that may not be shown while a lease is out and are    *)
(* therefore deferred. Only the activation on top of the stack runs; a     *)
(* native call it makes can enter window_proc again.                       *)
(***************************************************************************)
EXTENDS Naturals, Sequences, TLAPS

-----------------------------------------------------------------------------
(***************************************************************************)
(* CallbackState: the allocation whose address the main window publishes   *)
(* in GWLP_USERDATA. A window procedure that wants the state takes a lease *)
(* on it; windows re-enter their procedure while a lease is out, and the   *)
(* window can be destroyed under one. The run scope keeps a hold until its *)
(* icon thread is joined. Whoever is last frees the box.                   *)
(*                                                                         *)
(* freed counts the calls of Box::from_raw, so that a second one is a      *)
(* state and not an impossibility.                                         *)
(***************************************************************************)
CONSTANT Lease      \* the callback activations that may hold a lease

VARIABLES
  window,           \* "Creating", "Published" (GWLP_USERDATA set) or "Gone"
  status,           \* CallbackStateStatus
  reclaim_held,     \* the Cell the hold sets
  freed,            \* how often the allocation was released
  leases,           \* the CallbackStateLease values in existence
  hold              \* is there a CallbackReclaimHold value?

slotVars == <<window, status, reclaim_held, freed, leases, hold>>

CallbackStateStatus ==
  {"Available", "Leased", "ReclaimPendingLeased", "ReclaimPendingIdle"}

SlotTypeOK ==
  /\ window \in {"Creating", "Published", "Gone"}
  /\ status \in CallbackStateStatus
  /\ reclaim_held \in BOOLEAN
  /\ freed \in Nat
  /\ leases \subseteq Lease
  /\ hold \in BOOLEAN

\* CallbackState::into_raw
SlotInit ==
  /\ window = "Creating"
  /\ status = "Available"
  /\ reclaim_held = FALSE
  /\ freed = 0
  /\ leases = {}
  /\ hold = FALSE

\* WM_NCCREATE publishes the slot
Adopt ==
  /\ window = "Creating"
  /\ window' = "Published"
  /\ UNCHANGED <<status, reclaim_held, freed, leases, hold>>

\* CreateWindowExW failed before WM_NCCREATE: run still owns the box
CreateFails ==
  /\ window = "Creating"
  /\ window' = "Gone"
  /\ freed' = freed + 1
  /\ UNCHANGED <<status, reclaim_held, leases, hold>>

is_busy == window = "Published" /\ status # "Available"

try_lease(l) ==
  /\ window = "Published"
  /\ status = "Available"
  /\ status' = "Leased"
  /\ leases' = leases \cup {l}
  /\ UNCHANGED <<window, reclaim_held, freed, hold>>

\* Mutant: a pending reclamation ignores the hold of the run scope.
ReclaimOnDropHeldless == status = "ReclaimPendingLeased"

\* CallbackStateLease::drop frees the box when it is the last owner
ReclaimOnDrop == status = "ReclaimPendingLeased" /\ ~reclaim_held

drop_lease(l) ==
  /\ l \in leases
  /\ leases' = leases \ {l}
  /\ freed' = IF ReclaimOnDrop THEN freed + 1 ELSE freed
  /\ status' = CASE status = "Leased" -> "Available"
                 [] status = "ReclaimPendingLeased" /\ ~ReclaimOnDrop -> "ReclaimPendingIdle"
                 [] OTHER -> status
  /\ UNCHANGED <<window, reclaim_held, hold>>

\* WM_NCDESTROY clears GWLP_USERDATA and calls request_reclaim
request_reclaim ==
  /\ window = "Published"
  /\ window' = "Gone"
  /\ status' = CASE status = "Leased" -> "ReclaimPendingLeased"
                 [] status = "Available" /\ reclaim_held -> "ReclaimPendingIdle"
                 [] OTHER -> status
  /\ freed' = IF status = "Available" /\ ~reclaim_held THEN freed + 1 ELSE freed
  /\ UNCHANGED <<reclaim_held, leases, hold>>

\* CallbackReclaimHold::new
hold_reclaim ==
  /\ window = "Published"
  /\ ~reclaim_held
  /\ status \in {"Available", "Leased"}
  /\ reclaim_held' = TRUE
  /\ hold' = TRUE
  /\ UNCHANGED <<window, status, freed, leases>>

\* CallbackReclaimHold::drop
release_reclaim_hold ==
  /\ hold
  /\ hold' = FALSE
  /\ reclaim_held' = FALSE
  /\ freed' = IF reclaim_held /\ status = "ReclaimPendingIdle" THEN freed + 1 ELSE freed
  /\ UNCHANGED <<window, status, leases>>

SlotNext ==
  \/ Adopt \/ CreateFails
  \/ \E l \in Lease : try_lease(l) \/ drop_lease(l)
  \/ request_reclaim
  \/ hold_reclaim \/ release_reclaim_hold

SlotSpec == SlotInit /\ [][SlotNext]_slotVars

-----------------------------------------------------------------------------
\* At most one lease exists, however deeply the window procedure is nested
\* ("this lease is the only lease for `value`"): the references handed out by
\* state() and state_mut() never alias.
OneLease == \A a, b \in leases : a = b

\* The box is freed exactly once, and exactly when its last owner goes: never
\* while the window still publishes it, a lease can still reach it or the run
\* scope holds it, and always as soon as none of them does.
ReclaimedExactlyOnce ==
  freed = IF window # "Gone" \/ leases # {} \/ hold THEN 0 ELSE 1

\* What makes the two inductive: status and reclaim_held are a true account of
\* the owners.
StatusAccounts ==
  /\ leases = {} <=> status \notin {"Leased", "ReclaimPendingLeased"} \/ freed # 0
  /\ status = "Leased" => window = "Published"
  /\ status \in {"ReclaimPendingLeased", "ReclaimPendingIdle"} => window = "Gone"
  /\ window = "Gone" /\ freed = 0 => status \in {"ReclaimPendingLeased", "ReclaimPendingIdle"}
  /\ window = "Creating" => status = "Available" /\ ~hold
  /\ status = "ReclaimPendingIdle" /\ freed = 0 => hold
  /\ reclaim_held <=> hold

SlotInv == SlotTypeOK /\ OneLease /\ ReclaimedExactlyOnce /\ StatusAccounts

-----------------------------------------------------------------------------
CONSTANTS
  MaxDepth,      \* bound on nested activations
  MaxReports,    \* bound on calls of message()
  MaxFaults      \* bound on failed PostMessageW and SetTimer calls

ASSUME WindowCallbacksAssumption ==
  /\ Lease = 1..MaxDepth
  /\ MaxDepth \in Nat /\ MaxReports \in Nat /\ MaxFaults \in Nat

VARIABLES
  stack,         \* what each activation is doing, the innermost last
  deferred,      \* DEFERRED_MESSAGES of this window
  shown,         \* the deferred messages whose box was opened, in order
  issued,        \* how many messages were deferred so far
  wake,          \* WM_APP_SHOW_DEFERRED_MESSAGE is in the queue
  timer,         \* DEFERRED_MESSAGE_TIMER_ID is set
  faults,
  run,           \* run_unsafe: "Starting", "Pumping", "Joining" or "Ended"
  icons,         \* the icon thread: "None", "Working", "Retiring" or "Joined"
  registrations  \* the OLE drop targets: "None", "Installed" or "Revoked"

messageVars == <<deferred, shown, issued, wake, timer, faults>>
scopeVars == <<run, icons, registrations>>
vars == <<slotVars, stack, messageVars, scopeVars>>

(***************************************************************************)
(* A Handler holds the lease; Open runs without one (its lease is released *)
(* or was refused); a Box shows deferred messages and owns the drain guard.*)
(***************************************************************************)
Frame == {"Handler", "Open", "Box", "Notice"}

Depth == Len(stack)
Top == stack[Depth]
Entered(frame) == Depth < MaxDepth /\ stack' = Append(stack, frame)
Draining == \E i \in 1..Depth : stack[i] = "Box"

TypeOK ==
  /\ SlotTypeOK
  /\ stack \in Seq(Frame) /\ Depth <= MaxDepth
  /\ \A i \in 1..Depth : stack[i] = "Handler" <=> i \in leases
  /\ deferred \in Seq(1..issued) /\ shown \in Seq(1..issued) /\ issued \in 0..MaxReports
  /\ wake \in BOOLEAN /\ timer \in BOOLEAN /\ faults \in 0..MaxFaults
  /\ run \in {"Starting", "Pumping", "Joining", "Ended"}
  /\ icons \in {"None", "Working", "Retiring", "Joined"}
  /\ registrations \in {"None", "Installed", "Revoked"}

Init ==
  /\ SlotInit
  /\ stack = <<>>
  /\ deferred = <<>> /\ shown = <<>> /\ issued = 0
  /\ wake = FALSE /\ timer = FALSE /\ faults = 0
  /\ run = "Starting" /\ icons = "None" /\ registrations = "None"

-----------------------------------------------------------------------------
\* post(owner) || set_timer(owner); both may fail
schedule_deferred_message_wake(lost) ==
  /\ faults' = faults + lost /\ faults' <= MaxFaults
  /\ wake' = (wake \/ lost = 0)
  /\ timer' = (timer \/ lost = 1)

NothingScheduled == UNCHANGED <<wake, timer, faults>>

\* Mutant: nobody reschedules a wake that was lost.
RetryWakeNever == NothingScheduled

\* At the start of every callback that finds the state free
RetryWake ==
  IF is_busy \/ deferred = <<>> THEN NothingScheduled
  ELSE \E lost \in 0..2 : schedule_deferred_message_wake(lost)

\* Can a message reach window_proc now? Startup sends them too.
Delivered == run # "Ended" /\ window = "Published"

\* An ordinary message. A busy one is suppressed or goes to DefWindowProcW.
Callback ==
  /\ Delivered
  /\ RetryWake
  /\ \/ Entered("Handler") /\ try_lease(Depth + 1)
     \/ is_busy /\ Entered("Open") /\ UNCHANGED slotVars
  /\ UNCHANGED <<deferred, shown, issued, scopeVars>>

\* run_after_callback_state_release: dialogs, DefWindowProcW and DestroyWindow
\* are called only after the lease ended.
ReleaseLease ==
  /\ Depth > 0 /\ Top = "Handler"
  /\ drop_lease(Depth)
  /\ stack' = [stack EXCEPT ![Depth] = "Open"]
  /\ UNCHANGED <<messageVars, scopeVars>>

\* try_app_state: an activation that let the lease go takes it again.
TakeLeaseAgain ==
  /\ Depth > 0 /\ Top = "Open"
  /\ try_lease(Depth)
  /\ stack' = [stack EXCEPT ![Depth] = "Handler"]
  /\ UNCHANGED <<messageVars, scopeVars>>

\* The activation returns; a Box returns when drain_deferred_messages_with
\* finds no further message.
Return ==
  /\ Depth > 0
  /\ Top = "Box" => deferred = <<>>
  /\ stack' = SubSeq(stack, 1, Depth - 1)
  /\ IF Top = "Handler" THEN drop_lease(Depth) ELSE UNCHANGED slotVars
  /\ UNCHANGED <<messageVars, scopeVars>>

-----------------------------------------------------------------------------
Defers == is_busy

\* Mutant: a message whose wake could not be scheduled is not queued.
QueuedIfWoken(lost) == IF lost = 2 THEN deferred ELSE Append(deferred, issued + 1)

Queued(lost) == Append(deferred, issued + 1)

\* message(): deferred while any activation below holds the state. Otherwise
\* MessageBoxW runs at once, as one more activation.
Report ==
  /\ Depth > 0
  /\ IF Defers
     THEN /\ issued < MaxReports
          /\ issued' = issued + 1
          /\ \E lost \in 0..2 : deferred' = Queued(lost) /\ schedule_deferred_message_wake(lost)
          /\ UNCHANGED <<stack, shown>>
     ELSE window = "Published" /\ Entered("Notice") /\ UNCHANGED messageVars
  /\ UNCHANGED <<slotVars, scopeVars>>

\* DeferredMessageDrainGuard::begin in drain_deferred_messages_with
MayDrain == deferred # <<>> /\ ~Draining

\* drain_deferred_messages_if_available
Drain ==
  IF MayDrain
  THEN Entered("Box") /\ shown' = Append(shown, Head(deferred)) /\ deferred' = Tail(deferred)
  ELSE UNCHANGED <<stack, shown, deferred>>

\* WM_APP_SHOW_DEFERRED_MESSAGE
DeferredWake ==
  /\ Delivered /\ wake
  /\ wake' = FALSE
  /\ IF is_busy
     THEN /\ \E lost \in 0..1 : timer' = (timer \/ lost = 0) /\ faults' = faults + lost
          /\ faults' <= MaxFaults
          /\ UNCHANGED <<stack, shown, deferred>>
     ELSE Drain /\ timer' = FALSE /\ UNCHANGED faults
  /\ UNCHANGED <<slotVars, issued, scopeVars>>

\* WM_TIMER with DEFERRED_MESSAGE_TIMER_ID; while busy it stays set.
DeferredTimer ==
  /\ Delivered /\ timer /\ ~is_busy
  /\ timer' = FALSE
  /\ Drain
  /\ UNCHANGED <<slotVars, issued, wake, faults, scopeVars>>

\* The user closes a box: the drain loop takes the next message.
NextBox ==
  /\ Depth > 0 /\ Top = "Box" /\ deferred # <<>>
  /\ shown' = Append(shown, Head(deferred)) /\ deferred' = Tail(deferred)
  /\ UNCHANGED <<slotVars, stack, issued, wake, timer, faults, scopeVars>>

-----------------------------------------------------------------------------
\* request_icon_retirement through the sidecar
Retired == IF icons = "Working" THEN "Retiring" ELSE icons

\* Mutant: the destroyed window keeps its deferred messages.
discard_deferred_messages_Never == deferred

discard_deferred_messages == <<>>

\* DestroyWindow runs WM_DESTROY and WM_NCDESTROY on top of any activation:
\* called by one of them, or by the system under any of them.
DestroyWindow ==
  /\ run = "Pumping" \/ stack # <<>>
  /\ icons' = Retired
  /\ registrations' = IF registrations = "Installed" THEN "Revoked" ELSE registrations
  /\ deferred' = discard_deferred_messages
  /\ timer' = FALSE
  /\ wake' = FALSE
  /\ request_reclaim
  /\ UNCHANGED <<stack, shown, issued, faults, run>>

\* run_unsafe: CreateWindowExW fails before or after WM_NCCREATE, children and
\* drop targets are made in WM_CREATE, the hold and the icon thread follow.
CreateWindow ==
  /\ run = "Starting"
  /\ \/ Adopt /\ registrations' = "Installed" /\ UNCHANGED run
     \/ CreateFails /\ run' = "Joining" /\ UNCHANGED registrations
  /\ UNCHANGED <<stack, messageVars, icons>>

StartRun ==
  /\ run = "Starting" /\ stack = <<>>
  /\ hold_reclaim
  /\ run' = "Pumping"
  /\ icons' \in {"None", "Working"}
  /\ UNCHANGED <<stack, messageVars, registrations>>

\* A failed start destroys the hidden window, unless one of its first
\* callbacks already did, and returns.
StartFails ==
  /\ run = "Starting" /\ stack = <<>> /\ window # "Creating"
  /\ run' = "Joining"
  /\ registrations' = "Revoked"
  /\ deferred' = discard_deferred_messages
  /\ timer' = FALSE /\ wake' = FALSE
  /\ request_reclaim \/ (window = "Gone" /\ UNCHANGED slotVars)
  /\ UNCHANGED <<stack, shown, issued, faults, icons>>

IconThreadEnds ==
  /\ icons = "Retiring"
  /\ icons' = "Joined"
  /\ UNCHANGED <<slotVars, stack, messageVars, run, registrations>>

\* WM_QUIT: the loop ends, a window that is still there goes first.
LeaveLoop ==
  /\ run = "Pumping" /\ stack = <<>> /\ window = "Gone"
  /\ run' = "Joining"
  /\ icons' = Retired
  /\ UNCHANGED <<slotVars, stack, messageVars, registrations>>

MayEnd == run = "Joining" /\ stack = <<>> /\ icons \in {"None", "Joined"}

\* The locals of run_unsafe are dropped: the guardian joins, then the hold goes.
EndRun ==
  /\ MayEnd
  /\ run' = "Ended"
  /\ IF hold THEN release_reclaim_hold ELSE UNCHANGED slotVars
  /\ UNCHANGED <<stack, messageVars, icons, registrations>>

Finished == run = "Ended" /\ UNCHANGED vars

Next ==
  \/ Callback \/ ReleaseLease \/ TakeLeaseAgain \/ Return
  \/ Report \/ DeferredWake \/ DeferredTimer \/ NextBox
  \/ DestroyWindow \/ CreateWindow \/ StartRun \/ StartFails
  \/ IconThreadEnds \/ LeaveLoop \/ EndRun
  \/ Finished

Spec == Init /\ [][Next]_vars

-----------------------------------------------------------------------------
\* Every deferred message is still queued or had its box opened, and none
\* twice, as long as the window exists: neither a refused drain, nor a lost
\* wake, nor a nested loop drops a warning (the comment in
\* defer_message_if_callback_busy: "must not discard safety-relevant text").
NoReportLost ==
  window = "Published" =>
    shown \o deferred = [i \in 1..issued |-> i]

\* No message box is opened over a leased state: its loop would find every
\* command, timer and close request suppressed as busy.
BoxesOutsideLeases ==
  \A i, j \in 1..Depth : i < j /\ stack[j] \in {"Box", "Notice"} => stack[i] # "Handler"

\* The run scope leaves nothing behind: the box is freed, the icon thread is
\* joined and the drop targets are revoked, however deep the stack was when
\* the window went.
NothingOutlivesRun ==
  run = "Ended" => freed = 1 /\ icons \in {"None", "Joined"} /\ registrations # "Installed"

(***************************************************************************)
(* Deferred message boxes survive re-entrancy: at most one lease is out, a *)
(* deferred report is queued until its box is opened, a box is opened only *)
(* outside leases, and nothing of the run outlives it.                     *)
(***************************************************************************)
CallbacksSafe ==
  TypeOK /\ OneLease /\ NoReportLost /\ BoxesOutsideLeases /\ NothingOutlivesRun

\* Once the window is gone no deferred message is shown for it any more.
NoBoxAfterDestroy == window = "Gone" => shown' = shown

-----------------------------------------------------------------------------
(***************************************************************************)
(* Proofs.  The box behind the window is freed exactly once and leased at  *)
(* most once, for any set of callback activations, and the nested window   *)
(* procedures use it as its specification says.                            *)
(***************************************************************************)
\* A newly boxed state satisfies the invariant.
LEMMA SlotInitInv == SlotInit => SlotInv
<1> SUFFICES ASSUME SlotInit PROVE SlotInv
  OBVIOUS
<1>1. ~hold /\ ~reclaim_held /\ hold \in BOOLEAN /\ reclaim_held \in BOOLEAN
  BY Zenon DEF SlotInit
<1>2. window = "Creating" /\ status = "Available" /\ freed = 0 /\ leases = {}
  BY DEF SlotInit
<1> QED
  BY <1>1, <1>2 DEF SlotInv, SlotTypeOK, OneLease, ReclaimedExactlyOnce, StatusAccounts,
                    CallbackStateStatus

\* Every operation on the slot keeps the invariant.
LEMMA SlotNextInv == SlotInv /\ [SlotNext]_slotVars => SlotInv'
<1> SUFFICES ASSUME SlotInv, [SlotNext]_slotVars PROVE SlotInv'
  OBVIOUS
<1> USE DEF SlotInv, SlotTypeOK, OneLease, ReclaimedExactlyOnce, StatusAccounts,
            CallbackStateStatus
<1>1. CASE Adopt
  BY <1>1 DEF Adopt
<1>2. CASE CreateFails
  BY <1>2 DEF CreateFails
<1>3. ASSUME NEW l \in Lease, try_lease(l) PROVE SlotInv'
  BY <1>3 DEF try_lease
<1>4. ASSUME NEW l \in Lease, drop_lease(l) PROVE SlotInv'
  <2>1. leases = {l} /\ leases' = {}
    BY <1>4 DEF drop_lease
  <2>2. freed = 0 /\ status \in {"Leased", "ReclaimPendingLeased"}
    BY <2>1
  <2>3. CASE status = "Leased"
    BY <1>4, <2>1, <2>2, <2>3 DEF drop_lease, ReclaimOnDrop
  <2>4. CASE status = "ReclaimPendingLeased" /\ reclaim_held
    BY <1>4, <2>1, <2>2, <2>4 DEF drop_lease, ReclaimOnDrop
  <2>5. CASE status = "ReclaimPendingLeased" /\ ~reclaim_held
    BY <1>4, <2>1, <2>2, <2>5 DEF drop_lease, ReclaimOnDrop
  <2> QED
    BY <2>2, <2>3, <2>4, <2>5
<1>5. CASE request_reclaim
  BY <1>5 DEF request_reclaim
<1>6. CASE hold_reclaim
  BY <1>6 DEF hold_reclaim
<1>7. CASE release_reclaim_hold
  <2>1. ~hold' /\ ~reclaim_held' /\ hold' \in BOOLEAN /\ reclaim_held' \in BOOLEAN
    BY <1>7, Zenon DEF release_reclaim_hold
  <2>2. /\ freed' = IF reclaim_held /\ status = "ReclaimPendingIdle" THEN freed + 1 ELSE freed
        /\ window' = window /\ status' = status /\ leases' = leases /\ hold
    BY <1>7 DEF release_reclaim_hold
  <2> QED
    BY <2>1, <2>2
<1>8. CASE UNCHANGED slotVars
  BY <1>8 DEF slotVars
<1> QED
  BY <1>1, <1>2, <1>3, <1>4, <1>5, <1>6, <1>7, <1>8 DEF SlotNext

\* CallbackState frees its box exactly once, when the window, the leases and
\* the hold of the run scope are all gone, and never hands out two leases.
THEOREM SlotSafe == SlotSpec => [](OneLease /\ ReclaimedExactlyOnce)
<1>1. SlotInv => OneLease /\ ReclaimedExactlyOnce
  BY DEF SlotInv
<1> QED
  BY <1>1, SlotInitInv, SlotNextInv, PTL DEF SlotSpec

-----------------------------------------------------------------------------
StackOK == stack \in Seq(Frame) /\ Len(stack) <= MaxDepth

\* Activations are pushed and popped one at a time.
LEMMA StackStep == StackOK /\ [Next]_vars => StackOK'
<1> SUFFICES ASSUME StackOK, [Next]_vars PROVE StackOK'
  OBVIOUS
<1> USE WindowCallbacksAssumption DEF StackOK, Frame, Entered, Depth, Top
<1>1. CASE Callback
  BY <1>1 DEF Callback
<1>2. CASE ReleaseLease \/ TakeLeaseAgain
  BY <1>2 DEF ReleaseLease, TakeLeaseAgain
<1>3. CASE Return
  BY <1>3 DEF Return
<1>4. CASE Report
  BY <1>4 DEF Report
<1>5. CASE DeferredWake \/ DeferredTimer
  <2>1. Entered("Box") \/ UNCHANGED stack
    BY <1>5, Zenon DEF DeferredWake, DeferredTimer, Drain
  <2> QED
    BY <2>1
<1>6. CASE UNCHANGED stack
  BY <1>6
<1> QED
  BY <1>1, <1>2, <1>3, <1>4, <1>5, <1>6
     DEF Next, vars, NextBox, DestroyWindow, CreateWindow, StartRun, StartFails,
         IconThreadEnds, LeaveLoop, EndRun, Finished

\* Every step of the UI thread is an operation of the slot or leaves it alone.
LEMMA CallbackStep == StackOK /\ [Next]_vars => [SlotNext]_slotVars
<1> SUFFICES ASSUME StackOK, [Next]_vars PROVE [SlotNext]_slotVars
  OBVIOUS
<1>1. Lease = 1..MaxDepth /\ MaxDepth \in Nat
  BY WindowCallbacksAssumption
<1>2. Depth \in Nat
  BY DEF StackOK, Depth
<1>3. CASE Callback
  <2>1. CASE Entered("Handler") /\ try_lease(Depth + 1)
    <3>1. Depth + 1 \in Lease
      BY <1>1, <1>2, <2>1 DEF Entered
    <3> QED
      BY <2>1, <3>1 DEF SlotNext
  <2>2. CASE UNCHANGED slotVars
    BY <2>2
  <2> QED
    BY <1>3, <2>1, <2>2 DEF Callback
<1>4. ASSUME Depth > 0 PROVE Depth \in Lease
  BY <1>1, <1>2, <1>4 DEF StackOK, Depth
<1>5. CASE TakeLeaseAgain
  BY <1>4, <1>5 DEF TakeLeaseAgain, SlotNext
<1>6. CASE ReleaseLease
  BY <1>4, <1>6 DEF ReleaseLease, SlotNext
<1>7. CASE Return
  BY <1>4, <1>7 DEF Return, SlotNext
<1>8. CASE CreateWindow \/ StartRun \/ StartFails \/ DestroyWindow \/ EndRun
  BY <1>8 DEF CreateWindow, StartRun, StartFails, DestroyWindow, EndRun, SlotNext
<1>9. CASE UNCHANGED slotVars
  BY <1>9
<1> QED
  BY <1>3, <1>5, <1>6, <1>7, <1>8, <1>9
     DEF Next, vars, Report, DeferredWake, DeferredTimer, NextBox, IconThreadEnds,
         LeaveLoop, Finished

\* The nested window procedures, the destruction of the window under any of
\* them and the end of the run scope implement the slot's specification.
THEOREM CallbacksImplementSlot == Spec => SlotSpec
<1>1. Init => StackOK /\ SlotInit
  BY WindowCallbacksAssumption DEF Init, StackOK, Frame
<1> QED
  BY <1>1, StackStep, CallbackStep, PTL DEF Spec, SlotSpec

\* Whatever the nesting, the state has one lease at a time and is freed once.
THEOREM CallbacksKeepSlot == Spec => [](OneLease /\ ReclaimedExactlyOnce)
  BY SlotSafe, CallbacksImplementSlot, PTL

-----------------------------------------------------------------------------
(***************************************************************************)
(* The inductive invariant of the whole UI thread: the leases are those of *)
(* the activations that act as handlers, what exists before the window and *)
(* after it, and where the run scope is.                                   *)
(***************************************************************************)
StackInv ==
  /\ StackOK
  /\ \A i \in 1..Depth : stack[i] = "Handler" <=> i \in leases
  /\ \A l \in leases : l \in 1..Depth
  /\ BoxesOutsideLeases
  /\ window = "Creating" => stack = <<>>

MessageInv ==
  /\ deferred \in Seq(1..issued) /\ shown \in Seq(1..issued) /\ issued \in 0..MaxReports
  /\ wake \in BOOLEAN /\ timer \in BOOLEAN /\ faults \in 0..MaxFaults
  /\ NoReportLost
  /\ window = "Creating" => issued = 0 /\ deferred = <<>> /\ shown = <<>>
  /\ window = "Gone" => deferred = <<>>

ScopeInv ==
  /\ run \in {"Starting", "Pumping", "Joining", "Ended"}
  /\ icons \in {"None", "Working", "Retiring", "Joined"}
  /\ registrations \in {"None", "Installed", "Revoked"}
  /\ window \in {"Creating", "Gone"} => registrations # "Installed"
  /\ run \in {"Joining", "Ended"} => window = "Gone"
  /\ run = "Ended" => stack = <<>> /\ ~hold /\ icons \in {"None", "Joined"}

CallbackInv == SlotInv /\ StackInv /\ MessageInv /\ ScopeInv

\* Moving the head of the queue to the end of what was shown changes nothing in
\* their concatenation.
LEMMA MoveHead ==
  ASSUME NEW S, NEW s \in Seq(S), NEW d \in Seq(S), d # <<>>
  PROVE  /\ Append(s, Head(d)) \in Seq(S) /\ Tail(d) \in Seq(S)
         /\ Append(s, Head(d)) \o Tail(d) = s \o d
<1>1. Append(s, Head(d)) \in Seq(S) /\ Tail(d) \in Seq(S)
  OBVIOUS
<1>2. Len(Append(s, Head(d)) \o Tail(d)) = Len(s \o d)
  OBVIOUS
<1>3. ASSUME NEW i \in 1..Len(s \o d)
      PROVE  (Append(s, Head(d)) \o Tail(d))[i] = (s \o d)[i]
  OBVIOUS
<1> QED
  BY <1>1, <1>2, <1>3

\* A message queued last is last in the concatenation too.
LEMMA AppendLast ==
  ASSUME NEW S, NEW s \in Seq(S), NEW d \in Seq(S), NEW x \in S
  PROVE  /\ Append(d, x) \in Seq(S) /\ s \o d \in Seq(S)
         /\ s \o Append(d, x) = Append(s \o d, x)
<1>1. Append(d, x) \in Seq(S) /\ s \o d \in Seq(S) /\ s \o Append(d, x) \in Seq(S)
  OBVIOUS
<1>2. Len(s \o Append(d, x)) = Len(Append(s \o d, x))
  OBVIOUS
<1>3. ASSUME NEW i \in 1..Len(s \o Append(d, x))
      PROVE  (s \o Append(d, x))[i] = Append(s \o d, x)[i]
  OBVIOUS
<1> QED
  BY <1>1, <1>2, <1>3

\* The next number extends the account of the messages.
LEMMA QueueLast ==
  ASSUME NEW n \in Nat, NEW s \in Seq(1..n), NEW d \in Seq(1..n),
         s \o d = [i \in 1..n |-> i]
  PROVE  /\ s \in Seq(1..(n + 1)) /\ Append(d, n + 1) \in Seq(1..(n + 1))
         /\ s \o Append(d, n + 1) = [i \in 1..(n + 1) |-> i]
<1>1. s \in Seq(1..(n + 1)) /\ d \in Seq(1..(n + 1)) /\ n + 1 \in 1..(n + 1)
  OBVIOUS
<1>2. /\ Append(d, n + 1) \in Seq(1..(n + 1))
      /\ s \o Append(d, n + 1) = Append(s \o d, n + 1)
  BY ONLY <1>1, AppendLast
<1>3. Append([i \in 1..n |-> i], n + 1) = [i \in 1..(n + 1) |-> i]
  OBVIOUS
<1> QED
  BY <1>1, <1>2, <1>3

\* What is left of a stack when its top is popped.
LEMMA Popped ==
  ASSUME NEW S, NEW s \in Seq(S), Len(s) > 0
  PROVE  /\ Len(SubSeq(s, 1, Len(s) - 1)) = Len(s) - 1
         /\ \A i \in 1..(Len(s) - 1) : SubSeq(s, 1, Len(s) - 1)[i] = s[i]
<1>1. PICK n \in Nat : n = Len(s) - 1
  OBVIOUS
<1>2. Len(SubSeq(s, 1, n)) = n
  BY <1>1
<1>3. ASSUME NEW i \in 1..n PROVE SubSeq(s, 1, n)[i] = s[i]
  BY <1>1
<1> QED
  BY <1>1, <1>2, <1>3

\* A state that is not busy is leased by nobody on the stack.
LEMMA NotBusy ==
  ASSUME SlotInv, StackInv, window = "Published", ~is_busy
  PROVE  leases = {} /\ \A i \in 1..Depth : stack[i] # "Handler"
  BY DEF SlotInv, SlotTypeOK, StatusAccounts, ReclaimedExactlyOnce, is_busy, StackInv

\* Every step keeps the leases those of the handlers, and boxes above them away.
LEMMA StackInvStep ==
  ASSUME SlotInv, StackInv, SlotInv', [Next]_vars
  PROVE  StackInv'
<1>1. StackOK'
  BY StackStep DEF StackInv
<1>2. Depth \in Nat /\ StackOK
  BY DEF StackInv, StackOK, Depth
<1> USE <1>1, <1>2 DEF StackInv, StackOK, BoxesOutsideLeases, Depth, Top, Entered, Frame
<1>3. CASE Callback
  <2>1. CASE Entered("Handler") /\ try_lease(Depth + 1)
    <3>1. /\ Len(stack') = Len(stack) + 1 /\ stack'[Len(stack) + 1] = "Handler"
          /\ \A i \in 1..Len(stack) : stack'[i] = stack[i]
      BY <2>1
    <3>2. leases' = leases \cup {Len(stack) + 1} /\ window' = window /\ window = "Published"
      BY <2>1 DEF try_lease
    <3>3. \A i \in 1..Depth' : stack'[i] = "Handler" <=> i \in leases'
      BY <3>1, <3>2
    <3>4. \A l \in leases' : l \in 1..Depth'
      BY <3>1, <3>2
    <3>5. BoxesOutsideLeases'
      BY <3>1, <3>2
    <3> QED
      BY <3>1, <3>2, <3>3, <3>4, <3>5
  <2>2. CASE Entered("Open") /\ UNCHANGED slotVars
    BY <1>3, <2>2 DEF Callback, Delivered, slotVars
  <2> QED
    BY <1>3, <2>1, <2>2 DEF Callback
<1>4. CASE ReleaseLease
  BY <1>4 DEF ReleaseLease, drop_lease
<1>5. CASE TakeLeaseAgain
  <2>1. /\ Len(stack) > 0 /\ Len(stack') = Len(stack) /\ stack'[Len(stack)] = "Handler"
        /\ \A i \in 1..(Len(stack) - 1) : stack'[i] = stack[i]
    BY <1>5 DEF TakeLeaseAgain
  <2>2. leases' = leases \cup {Len(stack)} /\ window' = window /\ window = "Published"
    BY <1>5 DEF TakeLeaseAgain, try_lease
  <2>3. \A i \in 1..Depth' : stack'[i] = "Handler" <=> i \in leases'
    BY <2>1, <2>2
  <2>4. \A l \in leases' : l \in 1..Depth'
    BY <2>1, <2>2
  <2>5. BoxesOutsideLeases'
    BY <2>1, <2>2
  <2> QED
    BY <2>1, <2>2, <2>3, <2>4, <2>5
<1>6. CASE Return
  <2>0. Len(stack) > 0 /\ stack' = SubSeq(stack, 1, Len(stack) - 1)
    BY <1>6 DEF Return
  <2>1. CASE Top = "Handler" /\ drop_lease(Depth)
    <3>1. /\ Len(stack) > 0 /\ Len(stack') = Len(stack) - 1
          /\ \A i \in 1..(Len(stack) - 1) : stack'[i] = stack[i]
      BY <2>0, Popped
    <3>2. leases' = leases \ {Len(stack)} /\ window' = window
      BY <2>1 DEF drop_lease
    <3>3. \A i \in 1..Depth' : stack'[i] = "Handler" <=> i \in leases'
      BY <3>1, <3>2
    <3>4. \A l \in leases' : l \in 1..Depth'
      BY <3>1, <3>2
    <3>5. BoxesOutsideLeases'
      BY <3>1, <3>2
    <3> QED
      BY <3>1, <3>2, <3>3, <3>4, <3>5
  <2>2. CASE Top # "Handler" /\ UNCHANGED slotVars
    <3>1. /\ Len(stack) > 0 /\ Len(stack') = Len(stack) - 1
          /\ \A i \in 1..(Len(stack) - 1) : stack'[i] = stack[i]
      BY <2>0, Popped
    <3> QED
      BY <3>1, <2>2 DEF slotVars
  <2> QED
    BY <1>6, <2>1, <2>2 DEF Return
<1>7. ASSUME Entered("Box") \/ Entered("Notice"), window = "Published", ~is_busy,
             UNCHANGED slotVars
      PROVE  StackInv'
  BY <1>7, NotBusy DEF slotVars
<1>8. ASSUME UNCHANGED <<stack, leases>>, window' # "Creating" \/ UNCHANGED window PROVE StackInv'
  BY <1>8
<1>9. CASE Report
  BY <1>7, <1>8, <1>9 DEF Report, Defers, slotVars
<1>10. CASE DeferredWake \/ DeferredTimer
  BY <1>7, <1>8, <1>10 DEF DeferredWake, DeferredTimer, Drain, Delivered, slotVars
<1>11. CASE NextBox \/ DestroyWindow \/ CreateWindow \/ StartRun \/ StartFails
  BY <1>8, <1>11 DEF NextBox, DestroyWindow, CreateWindow, StartRun, StartFails, slotVars,
       request_reclaim, Adopt, CreateFails, hold_reclaim
<1>12. CASE IconThreadEnds \/ LeaveLoop \/ EndRun \/ Finished \/ UNCHANGED vars
  BY <1>8, <1>12 DEF IconThreadEnds, LeaveLoop, EndRun, Finished, vars, slotVars,
       release_reclaim_hold
<1> QED
  BY <1>3, <1>4, <1>5, <1>6, <1>9, <1>10, <1>11, <1>12 DEF Next

\* A wake that is scheduled, or lost, keeps its variables in their bounds.
LEMMA WakeTyped ==
  ASSUME wake \in BOOLEAN, timer \in BOOLEAN, faults \in 0..MaxFaults,
         NEW lost \in 0..2, schedule_deferred_message_wake(lost)
  PROVE  wake' \in BOOLEAN /\ timer' \in BOOLEAN /\ faults' \in 0..MaxFaults
<1>1. faults' \in 0..MaxFaults
  BY WindowCallbacksAssumption DEF schedule_deferred_message_wake
<1>2. wake' \in BOOLEAN /\ timer' \in BOOLEAN
  BY Zenon DEF schedule_deferred_message_wake
<1> QED
  BY <1>1, <1>2

\* Every step keeps the account of the deferred messages.
LEMMA MessageInvStep ==
  ASSUME SlotInv, MessageInv, [Next]_vars
  PROVE  MessageInv'
<1>1. ASSUME UNCHANGED messageVars, UNCHANGED window PROVE MessageInv'
  BY <1>1 DEF MessageInv, NoReportLost, messageVars
<1>2. ASSUME UNCHANGED <<deferred, shown, issued, window>>,
             wake' \in BOOLEAN, timer' \in BOOLEAN, faults' \in 0..MaxFaults
      PROVE  MessageInv'
  BY <1>2 DEF MessageInv, NoReportLost
<1>3. ASSUME window = "Published", deferred # <<>>,
             shown' = Append(shown, Head(deferred)), deferred' = Tail(deferred),
             UNCHANGED <<issued, window>>,
             wake' \in BOOLEAN, timer' \in BOOLEAN, faults' \in 0..MaxFaults
      PROVE  MessageInv'
  <2>1. /\ shown' \in Seq(1..issued) /\ deferred' \in Seq(1..issued)
        /\ shown' \o deferred' = shown \o deferred
    <3>1. shown \in Seq(1..issued) /\ deferred \in Seq(1..issued) /\ deferred # <<>>
      BY <1>3 DEF MessageInv
    <3>2. /\ Append(shown, Head(deferred)) \in Seq(1..issued) /\ Tail(deferred) \in Seq(1..issued)
          /\ Append(shown, Head(deferred)) \o Tail(deferred) = shown \o deferred
      BY ONLY <3>1, MoveHead
    <3> QED
      BY <1>3, <3>2
  <2> QED
    BY <1>3, <2>1 DEF MessageInv, NoReportLost
<1>4. ASSUME window \in {"Published", "Gone"}, window' = "Gone", deferred' = <<>>, wake' = FALSE, timer' = FALSE,
             UNCHANGED <<shown, issued, faults>>
      PROVE  MessageInv'
  <2>1. wake' \in BOOLEAN /\ timer' \in BOOLEAN
    BY <1>4, Zenon
  <2> QED
    BY <1>4, <2>1 DEF MessageInv, NoReportLost
<1>5. CASE Callback
  <2>1. UNCHANGED <<deferred, shown, issued, window>>
    BY <1>5 DEF Callback, try_lease, slotVars
  <2>2. wake' \in BOOLEAN /\ timer' \in BOOLEAN /\ faults' \in 0..MaxFaults
    <3>1. CASE NothingScheduled
      BY <3>1 DEF NothingScheduled, MessageInv
    <3>2. CASE \E lost \in 0..2 : schedule_deferred_message_wake(lost)
      BY <3>2, WakeTyped DEF MessageInv
    <3> QED
      BY <1>5, <3>1, <3>2 DEF Callback, RetryWake
  <2> QED
    BY <1>2, <2>1, <2>2
<1>6. CASE ReleaseLease \/ TakeLeaseAgain \/ Return
  BY <1>1, <1>6 DEF ReleaseLease, TakeLeaseAgain, Return, drop_lease, try_lease, slotVars
<1>7. CASE Report
  <2>1. CASE Defers
    <3>1. PICK lost \in 0..2 : deferred' = Queued(lost) /\ schedule_deferred_message_wake(lost)
      BY <1>7, <2>1 DEF Report
    <3>2. wake' \in BOOLEAN /\ timer' \in BOOLEAN /\ faults' \in 0..MaxFaults
      BY <3>1, WakeTyped DEF MessageInv
    <3>3. /\ window = "Published" /\ window' = window /\ issued < MaxReports
          /\ issued' = issued + 1 /\ shown' = shown /\ deferred' = Append(deferred, issued + 1)
      BY <1>7, <2>1, <3>1 DEF Report, Defers, is_busy, slotVars, Queued
    <3>4. /\ issued \in Nat /\ shown \in Seq(1..issued) /\ deferred \in Seq(1..issued)
          /\ shown \o deferred = [i \in 1..issued |-> i]
      BY <3>3, WindowCallbacksAssumption DEF MessageInv, NoReportLost
    <3>5. /\ shown' \in Seq(1..issued') /\ deferred' \in Seq(1..issued')
          /\ shown' \o deferred' = [i \in 1..issued' |-> i]
      BY <3>3, <3>4, QueueLast
    <3>6. issued' \in 0..MaxReports
      BY <3>3, <3>4, WindowCallbacksAssumption
    <3> QED
      BY <3>2, <3>3, <3>5, <3>6 DEF MessageInv, NoReportLost
  <2>2. CASE ~Defers
    BY <1>1, <1>7, <2>2 DEF Report, slotVars
  <2> QED
    BY <2>1, <2>2
<1>8. CASE DeferredWake
  <2>1. window = "Published" /\ UNCHANGED <<issued, window>>
    BY <1>8 DEF DeferredWake, Delivered, slotVars
  <2>2. wake' \in BOOLEAN /\ timer' \in BOOLEAN
    BY <1>8, Zenon DEF DeferredWake, MessageInv
  <2>3. faults' \in 0..MaxFaults
    BY <1>8, WindowCallbacksAssumption DEF DeferredWake, MessageInv
  <2>4. \/ UNCHANGED <<deferred, shown>>
        \/ deferred # <<>> /\ shown' = Append(shown, Head(deferred)) /\ deferred' = Tail(deferred)
    BY <1>8 DEF DeferredWake, Drain, MayDrain
  <2> QED
    BY <1>2, <1>3, <2>1, <2>2, <2>3, <2>4
<1>9. CASE DeferredTimer
  <2>1. window = "Published" /\ UNCHANGED <<issued, window>>
    BY <1>9 DEF DeferredTimer, Delivered, slotVars
  <2>2. wake' \in BOOLEAN /\ timer' \in BOOLEAN
    BY <1>9, Zenon DEF DeferredTimer, MessageInv
  <2>3. faults' \in 0..MaxFaults
    BY <1>9 DEF DeferredTimer, MessageInv
  <2>4. \/ UNCHANGED <<deferred, shown>>
        \/ deferred # <<>> /\ shown' = Append(shown, Head(deferred)) /\ deferred' = Tail(deferred)
    BY <1>9 DEF DeferredTimer, Drain, MayDrain
  <2> QED
    BY <1>2, <1>3, <2>1, <2>2, <2>3, <2>4
<1>10. CASE NextBox
  <2>1. window = "Published"
    BY <1>10 DEF NextBox, MessageInv, SlotInv, SlotTypeOK
  <2>2. wake' \in BOOLEAN /\ timer' \in BOOLEAN /\ faults' \in 0..MaxFaults
    BY <1>10 DEF NextBox, MessageInv
  <2> QED
    BY <1>3, <1>10, <2>1, <2>2 DEF NextBox, slotVars
<1>11. CASE DestroyWindow
  BY <1>4, <1>11 DEF DestroyWindow, request_reclaim, discard_deferred_messages
<1>12. CASE StartFails
  BY <1>4, <1>12 DEF StartFails, request_reclaim, discard_deferred_messages, slotVars
<1>13. CASE CreateWindow
  <2>1. window = "Creating" /\ UNCHANGED messageVars /\ window' \in {"Published", "Gone"}
    BY <1>13 DEF CreateWindow, Adopt, CreateFails
  <2>2. issued = 0 /\ deferred = <<>> /\ shown = <<>>
    BY <2>1 DEF MessageInv
  <2>3. shown \o deferred = [i \in 1..issued |-> i]
    BY <2>2
  <2> QED
    BY <2>1, <2>2, <2>3 DEF MessageInv, NoReportLost, messageVars
<1>14. CASE StartRun \/ IconThreadEnds \/ LeaveLoop \/ EndRun \/ Finished \/ UNCHANGED vars
  BY <1>1, <1>14 DEF StartRun, IconThreadEnds, LeaveLoop, EndRun, Finished, vars, slotVars,
       hold_reclaim, release_reclaim_hold
<1> QED
  BY <1>5, <1>6, <1>7, <1>8, <1>9, <1>10, <1>11, <1>12, <1>13, <1>14 DEF Next

\* Every step keeps the order in which the run scope ends.
LEMMA ScopeInvStep ==
  ASSUME SlotInv, StackInv, ScopeInv, [Next]_vars
  PROVE  ScopeInv'
<1>1. ASSUME UNCHANGED <<window, hold, run, icons, registrations>>, run # "Ended" \/ UNCHANGED stack
      PROVE  ScopeInv'
  BY <1>1 DEF ScopeInv
<1>2. CASE Callback
  BY <1>1, <1>2 DEF Callback, Delivered, scopeVars, try_lease, slotVars
<1>3. CASE ReleaseLease \/ TakeLeaseAgain \/ Return \/ Report
  <2>1. run # "Ended"
    BY <1>3 DEF ReleaseLease, TakeLeaseAgain, Return, Report, ScopeInv, Depth
  <2> QED
    BY <1>1, <1>3, <2>1 DEF ReleaseLease, TakeLeaseAgain, Return, Report, scopeVars,
         drop_lease, try_lease, slotVars
<1>4. CASE DeferredWake \/ DeferredTimer \/ NextBox
  BY <1>1, <1>4 DEF DeferredWake, DeferredTimer, NextBox, Delivered, scopeVars, slotVars
<1>5. CASE DestroyWindow
  BY <1>5 DEF DestroyWindow, request_reclaim, ScopeInv, Retired
<1>6. CASE CreateWindow
  BY <1>6 DEF CreateWindow, Adopt, CreateFails, ScopeInv
<1>7. CASE StartRun
  BY <1>7 DEF StartRun, hold_reclaim, ScopeInv
<1>8. CASE StartFails
  BY <1>8 DEF StartFails, request_reclaim, slotVars, ScopeInv
<1>9. CASE IconThreadEnds \/ LeaveLoop
  BY <1>9 DEF IconThreadEnds, LeaveLoop, Retired, slotVars, ScopeInv
<1>10. CASE EndRun
  <2>1. ~hold'
    BY <1>10, Zenon DEF EndRun, release_reclaim_hold, slotVars
  <2>2. window' = window /\ UNCHANGED <<stack, icons, registrations>> /\ run' = "Ended" /\ MayEnd
    BY <1>10 DEF EndRun, release_reclaim_hold, slotVars
  <2> QED
    BY <2>1, <2>2 DEF MayEnd, ScopeInv
<1>11. CASE Finished \/ UNCHANGED vars
  BY <1>1, <1>11 DEF Finished, vars, slotVars, scopeVars
<1> QED
  BY <1>2, <1>3, <1>4, <1>5, <1>6, <1>7, <1>8, <1>9, <1>10, <1>11 DEF Next

\* The UI thread starts in the invariant and every step keeps it.
LEMMA CallbackInvInit == Init => CallbackInv
<1> SUFFICES ASSUME Init PROVE CallbackInv
  OBVIOUS
<1>1. SlotInv /\ window = "Creating" /\ leases = {}
  BY SlotInitInv DEF Init, SlotInit
<1>2. stack = <<>> /\ Depth = 0
  BY DEF Init, Depth
<1>3. StackInv
  BY <1>1, <1>2, WindowCallbacksAssumption DEF StackInv, StackOK, BoxesOutsideLeases
<1>4. wake \in BOOLEAN /\ timer \in BOOLEAN
  BY Zenon DEF Init
<1>5. MessageInv
  BY <1>1, <1>4, WindowCallbacksAssumption DEF Init, MessageInv, NoReportLost
<1>6. ScopeInv
  BY <1>1 DEF Init, ScopeInv
<1> QED
  BY <1>1, <1>3, <1>5, <1>6 DEF CallbackInv

LEMMA CallbackInvStep == CallbackInv /\ [Next]_vars => CallbackInv'
<1> SUFFICES ASSUME CallbackInv, [Next]_vars PROVE CallbackInv'
  OBVIOUS
<1>1. SlotInv'
  BY CallbackStep, SlotNextInv DEF CallbackInv, StackInv
<1> QED
  BY <1>1, StackInvStep, MessageInvStep, ScopeInvStep DEF CallbackInv

\* Whatever the nesting of window procedures and wherever the window is
\* destroyed: one lease at a time, every deferred warning queued or shown and in
\* order, no box over a lease, and nothing that outlives the run.
THEOREM CallbacksKeepReports == Spec => []CallbacksSafe
<1>1. ASSUME CallbackInv PROVE CallbacksSafe
  <2>1. TypeOK
    BY <1>1 DEF CallbackInv, TypeOK, SlotInv, StackInv, StackOK, MessageInv, ScopeInv, Depth
  <2>2. NothingOutlivesRun
    <3> SUFFICES ASSUME run = "Ended"
                 PROVE  freed = 1 /\ icons \in {"None", "Joined"} /\ registrations # "Installed"
      BY DEF NothingOutlivesRun
    <3>1. stack = <<>> /\ ~hold /\ window = "Gone"
      BY <1>1 DEF CallbackInv, ScopeInv
    <3>2. leases = {}
      BY <1>1, <3>1 DEF CallbackInv, StackInv, Depth
    <3> QED
      BY <1>1, <3>1, <3>2 DEF CallbackInv, ScopeInv, SlotInv, ReclaimedExactlyOnce
  <2> QED
    BY <1>1, <2>1, <2>2 DEF CallbacksSafe, CallbackInv, SlotInv, StackInv, MessageInv
<1> QED
  BY <1>1, CallbackInvInit, CallbackInvStep, PTL DEF Spec

\* A window that is gone shows no deferred message any more.
THEOREM NoBoxAfterGone == Spec => [][NoBoxAfterDestroy]_vars
<1>1. ASSUME CallbackInv, [Next]_vars PROVE NoBoxAfterDestroy
  <2> SUFFICES ASSUME window = "Gone" PROVE shown' = shown
    BY DEF NoBoxAfterDestroy
  <2>1. deferred = <<>> /\ ~Delivered
    BY <1>1 DEF CallbackInv, MessageInv, Delivered
  <2> QED
    BY <1>1, <2>1
       DEF Next, vars, messageVars, Callback, ReleaseLease, TakeLeaseAgain, Return, Report,
           DeferredWake, DeferredTimer, NextBox, DestroyWindow, CreateWindow, StartRun,
           StartFails, IconThreadEnds, LeaveLoop, EndRun, Finished
<1> QED
  BY <1>1, CallbackInvInit, CallbackInvStep, PTL DEF Spec
=============================================================================
