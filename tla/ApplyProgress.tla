--------------------------- MODULE ApplyProgress ----------------------------
(***************************************************************************)
(* What the Apply worker tells the window and what the window tells the    *)
(* worker: the coalesced progress handoff of ApplyProgress, the wake that  *)
(* PostMessageW can lose, the 100 ms poll timer behind it, and the Cancel  *)
(* button. The worker runs the control skeleton of execute_with_control;   *)
(* its journal and its renames are the subject of Executor.                *)
(***************************************************************************)
EXTENDS Naturals, TLAPS

CONSTANTS
  Steps,      \* steps of the schedule
  MaxLost     \* bound on lost PostMessageW calls

ApplyProgressAssumption == Steps \in Nat \ {0} /\ MaxLost \in Nat

VARIABLES
  pc,         \* where execute_with_control is
  completed,  \* completed steps of the current direction
  total,      \* steps of the current direction
  snapshot, wake_pending,   \* ProgressState, under its lock
  posting,    \* publish() released the lock and still has to post
  wakes,      \* WM_APP_APPLY_PROGRESS messages in the queue
  lost,       \* posts that failed
  cancel,     \* CANCEL_REQUESTED
  before,     \* history: it was requested before a finishing phase was published
  asking,     \* the UI thread found Cancel enabled and has yet to request it
  present,    \* state.apply_worker is Some
  shown,      \* the update handle_apply_progress took last
  button      \* CancelControlState of the Cancel button

workerVars == <<pc, completed, total>>
handoffVars == <<snapshot, wake_pending, posting, wakes, lost>>
uiVars == <<cancel, before, asking, present, shown, button>>
vars == <<workerVars, handoffVars, uiVars>>

Phase == {"Ready", "Forward", "Rollback", "Finalizing", "Terminal"}
Finishing == {"Rollback", "Finalizing", "Terminal"}
Progress(phase, c, t) == [phase |-> phase, completed |-> c, total |-> t]
Ended == {"Committed", "RolledBack", "Refused", "RecoveryRequired"}

TypeOK ==
  /\ pc \in {"Prepare", "Begin", "Step", "Finalize", "Commit", "Undo"} \cup Ended
  /\ completed \in 0..Steps /\ total \in 0..Steps
  /\ snapshot \in [phase : Phase, completed : 0..Steps, total : 0..Steps]
  /\ shown \in [phase : Phase, completed : 0..Steps, total : 0..Steps]
  /\ wake_pending \in BOOLEAN /\ posting \in BOOLEAN
  /\ wakes \in Nat /\ lost \in 0..MaxLost
  /\ cancel \in BOOLEAN /\ before \in BOOLEAN /\ asking \in BOOLEAN /\ present \in BOOLEAN
  /\ button \in {"Hidden", "Enabled", "Requested", "Unavailable"}

\* ApplyProgress::publish: true when the caller has to post a wake.
publish(p) ==
  /\ snapshot' = p
  /\ posting' = ~wake_pending
  /\ wake_pending' = TRUE
  /\ UNCHANGED <<wakes, lost>>

is_finishing == snapshot.phase \in Finishing

-----------------------------------------------------------------------------
(***************************************************************************)
(* The worker thread. It can only go on once a due wake has been posted.   *)
(***************************************************************************)
Running(label) == pc = label /\ ~posting

\* WorkerProgress::post
PostWake ==
  /\ posting
  /\ posting' = FALSE
  /\ \/ wakes' = wakes + 1 /\ lost' = lost
     \/ lost < MaxLost /\ lost' = lost + 1 /\ wakes' = wakes
  /\ UNCHANGED <<snapshot, wake_pending, workerVars, uiVars>>

\* Everything up to Ready; cancelled or refused before the journal begins.
Prepare ==
  /\ Running("Prepare")
  /\ UNCHANGED uiVars
  /\ \/ pc' = "Refused" /\ UNCHANGED <<completed, total, handoffVars>>
     \/ /\ ~cancel
        /\ pc' = "Begin" /\ total' = Steps /\ UNCHANGED completed
        /\ publish(Progress("Ready", 0, Steps))

\* begin_transaction and Journal::begin
Begin ==
  /\ Running("Begin")
  /\ \/ pc' \in {"Refused", "RecoveryRequired"}
     \/ ~cancel /\ pc' = "Step"
  /\ UNCHANGED <<completed, total, handoffVars, uiVars>>

\* The forward loop: cancellation is read between complete steps only.
ForwardStep ==
  /\ Running("Step") /\ ~cancel /\ completed < Steps
  /\ completed' = completed + 1
  /\ publish(Progress("Forward", completed + 1, Steps))
  /\ UNCHANGED <<pc, total, uiVars>>

\* rollback() starts: after a failed step, or when a check finds the request.
StartRollback ==
  /\ Running("Step") \/ (Running("Finalize") /\ cancel)
  /\ pc' = "Undo" /\ total' = completed /\ completed' = 0
  /\ publish(Progress("Rollback", 0, completed))
  /\ UNCHANGED uiVars

\* Mutant: the token is not looked at again after the last step.
EnterFinalizingUnchecked ==
  /\ Running("Step") /\ completed = Steps
  /\ pc' = "Commit" /\ UNCHANGED <<completed, total>>
  /\ publish(Progress("Finalizing", Steps, Steps))
  /\ UNCHANGED uiVars

EnterFinalizing ==
  /\ Running("Step") /\ completed = Steps
  /\ pc' = "Finalize" /\ UNCHANGED <<completed, total>>
  /\ publish(Progress("Finalizing", Steps, Steps))
  /\ UNCHANGED uiVars

\* The last look at the token finds no request.
LastCheck ==
  /\ Running("Finalize") /\ ~cancel
  /\ pc' = "Commit"
  /\ UNCHANGED <<completed, total, handoffVars, uiVars>>

RollbackStep ==
  /\ Running("Undo") /\ completed < total
  /\ completed' = completed + 1
  /\ publish(Progress("Rollback", completed + 1, total))
  /\ UNCHANGED <<pc, total, uiVars>>

\* The terminal record is durable.
Terminal ==
  /\ \/ Running("Commit") /\ pc' = "Committed"
     \/ Running("Undo") /\ completed = total /\ pc' = "RolledBack"
  /\ publish(Progress("Terminal", total, total))
  /\ UNCHANGED <<completed, total, uiVars>>

\* A journal or backend failure ends the run without a terminal record.
Fail ==
  /\ \E label \in {"Step", "Commit", "Undo"} : Running(label)
  /\ pc' = "RecoveryRequired"
  /\ UNCHANGED <<completed, total, handoffVars, uiVars>>

-----------------------------------------------------------------------------
(***************************************************************************)
(* The UI thread.                                                          *)
(***************************************************************************)
\* cancel_control_state(worker_activity()) of the worker as it is now.
cancel_control_state(there, requested) ==
  IF ~there THEN "Hidden"
  ELSE IF is_finishing THEN "Unavailable"
  ELSE IF requested THEN "Requested"
  ELSE "Enabled"

\* take_update, the status line, and the button once the worker is finishing.
handle_apply_progress ==
  /\ present
  /\ wake_pending' = FALSE
  /\ shown' = snapshot
  /\ button' = IF snapshot.phase \in Finishing
               THEN cancel_control_state(present, cancel) ELSE button
  /\ UNCHANGED <<snapshot, posting, lost, workerVars, cancel, before, asking, present>>

WakeMessage == ~asking /\ wakes > 0 /\ wakes' = wakes - 1 /\ handle_apply_progress

\* APPLY_POLL_TIMER_ID while the thread runs
PollTimer == ~asking /\ pc \notin Ended /\ handle_apply_progress /\ UNCHANGED wakes

\* A wake that arrives after the worker was taken from AppState.
StaleWake ==
  /\ ~asking /\ ~present /\ wakes > 0
  /\ wakes' = wakes - 1
  /\ UNCHANGED <<snapshot, wake_pending, posting, lost, workerVars, uiVars>>

\* The Cancel button, or a close: the worker is looked at, then the request
\* stored. The worker thread can run in between.
AskCancel ==
  /\ present /\ ~asking
  /\ cancel_control_state(present, cancel) = "Enabled"
  /\ asking' = TRUE
  /\ UNCHANGED <<workerVars, handoffVars, cancel, before, present, shown, button>>

RequestCancel ==
  /\ asking
  /\ asking' = FALSE /\ cancel' = TRUE
  /\ before' = ~is_finishing
  /\ button' = cancel_control_state(present, TRUE)
  /\ UNCHANGED <<workerVars, handoffVars, present, shown>>

\* handle_apply_completion, on its message or on the timer, which takes the
\* last update first
Completion ==
  /\ present /\ ~asking
  /\ pc \in Ended /\ ~posting
  /\ present' = FALSE
  /\ button' = cancel_control_state(FALSE, cancel)
  /\ \/ UNCHANGED <<wake_pending, shown>>
     \/ wake_pending' = FALSE /\ shown' = snapshot
  /\ UNCHANGED <<workerVars, snapshot, posting, wakes, lost, cancel, before, asking>>

Over == pc \in Ended /\ ~present /\ wakes = 0 /\ UNCHANGED vars

Init ==
  /\ pc = "Prepare" /\ completed = 0 /\ total = 0
  /\ snapshot = Progress("Ready", 0, 0) /\ wake_pending = FALSE
  /\ posting = FALSE /\ wakes = 0 /\ lost = 0
  /\ cancel = FALSE /\ before = FALSE /\ asking = FALSE /\ present = TRUE
  /\ shown = Progress("Ready", 0, 0) /\ button = "Enabled"

Worker == \/ PostWake \/ Prepare \/ Begin \/ ForwardStep \/ StartRollback
          \/ EnterFinalizing \/ LastCheck \/ RollbackStep \/ Terminal \/ Fail

Next == \/ Worker
        \/ WakeMessage \/ PollTimer \/ StaleWake
        \/ AskCancel \/ RequestCancel \/ Completion
        \/ Over

Spec == Init /\ [][Next]_vars

-----------------------------------------------------------------------------
(***************************************************************************)
(* An update the status line does not show yet still has its wake pending, *)
(* so no coalesced publication is swallowed by the read of an older one    *)
(* (the comment of take_update).                                           *)
(***************************************************************************)
BehindMeansPending == shown # snapshot => wake_pending

(***************************************************************************)
(* A pending wake is in the queue, on its way there, or was lost: publish  *)
(* never counts on a message that nobody posts.                            *)
(***************************************************************************)
PendingIsPosted == present /\ wake_pending => wakes > 0 \/ posting \/ lost > 0

(***************************************************************************)
(* A cancellation stored before the worker published a finishing phase is  *)
(* never followed by a commit: Finalizing is published before the last     *)
(* look at the token.                                                      *)
(***************************************************************************)
EarlyCancelNeverCommits == before => pc # "Committed"

(***************************************************************************)
(* Once the status line says that the worker is undoing or finishing, the  *)
(* Cancel button no longer invites a request that cannot be honoured.      *)
(***************************************************************************)
NoCancelOffered == shown.phase \in Finishing => button # "Enabled"

\* The order in which one run can publish.
Rank(p) ==
  CASE p.phase = "Ready"      -> IF p.total = 0 THEN 0 ELSE 1
    [] p.phase = "Forward"    -> 1 + p.completed
    [] p.phase = "Finalizing" -> 2 + Steps
    [] p.phase = "Rollback"   -> 3 + Steps + p.completed
    [] p.phase = "Terminal"   -> 4 + 2 * Steps

(***************************************************************************)
(* The progress the user sees never goes back, although updates are taken  *)
(* by a message and by a timer, late and coalesced.                        *)
(***************************************************************************)
ShownNeverGoesBack == Rank(shown') >= Rank(shown)


-----------------------------------------------------------------------------
(***************************************************************************)
(* What the worker published last tells where it is.                       *)
(***************************************************************************)
SnapshotFits ==
  /\ pc = "Prepare" => /\ snapshot = Progress("Ready", 0, 0)
                       /\ completed = 0
  /\ pc = "Begin" => snapshot = Progress("Ready", 0, Steps) /\ completed = 0
  /\ pc = "Step" =>
       \/ snapshot = Progress("Ready", 0, Steps) /\ completed = 0
       \/ snapshot = Progress("Forward", completed, Steps)
  /\ pc \in {"Finalize", "Commit"} =>
       /\ snapshot = Progress("Finalizing", Steps, Steps)
       /\ completed = Steps /\ total = Steps
  /\ pc \in {"Begin", "Step"} => total = Steps
  /\ pc = "Undo" => snapshot = Progress("Rollback", completed, total)
  /\ pc = "Committed" => snapshot.phase = "Terminal"

\* A request that came in time is still seen by every later look at the token.
EarlyCancelStands == before => cancel /\ pc \notin {"Commit", "Committed"}

ShownIsOlder == Rank(shown) <= Rank(snapshot)

ProgressInv ==
  /\ TypeOK /\ BehindMeansPending /\ PendingIsPosted /\ NoCancelOffered
  /\ SnapshotFits /\ EarlyCancelStands /\ ShownIsOlder

\* The values that are published.
Update == [phase : Phase, completed : 0..Steps, total : 0..Steps]

LEMMA RankIsNumber ==
  ASSUME ApplyProgressAssumption, NEW p \in Update
  PROVE  Rank(p) \in Nat
BY DEF ApplyProgressAssumption, Update, Phase, Rank

(***************************************************************************)
(* A publication of later progress keeps the handoff sound: the new update *)
(* is behind a wake, and ranks above what is shown.                        *)
(***************************************************************************)
LEMMA Published ==
  ASSUME ApplyProgressAssumption, ProgressInv, NEW p \in Update,
         publish(p), ~posting, Rank(snapshot) <= Rank(p),
         UNCHANGED <<shown, present, button>>
  PROVE  /\ snapshot' \in Update /\ wake_pending' \in BOOLEAN /\ posting' \in BOOLEAN
         /\ wakes' = wakes /\ lost' = lost
         /\ BehindMeansPending' /\ PendingIsPosted' /\ NoCancelOffered' /\ ShownIsOlder'
<1>1. Rank(shown) \in Nat /\ Rank(snapshot) \in Nat /\ Rank(p) \in Nat
  BY RankIsNumber DEF ProgressInv, TypeOK, Update
<1>2. ShownIsOlder'
  BY <1>1 DEF ProgressInv, ShownIsOlder, publish
<1>3. PendingIsPosted'
  BY DEF ProgressInv, PendingIsPosted, publish, TypeOK
<1>. QED  BY <1>2, <1>3 DEF ProgressInv, publish, BehindMeansPending, NoCancelOffered, TypeOK

(***************************************************************************)
(* The UI thread takes the last update.                                    *)
(***************************************************************************)
LEMMA Taken ==
  ASSUME ApplyProgressAssumption, ProgressInv, handle_apply_progress,
         wakes' \in Nat
  PROVE  ProgressInv'
<1>1. TypeOK'
  BY DEF ProgressInv, TypeOK, handle_apply_progress, workerVars, cancel_control_state
<1>2. Rank(snapshot) \in Nat
  BY RankIsNumber DEF ProgressInv, TypeOK, Update
<1>3. ShownIsOlder'
  BY <1>2 DEF handle_apply_progress, ShownIsOlder
<1>4. NoCancelOffered'
  BY DEF ProgressInv, handle_apply_progress, NoCancelOffered, cancel_control_state, is_finishing
<1>5. SnapshotFits' /\ EarlyCancelStands'
  BY DEF ProgressInv, handle_apply_progress, SnapshotFits, EarlyCancelStands, workerVars
<1>. QED
  BY <1>1, <1>3, <1>4, <1>5
  DEF ProgressInv, handle_apply_progress, BehindMeansPending, PendingIsPosted

LEMMA ProgressInvInit == ASSUME ApplyProgressAssumption, Init PROVE ProgressInv
<1>. USE DEF Init
<1>0. Steps \in Nat /\ MaxLost \in Nat
  BY DEF ApplyProgressAssumption
<1>1. TypeOK
  <2>1. Progress("Ready", 0, 0) \in [phase : Phase, completed : 0..Steps, total : 0..Steps]
    BY <1>0 DEF Progress, Phase
  <2>2. lost \in 0..MaxLost /\ wakes \in Nat /\ completed \in 0..Steps /\ total \in 0..Steps
    BY <1>0
  <2>. QED  BY <2>1, <2>2, Zenon DEF TypeOK
<1>2. Rank(snapshot) \in Nat
  BY <1>1, RankIsNumber DEF TypeOK, Update
<1>3. ShownIsOlder
  BY <1>2 DEF ShownIsOlder
<1>4. SnapshotFits /\ EarlyCancelStands
  BY DEF SnapshotFits, EarlyCancelStands
<1>. QED
  BY <1>1, <1>3, <1>4
  DEF ProgressInv, BehindMeansPending, PendingIsPosted, NoCancelOffered, Finishing, Progress

\* The conjuncts that no step without a publication or a read disturbs.
HandoffKept ==
  /\ BehindMeansPending' /\ PendingIsPosted' /\ NoCancelOffered' /\ ShownIsOlder'

LEMMA HandoffAlone ==
  ASSUME ProgressInv,
         UNCHANGED <<snapshot, wake_pending, posting, wakes, lost, shown, present, button>>
  PROVE  HandoffKept
BY DEF ProgressInv, HandoffKept, BehindMeansPending, PendingIsPosted, NoCancelOffered,
  ShownIsOlder

(***************************************************************************)
(* The steps of the worker, of the window, and all of them.                *)
(***************************************************************************)
LEMMA WorkerKeeps ==
  ASSUME ApplyProgressAssumption, ProgressInv, Worker
  PROVE  ProgressInv'
<1>. USE DEF ProgressInv
<1>0. Steps \in Nat \ {0} /\ MaxLost \in Nat
  BY DEF ApplyProgressAssumption
<1>1. CASE PostWake
  <2>0. wakes' \in Nat /\ lost' \in 0..MaxLost
    BY <1>0, <1>1 DEF PostWake, TypeOK
  <2>1. TypeOK'
    BY <1>1, <2>0, Zenon DEF PostWake, TypeOK, workerVars, uiVars
  <2>3. SnapshotFits' /\ EarlyCancelStands'
    BY <1>1 DEF PostWake, SnapshotFits, EarlyCancelStands, workerVars, uiVars
  <2>2. BehindMeansPending' /\ PendingIsPosted' /\ NoCancelOffered' /\ ShownIsOlder'
    BY <1>0, <1>1 DEF PostWake, BehindMeansPending, PendingIsPosted, NoCancelOffered,
      ShownIsOlder, TypeOK, uiVars
  <2>. QED  BY <2>1, <2>2, <2>3
<1>2. CASE Prepare
  <2>1. CASE pc' = "Refused" /\ UNCHANGED <<completed, total, handoffVars>>
    BY <1>2, <2>1, HandoffAlone
    DEF Prepare, Running, uiVars, handoffVars, HandoffKept, TypeOK, SnapshotFits,
      EarlyCancelStands, Ended
  <2>2. CASE /\ ~cancel
             /\ pc' = "Begin" /\ total' = Steps /\ UNCHANGED completed
             /\ publish(Progress("Ready", 0, Steps))
    <3>1. Progress("Ready", 0, Steps) \in Update
      BY <1>0 DEF Progress, Update, Phase
    <3>2. Rank(snapshot) <= Rank(Progress("Ready", 0, Steps))
      BY <1>0, <1>2 DEF Prepare, Running, SnapshotFits, Rank, Progress
    <3>. QED
      BY <1>0, <1>2, <2>2, <3>1, <3>2, Published
      DEF Prepare, Running, uiVars, Update, TypeOK, SnapshotFits, EarlyCancelStands, publish
  <2>. QED  BY <1>2, <2>1, <2>2 DEF Prepare
<1>3. CASE Begin
  BY <1>0, <1>3, HandoffAlone
  DEF Begin, Running, uiVars, handoffVars, HandoffKept, TypeOK, SnapshotFits,
    EarlyCancelStands, Ended
<1>4. CASE ForwardStep
  <2>1. Progress("Forward", completed + 1, Steps) \in Update
    BY <1>0, <1>4 DEF ForwardStep, Progress, Update, Phase, TypeOK
  <2>2. Rank(snapshot) <= Rank(Progress("Forward", completed + 1, Steps))
    BY <1>0, <1>4 DEF ForwardStep, Running, SnapshotFits, Rank, Progress, TypeOK
  <2>. QED
    BY <1>0, <1>4, <2>1, <2>2, Published
    DEF ForwardStep, Running, uiVars, Update, TypeOK, SnapshotFits, EarlyCancelStands, publish
<1>5. CASE StartRollback
  <2>1. Progress("Rollback", 0, completed) \in Update
    BY <1>0, <1>5 DEF StartRollback, Progress, Update, Phase, TypeOK
  <2>2. Rank(snapshot) <= Rank(Progress("Rollback", 0, completed))
    BY <1>0, <1>5 DEF StartRollback, Running, SnapshotFits, Rank, Progress, TypeOK
  <2>. QED
    BY <1>0, <1>5, <2>1, <2>2, Published
    DEF StartRollback, Running, uiVars, Update, TypeOK, SnapshotFits, EarlyCancelStands, publish
<1>6. CASE EnterFinalizing
  <2>1. Progress("Finalizing", Steps, Steps) \in Update
    BY <1>0 DEF Progress, Update, Phase
  <2>2. Rank(snapshot) <= Rank(Progress("Finalizing", Steps, Steps))
    BY <1>0, <1>6 DEF EnterFinalizing, Running, SnapshotFits, Rank, Progress, TypeOK
  <2>. QED
    BY <1>0, <1>6, <2>1, <2>2, Published
    DEF EnterFinalizing, Running, uiVars, Update, TypeOK, SnapshotFits, EarlyCancelStands, publish
<1>7. CASE LastCheck
  BY <1>0, <1>7, HandoffAlone
  DEF LastCheck, Running, uiVars, handoffVars, HandoffKept, TypeOK, SnapshotFits,
    EarlyCancelStands, Ended
<1>8. CASE RollbackStep
  <2>1. Progress("Rollback", completed + 1, total) \in Update
    BY <1>0, <1>8 DEF RollbackStep, Progress, Update, Phase, TypeOK
  <2>2. Rank(snapshot) <= Rank(Progress("Rollback", completed + 1, total))
    BY <1>0, <1>8 DEF RollbackStep, Running, SnapshotFits, Rank, Progress, TypeOK
  <2>. QED
    BY <1>0, <1>8, <2>1, <2>2, Published
    DEF RollbackStep, Running, uiVars, Update, TypeOK, SnapshotFits, EarlyCancelStands, publish
<1>9. CASE Terminal
  <2>1. Progress("Terminal", total, total) \in Update
    BY <1>0 DEF Progress, Update, Phase, TypeOK
  <2>2. Rank(snapshot) <= Rank(Progress("Terminal", total, total))
    BY <1>0, <1>9 DEF Terminal, Running, SnapshotFits, Rank, Progress, TypeOK
  <2>. QED
    BY <1>0, <1>9, <2>1, <2>2, Published
    DEF Terminal, Running, uiVars, Update, TypeOK, SnapshotFits, EarlyCancelStands, publish,
      Ended, Progress
<1>10. CASE Fail
  BY <1>0, <1>10, HandoffAlone
  DEF Fail, Running, uiVars, handoffVars, HandoffKept, TypeOK, SnapshotFits,
    EarlyCancelStands, Ended
<1>. QED
  BY <1>1, <1>2, <1>3, <1>4, <1>5, <1>6, <1>7, <1>8, <1>9, <1>10 DEF Worker

LEMMA WindowKeeps ==
  ASSUME ApplyProgressAssumption, ProgressInv,
         WakeMessage \/ PollTimer \/ StaleWake \/ AskCancel \/ RequestCancel \/ Completion
  PROVE  ProgressInv'
<1>1. CASE WakeMessage
  BY <1>1, Taken DEF WakeMessage, ProgressInv, TypeOK
<1>2. CASE PollTimer
  BY <1>2, Taken DEF PollTimer, ProgressInv, TypeOK
<1>3. CASE StaleWake
  BY <1>3 DEF StaleWake, workerVars, uiVars, ProgressInv, TypeOK, SnapshotFits,
    EarlyCancelStands, BehindMeansPending, PendingIsPosted, NoCancelOffered, ShownIsOlder
<1>4. CASE AskCancel
  BY <1>4 DEF AskCancel, workerVars, handoffVars, ProgressInv, TypeOK, SnapshotFits,
    EarlyCancelStands, BehindMeansPending, PendingIsPosted, NoCancelOffered, ShownIsOlder
<1>5. CASE RequestCancel
  <2>. USE <1>5 DEF RequestCancel, workerVars, handoffVars, ProgressInv
  <2>1. TypeOK'
    BY DEF TypeOK, cancel_control_state, is_finishing
  <2>2. SnapshotFits' /\ BehindMeansPending' /\ PendingIsPosted' /\ ShownIsOlder'
    BY DEF SnapshotFits, BehindMeansPending, PendingIsPosted, ShownIsOlder
  <2>0. before' => ~is_finishing
    BY Zenon
  <2>3. EarlyCancelStands'
    BY <2>0 DEF SnapshotFits, EarlyCancelStands, is_finishing, Finishing, Progress
  <2>4. NoCancelOffered'
    BY DEF NoCancelOffered, cancel_control_state
  <2>. QED  BY <2>1, <2>2, <2>3, <2>4
<1>6. CASE Completion
  <2>. USE <1>6 DEF Completion, workerVars, ProgressInv
  <2>1. Rank(snapshot) \in Nat
    BY RankIsNumber DEF TypeOK, Update
  <2>2. ShownIsOlder'
    BY <2>1 DEF ShownIsOlder
  <2>3. TypeOK'
    BY DEF TypeOK, cancel_control_state
  <2>4. SnapshotFits' /\ EarlyCancelStands'
    BY DEF SnapshotFits, EarlyCancelStands
  <2>5. BehindMeansPending' /\ PendingIsPosted'
    BY DEF BehindMeansPending, PendingIsPosted
  <2>6. NoCancelOffered'
    BY DEF NoCancelOffered, cancel_control_state
  <2>. QED  BY <2>2, <2>3, <2>4, <2>5, <2>6
<1>. QED  BY <1>1, <1>2, <1>3, <1>4, <1>5, <1>6

LEMMA ProgressStutters ==
  ASSUME ProgressInv, UNCHANGED vars
  PROVE  ProgressInv'
BY DEF vars, workerVars, handoffVars, uiVars, ProgressInv, TypeOK, SnapshotFits,
  EarlyCancelStands, BehindMeansPending, PendingIsPosted, NoCancelOffered, ShownIsOlder

LEMMA ProgressSteps ==
  ASSUME ApplyProgressAssumption, ProgressInv, [Next]_vars
  PROVE  ProgressInv'
BY WorkerKeeps, WindowKeeps, ProgressStutters DEF Next, Over

(***************************************************************************)
(* For any number of steps and of lost posts: the status line is never     *)
(* behind without a wake, publish never counts on a wake that nobody       *)
(* posts, a request stored before the worker published that it finishes    *)
(* keeps the batch from committing, and no cancel is offered after that    *)
(* (ApplyProgress, handle_apply_progress, request_cancel).                 *)
(***************************************************************************)
THEOREM ProgressAlwaysTruthful ==
  ASSUME ApplyProgressAssumption
  PROVE  Spec => [](/\ TypeOK /\ BehindMeansPending /\ PendingIsPosted
                    /\ EarlyCancelNeverCommits /\ NoCancelOffered)
<1>1. Init => ProgressInv
  BY ProgressInvInit
<1>2. ProgressInv /\ [Next]_vars => ProgressInv'
  BY ProgressSteps
<1>3. ProgressInv => /\ TypeOK /\ BehindMeansPending /\ PendingIsPosted
                     /\ EarlyCancelNeverCommits /\ NoCancelOffered
  BY DEF ProgressInv, EarlyCancelStands, EarlyCancelNeverCommits
<1>. QED  BY <1>1, <1>2, <1>3, PTL DEF Spec

(***************************************************************************)
(* For any number of steps: whatever updates a wake or the timer takes,    *)
(* late and coalesced, the progress on screen never goes back (take_update).*)
(***************************************************************************)
THEOREM ProgressNeverGoesBack ==
  ASSUME ApplyProgressAssumption
  PROVE  Spec => [][ShownNeverGoesBack]_vars
<1>1. Init => ProgressInv
  BY ProgressInvInit
<1>2. ProgressInv /\ [Next]_vars => ProgressInv'
  BY ProgressSteps
<1>3. ProgressInv /\ [Next]_vars => [ShownNeverGoesBack]_vars
  <2>. SUFFICES ASSUME ProgressInv, Next PROVE ShownNeverGoesBack
    OBVIOUS
  <2>1. Rank(shown) \in Nat /\ Rank(snapshot) \in Nat
    BY RankIsNumber DEF ProgressInv, TypeOK, Update
  <2>2. shown' \in {shown, snapshot}
    BY DEF Next, Worker, PostWake, Prepare, Begin, ForwardStep, StartRollback,
      EnterFinalizing, LastCheck, RollbackStep, Terminal, Fail, WakeMessage, PollTimer,
      StaleWake, AskCancel, RequestCancel, Completion, Over, handle_apply_progress,
      uiVars, vars
  <2>. QED  BY <2>1, <2>2 DEF ProgressInv, ShownIsOlder, ShownNeverGoesBack
<1>. QED  BY <1>1, <1>2, <1>3, PTL DEF Spec

=============================================================================
