----------------------------- MODULE Workbench ------------------------------
(***************************************************************************)
(* The main window: commands, dialogs, drops, cancellation and the close   *)
(* protocol of command_dispatch.rs, recovery_ui.rs, drag_drop.rs and       *)
(* application.rs around the worker threads.                               *)
(*                                                                         *)
(* A modal dialog runs its own message loop, so every handler can run      *)
(* while one is open; its answer is handled by an action of its own. The   *)
(* user may issue any command at any time: what keeps him out is the code. *)
(***************************************************************************)
EXTENDS Integers, FiniteSets

-----------------------------------------------------------------------------
(***************************************************************************)
(* The four worker threads of worker.rs and the handlers the UI thread     *)
(* runs when one ends, the window's message queue and its timers.          *)
(*                                                                         *)
(* A worker sends its result and posts its completion message before its   *)
(* thread is over ("Ended"); the handler takes the result only of a thread *)
(* that is over ("Finished"). A post fails when the queue is full. Equal   *)
(* messages in the queue are one: handling a duplicate changes nothing.    *)
(***************************************************************************)
-----------------------------------------------------------------------------
(***************************************************************************)
(* AppState (windows.rs) as a record s, its locks, and the dialog sessions *)
(* of command_dispatch.rs as operators that return the next record. Every  *)
(* handler of the UI thread runs to its end under the one AppState lease,  *)
(* so a handler is a chain of these operators.                             *)
(*                                                                         *)
(* The list is a value of Contents; what matters of it is only whether two *)
(* lists are the same. journals is the set of the journal handles kept for *)
(* recovery. Identifiers of dialog sessions wrap at MaxPromptId.           *)
(***************************************************************************)
CONSTANTS
  Contents,      \* the lists a user can build
  MaxRevision,   \* bound on the model revision
  MaxPromptId    \* where next_prompt_id wraps

ASSUME PromptIdAssumption == MaxPromptId \in Nat \ {0}

WorkerKind == {"Admission", "Import", "Plan", "Apply"}

JournalHandle == {"Active", "Staged", "Blocked"}

Revision == 0..MaxRevision

NoPrompt == 0

\* A worker that is absent (Option::None).
Absent == [stage |-> "Absent"]

NewWorker(s, model, session, mode) ==
  [stage |-> "Running", cancelled |-> FALSE, revision |-> s.model_revision,
   model |-> model, session |-> session, mode |-> mode, result |-> "None"]

Active(s, k) == s.worker[k].stage # "Absent"

WorkerActive(s) == \E k \in WorkerKind : Active(s, k)

\* active_worker_kind: there is one only when exactly one worker is present.
ActiveWorkerKind(s) ==
  LET present == {k \in WorkerKind : Active(s, k)}
  IN  IF Cardinality(present) = 1 THEN present ELSE {}

-----------------------------------------------------------------------------
(***************************************************************************)
(* The locks.                                                              *)
(***************************************************************************)
apply_locked(s) ==
  \/ s.mutation_locked
  \/ s.recovery_locked
  \/ s.journals # {}
  \/ WorkerActive(s)

read_only_locked(s) == s.recovery_locked

drop_locked(s) == apply_locked(s) \/ read_only_locked(s)

can_discard_staged_intent(s) ==
  s.recovery_locked /\ s.journals = {"Staged"}

can_confirm_active_recovery(s) ==
  /\ s.recovery_locked
  /\ ~s.mutation_locked
  /\ ~s.confirmation_pending
  /\ ~s.close_pending
  /\ s.journals = {"Active"}
  /\ ~WorkerActive(s)

can_export_recovery_journal(s) == s.journals # {}

-----------------------------------------------------------------------------
(***************************************************************************)
(* The list changes and, if it really changed, so does its revision.       *)
(***************************************************************************)
CommitModel(s, c) ==
  [s EXCEPT !.model = c,
            !.model_revision = IF c = s.model THEN @ ELSE @ + 1]

\* The lists an edit can produce; at the bound on revisions it changes nothing.
Edits(s) == IF s.model_revision < MaxRevision THEN Contents ELSE {s.model}

-----------------------------------------------------------------------------
(***************************************************************************)
(* Dialog sessions. A prompt or a file dialog takes active_prompt only; a  *)
(* task dialog locks the list and marks a pending confirmation as well.    *)
(***************************************************************************)
NextPromptId(s) == IF s.next_prompt_id = MaxPromptId THEN 1 ELSE s.next_prompt_id + 1

OpenPrompt(s) ==
  [s EXCEPT !.next_prompt_id = NextPromptId(s), !.active_prompt = NextPromptId(s)]

MayBeginTaskDialog(s) == s.active_prompt = NoPrompt /\ ~s.confirmation_pending

BeginTaskDialog(s) ==
  [OpenPrompt(s) EXCEPT !.mutation_locked = TRUE, !.confirmation_pending = TRUE]

PolicyMatches(s, policy) ==
  \/ policy = "Mutable" /\ ~read_only_locked(s)
  \/ policy = "RecoveryLocked" /\ read_only_locked(s)
  \/ policy = "RecoveryAllowed"

\* Mutant: the session forgets to release its lock.
TakeTaskDialogKeepsLock(s) ==
  [s EXCEPT !.active_prompt = NoPrompt, !.confirmation_pending = FALSE]

TakeTaskDialog(s) ==
  [s EXCEPT !.active_prompt = NoPrompt,
            !.confirmation_pending = FALSE,
            !.mutation_locked = s.close_pending \/ WorkerActive(s)]

TaskDialogDisposition(s, d, policy) ==
  IF s.active_prompt # d.session THEN "Missing"
  ELSE IF s.close_pending THEN "Closed"
  ELSE IF /\ s.confirmation_pending
          /\ s.mutation_locked
          /\ ~WorkerActive(s)
          /\ s.model_revision = d.revision
          /\ PolicyMatches(s, policy)
       THEN "Accepted" ELSE "Rejected"

\* Mutant: a result is applied to whatever list is there now.
deferred_result_can_applyUnversioned(s, d) ==
  s.active_prompt = d.session /\ ~s.close_pending /\ ~WorkerActive(s)

deferred_result_can_apply(s, d) ==
  /\ s.active_prompt = d.session
  /\ ~s.close_pending
  /\ ~read_only_locked(s)
  /\ ~s.mutation_locked
  /\ ~WorkerActive(s)
  /\ s.model_revision = d.revision

ClosePrompt(s) == [s EXCEPT !.active_prompt = NoPrompt]

-----------------------------------------------------------------------------
CONSTANTS
  MaxLost,            \* bound on posts that fail
  PreferencesPolled   \* a preference writer runs, hence its poll timer

VARIABLES
  app,       \* AppState with the states of its worker threads
  dialogs,   \* modal dialogs on screen, each with what it was opened for
  posted,    \* messages in the queue of the window
  lost,      \* posts that failed so far
  window     \* "Live", "Failing" (message pump), "Destroyed" or "Aborted"

vars == <<app, dialogs, posted, lost, window>>

\* Messages are dispatched: by the main loop or, once that has failed, by the
\* loop that waits for the icon thread.
Live ==
  /\ window = "Live" \/ (window = "Failing" /\ app.icons # "Joined")
  /\ UNCHANGED window

Post(m) ==
  \/ posted' = posted \cup {m} /\ UNCHANGED lost
  \/ lost < MaxLost /\ lost' = lost + 1 /\ UNCHANGED posted

PostAfter(m, n) ==
  \/ posted' = (posted \ {m}) \cup {n} /\ UNCHANGED lost
  \/ lost < MaxLost /\ lost' = lost + 1 /\ posted' = posted \ {m}

\* The handler of message m, or of a timer (m = "Timer"), posts nothing.
Consume(m) == posted' = posted \ {m} /\ UNCHANGED lost

-----------------------------------------------------------------------------
(***************************************************************************)
(* try_finish_window_close: when nothing is left to wait for, join the     *)
(* preference writers that are done and post the final message.            *)
(***************************************************************************)
Quiet(s) ==
  /\ s.close_pending
  /\ s.icons = "Joined"
  /\ ~s.confirmation_pending
  /\ s.active_prompt = NoPrompt
  /\ ~WorkerActive(s)

finish_if_ready(s) == s.preferences \in {"Exited", "Joined"}

\* The handler of m leaves AppState as s and then tries to finish the close.
FinishWith(s, m) ==
  IF Quiet(s) /\ finish_if_ready(s)
  THEN app' = [s EXCEPT !.preferences = "Joined"] /\ PostAfter(m, "FinishClose")
  ELSE app' = s /\ Consume(m)

\* The handler of m leaves AppState as s.
EndWith(s, m) == app' = s /\ Consume(m)

-----------------------------------------------------------------------------
(***************************************************************************)
(* Starting a worker arms the poll timer and locks the list.               *)
(***************************************************************************)
\* Mutant: no timer stands in for a lost completion message.
InstallUnpolled(s, k, w) ==
  [s EXCEPT !.worker[k] = w, !.mutation_locked = TRUE]

Install(s, k, w) ==
  [s EXCEPT !.worker[k] = w, !.mutation_locked = TRUE, !.timers = @ \cup {"Poll"}]

start_plan_worker(s) == Install(s, "Plan", NewWorker(s, s.model, NoPrompt, "None"))

start_apply_worker(s, plan) == Install(s, "Apply", NewWorker(s, plan, NoPrompt, "Forward"))

start_admission_worker(s, mode) ==
  Install(s, "Admission", NewWorker(s, s.model, NoPrompt, mode))

start_import_worker(s, d) == Install(s, "Import", NewWorker(s, s.model, d.session, d.kind))

\* The worker is taken from AppState, its thread joined and its timer killed.
Take(s, k) == [s EXCEPT !.worker[k] = Absent, !.timers = @ \ {"Poll"}]

Unlock(s) == [s EXCEPT !.mutation_locked = FALSE]

UnlockAfterImport(s) == [s EXCEPT !.mutation_locked = s.close_pending \/ WorkerActive(s)]

-----------------------------------------------------------------------------
(***************************************************************************)
(* The threads. A cancelled worker may still end with any result: the      *)
(* request can come after its last check.                                  *)
(***************************************************************************)
Result(k) ==
  CASE k = "Plan"      -> {"Ready", "NotReady"}
    [] k = "Apply"     -> {"Completed", "RolledBack", "RecoveryRequired", "NoReport"}
    [] k = "Admission" -> {"NeedsDirectoryMode", "Finished", "NotFinished"}
    [] k = "Import"    -> {"Read", "NotRead"}

WorkerEnds(k) ==
  /\ window # "Aborted"
  /\ app.worker[k].stage = "Running"
  /\ \E r \in Result(k) :
       /\ k = "Admission" /\ r = "NeedsDirectoryMode" => app.worker[k].mode = "None"
       /\ app' = [app EXCEPT !.worker[k].stage = "Ended", !.worker[k].result = r]
  /\ Post(k)
  /\ UNCHANGED <<dialogs, window>>

WorkerExits(k) ==
  /\ window # "Aborted"
  /\ app.worker[k].stage = "Ended"
  /\ app' = [app EXCEPT !.worker[k].stage = "Finished"]
  /\ UNCHANGED <<dialogs, posted, lost, window>>

\* The Apply worker publishes Rollback, Finalizing or Terminal progress.
ApplyFinishing ==
  /\ app.worker["Apply"].stage = "Running"
  /\ app.worker["Apply"].mode = "Forward"
  /\ app' = [app EXCEPT !.worker["Apply"].mode = "Finishing"]
  /\ UNCHANGED <<dialogs, posted, lost, window>>

-----------------------------------------------------------------------------
(***************************************************************************)
(* What starts a completion handler: its message, or the poll timer, which *)
(* looks at an import first.                                               *)
(***************************************************************************)
Trigger(k, m) ==
  \/ m = k /\ k \in posted
  \/ m = "Timer" /\ "Poll" \in app.timers /\ (k = "Import" \/ ~Active(app, "Import"))

Done(k) == app.worker[k].stage = "Finished"

\* A completion message whose worker is gone or not yet over is dropped.
EarlyCompletion(k) ==
  /\ Live
  /\ k \in posted
  /\ ~Done(k)
  /\ Consume(k)
  /\ UNCHANGED <<app, dialogs>>

\* handle_plan_completion and handle_ready_plan
PlanCompletion(m) ==
  LET w == app.worker["Plan"]
      s == Unlock(Take(app, "Plan"))
  IN  /\ Live
      /\ Trigger("Plan", m)
      /\ Done("Plan")
      /\ IF s.close_pending
           THEN FinishWith(s, m) /\ UNCHANGED dialogs
         ELSE IF w.result = "Ready" /\ MayBeginTaskDialog(s)
           THEN /\ EndWith(BeginTaskDialog(s), m)
                /\ dialogs' = dialogs \cup
                     {[kind |-> "Apply", session |-> NextPromptId(s),
                       revision |-> s.model_revision, made_for |-> w.revision,
                       model |-> w.model]}
         ELSE EndWith(s, m) /\ UNCHANGED dialogs

\* handle_admission_completion
AdmissionCompletion(m) ==
  LET w == app.worker["Admission"]
      s == Unlock(Take(app, "Admission"))
      current == s.model_revision = w.revision
  IN  /\ Live
      /\ Trigger("Admission", m)
      /\ Done("Admission")
      /\ IF s.close_pending
           THEN FinishWith(s, m) /\ UNCHANGED dialogs
         ELSE IF w.result = "NeedsDirectoryMode" /\ current /\ MayBeginTaskDialog(s)
           THEN /\ EndWith(BeginTaskDialog(s), m)
                /\ dialogs' = dialogs \cup
                     {[kind |-> "Directory", session |-> NextPromptId(s),
                       revision |-> s.model_revision, made_for |-> w.revision,
                       model |-> w.model]}
         ELSE IF w.result = "Finished" /\ current
           THEN /\ \E c \in Edits(s) : EndWith(CommitModel(s, c), m)
                /\ UNCHANGED dialogs
         ELSE EndWith(s, m) /\ UNCHANGED dialogs

ImportAccepted(s, w) == ~w.cancelled /\ deferred_result_can_apply(s, w)

\* handle_import_completion and finish_import_worker_result
ImportCompletion(m) ==
  LET w == app.worker["Import"]
      s == UnlockAfterImport(Take(app, "Import"))
      t == ClosePrompt(s)
      accepted == ImportAccepted(s, w)
  IN  /\ Live
      /\ Trigger("Import", m)
      /\ Done("Import")
      /\ UNCHANGED dialogs
      /\ IF s.active_prompt # w.session
           THEN FinishWith(s, m)
         ELSE IF accepted /\ w.result = "Read" /\ w.mode = "ImportNames"
           THEN \E c \in Edits(s) : FinishWith(CommitModel(t, c), m)
         ELSE IF accepted /\ w.result = "Read" /\ w.mode = "ImportPaths"
           THEN \/ FinishWith(start_admission_worker(t, "None"), m)
                \/ FinishWith(t, m)
         ELSE FinishWith(t, m)

\* finalize_apply_worker and handle_completed_execution: what the report leaves
\* of the list and of the recovery lock. A report that does not fit the list
\* changes nothing and locks.
AfterExecution(s, w) ==
  LET kept == [s EXCEPT !.recovery_locked = TRUE, !.journals = @ \cup {"Active"}]
      cleaned == {[s EXCEPT !.recovery_locked = FALSE], kept,
                  [s EXCEPT !.recovery_locked = TRUE]}
  IN  CASE w.result = "Completed" /\ w.model = s.model ->
             {CommitModel(t, c) : t \in cleaned, c \in Edits(s)}
        [] w.result = "Completed" /\ w.model # s.model -> {kept}
        [] w.result = "RolledBack" -> cleaned
        [] w.result = "RecoveryRequired" -> {kept}
        [] w.result = "NoReport" -> cleaned

ApplyCompletion(m) ==
  LET w == app.worker["Apply"]
      s == Unlock(Take(app, "Apply"))
  IN  /\ Live
      /\ Trigger("Apply", m)
      /\ Done("Apply")
      /\ \E t \in AfterExecution(s, w) : FinishWith(t, m)
      /\ UNCHANGED dialogs

-----------------------------------------------------------------------------
CONSTANTS
  UserDialogs,      \* the kinds of dialog the user opens in this instance
  StartupJournals   \* the journal handles startup may find in this instance

TaskKind == {"Apply", "Directory", "Details", "Export", "Discard"}

PromptKind == {"Prompt", "AddFiles", "ImportNames", "ImportPaths"}

DialogKind == TaskKind \cup PromptKind \cup {"StartupRecovery"}

PromptId == 0..MaxPromptId

ASSUME WorkbenchAssumption ==
  /\ MaxRevision \in Nat /\ MaxLost \in Nat
  /\ StartupJournals \subseteq SUBSET JournalHandle

Dialog(s, kind) ==
  [kind |-> kind, session |-> NextPromptId(s), revision |-> s.model_revision,
   made_for |-> s.model_revision, model |-> s.model]

TypeOK ==
  /\ app.model \in Contents
  /\ app.model_revision \in Revision
  /\ \A f \in {"close_pending", "mutation_locked", "recovery_locked", "confirmation_pending"} :
       app[f] \in BOOLEAN
  /\ app.active_prompt \in PromptId
  /\ app.next_prompt_id \in PromptId
  /\ app.journals \subseteq JournalHandle
  /\ app.timers \subseteq {"Poll", "Icons", "Preferences"}
  /\ app.icons \in {"Working", "Retiring", "Exited", "Joined"}
  /\ app.preferences \in {"Open", "Stopping", "Exited", "Joined"}
  /\ \A k \in WorkerKind :
       app.worker[k].stage \in {"Absent", "Running", "Ended", "Finished"}
  /\ \A d \in dialogs :
       /\ d.kind \in DialogKind
       /\ d.session \in PromptId
       /\ {d.revision, d.made_for} \subseteq Revision
       /\ d.model \in Contents
  /\ posted \subseteq WorkerKind \cup {"FinishClose", "Close", "IconWake", "PreferencesWake"}
  /\ lost \in 0..MaxLost
  /\ window \in {"Live", "Failing", "Destroyed", "Aborted"}

(***************************************************************************)
(* Startup leaves no journal, or one to recover or to look at. An active   *)
(* one opens the recovery question before the message loop starts.         *)
(***************************************************************************)
Startup(c, handles) ==
  [model |-> c, model_revision |-> 0, close_pending |-> FALSE,
   mutation_locked |-> handles = {"Active"}, recovery_locked |-> handles # {},
   confirmation_pending |-> handles = {"Active"}, active_prompt |-> NoPrompt,
   next_prompt_id |-> 0, journals |-> handles,
   worker |-> [k \in WorkerKind |-> Absent],
   timers |-> IF PreferencesPolled THEN {"Preferences"} ELSE {},
   icons |-> "Working",
   preferences |-> IF PreferencesPolled THEN "Open" ELSE "Joined"]

Init ==
  /\ \E c \in Contents, handles \in StartupJournals :
       /\ app = Startup(c, handles)
       /\ dialogs = IF handles = {"Active"}
                    THEN {[kind |-> "StartupRecovery", session |-> NoPrompt,
                           revision |-> 0, made_for |-> 0, model |-> c]}
                    ELSE {}
  /\ posted = {}
  /\ lost = 0
  /\ window = "Live"

-----------------------------------------------------------------------------
(***************************************************************************)
(* dispatch_command. While a session is active every command is ignored;   *)
(* recovery leaves only its own commands, the mutation lock nothing that   *)
(* is modelled here except the close.                                      *)
(***************************************************************************)
Admits(s, recovery) ==
  /\ s.active_prompt = NoPrompt
  /\ recovery \/ ~read_only_locked(s)
  /\ ~s.mutation_locked

Command(s, opened) ==
  /\ Live
  /\ app' = s
  /\ dialogs' = dialogs \cup opened
  /\ UNCHANGED <<posted, lost>>

\* RESET, CLEAR_LIST, MOVE_UP and the other commands that edit the list at once
EditList ==
  /\ Admits(app, FALSE)
  /\ \E c \in Edits(app) \ {app.model} : Command(CommitModel(app, c), {})

\* APPLY: apply_changes
ApplyCommand ==
  /\ Admits(app, FALSE)
  /\ ~apply_locked(app)
  /\ Command(start_plan_worker(app), {})

\* prepare_prompt_command and prepare_file_dialog_command
PromptCommand(kind) ==
  /\ Admits(app, FALSE)
  /\ Command(OpenPrompt(app), {Dialog(app, kind)})

\* PREVIEW_DETAILS, EXPORT_RECOVERY_JOURNAL and DISCARD_STAGED_JOURNAL
TaskCommand(kind) ==
  /\ Admits(app, kind # "Details")
  /\ kind = "Details" => ~apply_locked(app) /\ ~app.close_pending
  /\ kind = "Export" => can_export_recovery_journal(app)
  /\ kind = "Discard" => can_discard_staged_intent(app)
  /\ MayBeginTaskDialog(app)
  /\ Command(BeginTaskDialog(app), {Dialog(app, kind)})

\* IDropTarget::Drop; it does not ask for an active session.
DropFiles ==
  /\ ~drop_locked(app)
  /\ Command(start_admission_worker(app, "None"), {})

\* The Cancel button: request_active_worker_cancel.
CancelWorker ==
  \E k \in ActiveWorkerKind(app) :
    /\ ~app.worker[k].cancelled
    /\ k = "Apply" => app.worker[k].mode # "Finishing"
    /\ Command([app EXCEPT !.worker[k].cancelled = TRUE], {})

-----------------------------------------------------------------------------
(***************************************************************************)
(* Answers. The dialog is gone; the session is taken and its answer counts *)
(* only if nothing has happened to what it was asked about.                *)
(***************************************************************************)
Close(d) == Live /\ d \in dialogs /\ dialogs' = dialogs \ {d}

\* run_prepared_apply_task_dialog; start_apply_worker can fail to clone the
\* journal root or to start its thread.
AnswerApply(d, confirm) ==
  LET s == TakeTaskDialog(app)
      disposition == TaskDialogDisposition(app, d, "Mutable")
  IN  /\ d.kind = "Apply"
      /\ Close(d)
      /\ IF disposition = "Missing" THEN EndWith(app, "Answer")
         ELSE IF disposition = "Closed" THEN FinishWith(s, "Answer")
         ELSE IF /\ disposition = "Accepted"
                 /\ confirm
                 /\ ~apply_locked(s)
                 /\ s.model_revision = d.made_for
           THEN \/ EndWith(start_apply_worker(s, d.model), "Answer")
                \/ EndWith([s EXCEPT !.recovery_locked = TRUE], "Answer")
                \/ EndWith(s, "Answer")
         ELSE EndWith(s, "Answer")

\* run_prepared_directory_task_dialog
AnswerDirectory(d, mode) ==
  LET s == TakeTaskDialog(app)
      disposition == TaskDialogDisposition(app, d, "Mutable")
  IN  /\ d.kind = "Directory"
      /\ Close(d)
      /\ IF disposition = "Missing" THEN EndWith(app, "Answer")
         ELSE IF disposition = "Closed" THEN FinishWith(s, "Answer")
         ELSE IF /\ disposition = "Accepted"
                 /\ s.model_revision = d.made_for
                 /\ mode # "None"
           THEN \/ EndWith(start_admission_worker(s, mode), "Answer")
                \/ EndWith(s, "Answer")
         ELSE EndWith(s, "Answer")

\* run_prepared_preview_details and run_prepared_recovery_export
AnswerDetails(d) ==
  /\ d.kind \in {"Details", "Export"}
  /\ Close(d)
  /\ IF app.active_prompt # d.session THEN EndWith(app, "Answer")
     ELSE FinishWith(TakeTaskDialog(app), "Answer")

\* run_prepared_discard_task_dialog and rediscover_after_staged_discard
AnswerDiscard(d, confirm) ==
  LET s == TakeTaskDialog(app)
      disposition == TaskDialogDisposition(app, d, "RecoveryLocked")
  IN  /\ d.kind = "Discard"
      /\ Close(d)
      /\ IF disposition = "Missing" THEN EndWith(app, "Answer")
         ELSE IF disposition = "Closed" THEN app' = s /\ Post("Close")
         ELSE IF disposition = "Accepted" /\ confirm /\ can_discard_staged_intent(s)
           THEN \E handles \in {{"Staged"}, {}, {"Blocked"}} :
                  EndWith([s EXCEPT !.journals = handles,
                                    !.recovery_locked = handles # {}], "Answer")
         ELSE EndWith(s, "Answer")

\* The second half of confirm_startup_recovery, and recover_confirmed_active_journal
AnswerStartupRecovery(d, confirm) ==
  LET s == [app EXCEPT !.mutation_locked = FALSE, !.confirmation_pending = FALSE]
  IN  /\ d.kind = "StartupRecovery"
      /\ Close(d)
      /\ IF s.close_pending THEN app' = s /\ Post("Close")
         ELSE IF confirm /\ can_confirm_active_recovery(s)
           THEN \E handles \in {{"Active"}, {}}, failed \in BOOLEAN :
                  EndWith([s EXCEPT !.journals = handles,
                                    !.recovery_locked = failed \/ handles # {}], "Answer")
         ELSE EndWith(s, "Answer")

\* run_prepared_prompt, finish_file_dialog_session and start_selected_import
AnswerPrompt(d, accept) ==
  LET s == ClosePrompt(app)
  IN  /\ d.kind \in PromptKind
      /\ Close(d)
      /\ IF app.active_prompt # d.session THEN EndWith(app, "Answer")
         ELSE IF ~accept \/ ~deferred_result_can_apply(app, d) THEN FinishWith(s, "Answer")
         ELSE IF d.kind = "Prompt"
           THEN \E c \in Edits(s) : EndWith(CommitModel(s, c), "Answer")
         ELSE IF d.kind = "AddFiles"
           THEN \/ EndWith(start_admission_worker(s, "None"), "Answer")
                \/ EndWith(s, "Answer")
         ELSE \/ EndWith(start_import_worker(app, d), "Answer")
              \/ FinishWith(s, "Answer")

-----------------------------------------------------------------------------
(***************************************************************************)
(* Closing. The first request also retires the icon worker and shuts the   *)
(* preference writers down; every request cancels the worker it finds.     *)
(***************************************************************************)
BeginClose(s) ==
  IF s.close_pending THEN s
  ELSE [s EXCEPT !.close_pending = TRUE,
                 !.mutation_locked = TRUE,
                 !.icons = IF @ = "Working" THEN "Retiring" ELSE @,
                 !.timers = IF s.icons = "Joined" THEN @ ELSE @ \cup {"Icons"},
                 !.preferences = IF @ = "Open" THEN "Stopping" ELSE @]

Cancellable(s, k) ==
  /\ Active(s, k)
  /\ ~s.worker[k].cancelled
  /\ k = "Apply" => s.worker[k].mode # "Finishing"

\* Mutant: a close cancels nothing while a confirmation is pending, nor later.
CancelForCloseNever(s) == s

CancelForClose(s) ==
  [s EXCEPT !.worker = [k \in WorkerKind |->
     IF Cancellable(s, k) THEN [s.worker[k] EXCEPT !.cancelled = TRUE] ELSE s.worker[k]]]

request_window_close(m) ==
  LET s == BeginClose(app)
  IN  /\ Live
      /\ UNCHANGED dialogs
      /\ IF s.confirmation_pending THEN EndWith(s, m)
         ELSE IF WorkerActive(s) THEN EndWith(CancelForClose(s), m)
         ELSE FinishWith(s, m)

\* WM_CLOSE of the user or of the queue; EXIT_COMMAND is ignored in a session
\* unless an import holds it.
CloseRequest == request_window_close("Timer") \/ ("Close" \in posted /\ request_window_close("Close"))

\* WM_APP_FINISH_CLOSE: prepare_window_close, DestroyWindow
FinishClose ==
  /\ window = "Live" \/ (window = "Failing" /\ app.icons # "Joined")
  /\ "FinishClose" \in posted
  /\ Consume("FinishClose")
  /\ IF Quiet(app) /\ app.preferences = "Joined"
     THEN window' = "Destroyed" /\ app' = [app EXCEPT !.timers = {}]
     ELSE UNCHANGED <<window, app>>
  /\ UNCHANGED dialogs

-----------------------------------------------------------------------------
(***************************************************************************)
(* The icon worker and the preference writers, as far as the close waits   *)
(* for them. Only the icon timer tries to finish the close: the wake       *)
(* message joins a finished icon thread and stops the timer.               *)
(***************************************************************************)
PollJoin(s) ==
  LET t == [s EXCEPT !.icons = IF @ = "Exited" /\ window = "Live" THEN "Joined" ELSE @]
  IN  IF t.close_pending /\ t.icons = "Joined" THEN [t EXCEPT !.timers = @ \ {"Icons"}] ELSE t

IconPublishes ==
  /\ app.icons = "Working"
  /\ "IconWake" \notin posted
  /\ Live
  /\ Post("IconWake")
  /\ UNCHANGED <<app, dialogs>>

\* The worker retires by itself when the shell has no image list.
IconBootstrapFails ==
  /\ app.icons = "Working"
  /\ app' = [app EXCEPT !.icons = "Retiring"]
  /\ UNCHANGED <<dialogs, posted, lost, window>>

IconWorkerExits ==
  /\ app.icons = "Retiring"
  /\ app' = [app EXCEPT !.icons = "Exited"]
  /\ UNCHANGED <<dialogs, posted, lost, window>>

IconWake ==
  /\ Live
  /\ "IconWake" \in posted
  /\ EndWith(PollJoin(app), "IconWake")
  /\ UNCHANGED dialogs

IconTimer ==
  /\ Live
  /\ "Icons" \in app.timers
  /\ FinishWith(PollJoin(app), "Timer")
  /\ UNCHANGED dialogs

PreferencesExit ==
  /\ app.preferences = "Stopping"
  /\ app' = [app EXCEPT !.preferences = "Exited"]
  /\ Post("PreferencesWake")
  /\ UNCHANGED <<dialogs, window>>

\* handle_preferences_wake, from the message or from its timer
PreferencesWake ==
  /\ Live
  /\ \/ "PreferencesWake" \in posted /\ FinishWith(app, "PreferencesWake")
     \/ "Preferences" \in app.timers /\ FinishWith(app, "Timer")
  /\ UNCHANGED dialogs

-----------------------------------------------------------------------------
(***************************************************************************)
(* GetMessageW fails in the main loop: everything is cancelled and joined, *)
(* except that an import still blocked in its provider aborts the process. *)
(***************************************************************************)
LoopFails ==
  /\ window = "Live"
  /\ dialogs = {}
  /\ window' = "Failing"
  /\ app' = [BeginClose(app) EXCEPT
               !.worker = [k \in WorkerKind |->
                  IF Active(app, k) THEN [app.worker[k] EXCEPT !.cancelled = TRUE]
                  ELSE Absent]]
  /\ UNCHANGED <<dialogs, posted, lost>>

AfterLoopFailure ==
  /\ window = "Failing"
  /\ dialogs = {}
  /\ app.icons \in {"Exited", "Joined"}
  /\ \A k \in WorkerKind \ {"Import"} : Active(app, k) => Done(k)
  /\ IF Active(app, "Import") /\ ~Done("Import")
     THEN window' = "Aborted" /\ UNCHANGED app
     ELSE /\ finish_if_ready(app)
          /\ window' = "Destroyed"
          /\ \E t \in IF Active(app, "Apply")
                      THEN AfterExecution(app, app.worker["Apply"]) ELSE {app} :
               app' = [t EXCEPT !.worker = [k \in WorkerKind |-> Absent],
                                !.icons = "Joined", !.preferences = "Joined",
                                !.close_pending = FALSE, !.timers = {}]
  /\ UNCHANGED <<dialogs, posted, lost>>

Exited == window \in {"Destroyed", "Aborted"} /\ UNCHANGED vars

-----------------------------------------------------------------------------
User ==
  \/ EditList \/ ApplyCommand \/ DropFiles \/ CancelWorker
  \/ \E kind \in UserDialogs \cap PromptKind : PromptCommand(kind)
  \/ \E kind \in UserDialogs \cap {"Details", "Export", "Discard"} : TaskCommand(kind)

Answer(d) ==
  \/ AnswerDetails(d)
  \/ \E b \in BOOLEAN :
       \/ AnswerApply(d, b)
       \/ AnswerDiscard(d, b)
       \/ AnswerStartupRecovery(d, b)
       \/ AnswerPrompt(d, b)
  \/ \E mode \in {"None", "Direct", "Recurse"} : AnswerDirectory(d, mode)

Completion(m) ==
  PlanCompletion(m) \/ AdmissionCompletion(m) \/ ImportCompletion(m) \/ ApplyCompletion(m)

Threads == \E k \in WorkerKind : WorkerEnds(k) \/ WorkerExits(k)

Handlers == \/ \E k \in WorkerKind : EarlyCompletion(k) \/ Completion(k)
            \/ FinishClose \/ IconWake \/ PreferencesWake

Next ==
  \/ User
  \/ \E d \in dialogs : Answer(d)
  \/ CloseRequest
  \/ Threads \/ ApplyFinishing
  \/ Handlers \/ Completion("Timer") \/ IconTimer
  \/ IconPublishes \/ IconBootstrapFails \/ IconWorkerExits \/ PreferencesExit
  \/ LoopFails \/ AfterLoopFailure
  \/ Exited

Spec == Init /\ [][Next]_vars

(***************************************************************************)
(* Threads run and queues are served. The user answers the dialogs that    *)
(* are open; nothing else is asked of him. An import is known to end only  *)
(* when its read was cancelled: a provider has no deadline of its own.     *)
(***************************************************************************)
Fairness ==
  /\ WF_vars(\E k \in WorkerKind :
       WorkerEnds(k) /\ (k = "Import" => app.worker[k].cancelled))
  /\ WF_vars(\E k \in WorkerKind : WorkerExits(k))
  /\ WF_vars(\E k \in WorkerKind \cup {"Timer"} : Completion(k))
  /\ WF_vars(IconTimer) /\ WF_vars(IconWake) /\ WF_vars(IconWorkerExits)
  /\ WF_vars(PreferencesExit) /\ WF_vars(PreferencesWake)
  /\ WF_vars(FinishClose) /\ WF_vars("Close" \in posted /\ request_window_close("Close"))
  /\ WF_vars(\E d \in dialogs : Answer(d))
  /\ WF_vars(AfterLoopFailure)

FairSpec == Spec /\ Fairness

-----------------------------------------------------------------------------
(***************************************************************************)
(* At most one worker thread belongs to the window, whatever mixture of    *)
(* commands, drops, dialog answers and completions starts them. Cancel,    *)
(* close and the shared poll timer all rely on it (active_worker_kind).    *)
(***************************************************************************)
OneWorker == Cardinality({k \in WorkerKind : Active(app, k)}) <= 1

(***************************************************************************)
(* No lock outlives its reason: a locked list has a worker, a confirmation *)
(* or a close to wait for, a confirmation has its dialog on screen, and an *)
(* active session is held by the dialog or the import that will end it.    *)
(* A leaked session would leave a window that ignores every command.       *)
(***************************************************************************)
LocksHaveOwners ==
  window = "Live" =>
  /\ app.mutation_locked =>
       app.close_pending \/ app.confirmation_pending \/ WorkerActive(app)
  /\ app.confirmation_pending =>
       \E d \in dialogs : d.kind \in TaskKind \cup {"StartupRecovery"}
  /\ app.active_prompt # NoPrompt =>
       \/ \E d \in dialogs : d.session = app.active_prompt
       \/ Active(app, "Import") /\ app.worker["Import"].session = app.active_prompt

(***************************************************************************)
(* The list an Apply worker renames is the list on screen, from the        *)
(* confirmation to the report: what the report is applied to               *)
(* (apply_execution_report) is what was planned and confirmed.             *)
(***************************************************************************)
ApplyFitsList ==
  Active(app, "Apply") => app.worker["Apply"].model = app.model

(***************************************************************************)
(* A journal kept for recovery always locks Apply and every edit, whatever *)
(* came between: recovery, discard, a failed cleanup or a batch that could *)
(* not be rolled back.                                                     *)
(***************************************************************************)
RetainedJournalLocks == app.journals # {} => app.recovery_locked

(***************************************************************************)
(* A window is destroyed only when no thread of it and no dialog is left.  *)
(***************************************************************************)
NothingOutlivesWindow ==
  window = "Destroyed" =>
    /\ ~WorkerActive(app)
    /\ dialogs = {}
    /\ app.icons = "Joined"
    /\ app.preferences = "Joined"

(***************************************************************************)
(* While a close waits, the list stays locked, as the test of an ordinary  *)
(* close with a blocked icon lookup asserts.                               *)
(***************************************************************************)
ClosingStaysLocked == window = "Live" /\ app.close_pending => app.mutation_locked

(***************************************************************************)
(* An answer has an effect only on the list its dialog was opened for, and *)
(* never once a close was requested.                                       *)
(***************************************************************************)
AnswersMeetTheirList ==
  \A d \in dialogs \ dialogs' :
     app'.model # app.model \/ (WorkerActive(app') /\ ~WorkerActive(app)) =>
       d.model = app.model /\ d.revision = app.model_revision /\ ~app.close_pending

(***************************************************************************)
(* The result of a worker changes only the list it was started for; that   *)
(* of a cancelled import changes nothing, and only a finished Apply still  *)
(* counts once a close was requested.                                      *)
(***************************************************************************)
ResultsMeetTheirList ==
  \A k \in WorkerKind :
     Active(app, k) /\ ~Active(app', k) /\ app'.model # app.model =>
       /\ app.worker[k].model = app.model
       /\ k = "Import" => ~app.worker[k].cancelled
       /\ k # "Apply" => ~app.close_pending

(***************************************************************************)
(* The window's state is never an orphan: one worker at most, no lock      *)
(* without its reason, no Apply for another list, no retained journal      *)
(* without its lock, no thread or dialog behind a destroyed window.        *)
(***************************************************************************)
OwnersConsistent ==
  /\ TypeOK /\ OneWorker /\ LocksHaveOwners /\ ApplyFitsList
  /\ RetainedJournalLocks /\ NothingOutlivesWindow

(***************************************************************************)
(* Answers of dialogs and results of workers take effect only on the list  *)
(* they were made for, whatever was handled in between.                    *)
(***************************************************************************)
EffectsMeetTheirList == [][AnswersMeetTheirList /\ ResultsMeetTheirList]_vars

(***************************************************************************)
(* A worker that ends is taken over (there is one at most), even if its    *)
(* completion message is lost or is handled before the thread is over: the *)
(* poll timer finds it.                                                    *)
(***************************************************************************)
CompletionHandled ==
  (\E k \in WorkerKind : Done(k)) ~> (\A k \in WorkerKind : ~Done(k)) \/ window = "Aborted"

(***************************************************************************)
(* A requested close ends in the destruction of the window, through        *)
(* workers, dialogs, icon lookup and preference writers and with lost      *)
(* messages, if the user does not keep issuing commands.                   *)
(***************************************************************************)
CloseCompletes ==
  <>[][~User]_vars => (app.close_pending ~> window # "Live")
=============================================================================
