-------------------------- MODULE WorkbenchProofs ---------------------------
(***************************************************************************)
(* Proofs about the main window: no lock, session, worker or journal is an *)
(* orphan, and every answer and result meets the list it was made for.     *)
(***************************************************************************)
EXTENDS Workbench, FiniteSetTheorems, TLAPS
-----------------------------------------------------------------------------
(***************************************************************************)
(* The inductive invariant, as a predicate of AppState s and of the set D  *)
(* of dialogs on screen.                                                   *)
(***************************************************************************)
WorkerMode ==
  {"None", "Forward", "Finishing", "Direct", "Recurse", "ImportNames", "ImportPaths"}

WorkerResult ==
  {"None", "Ready", "NotReady", "Completed", "RolledBack", "RecoveryRequired", "NoReport",
   "NeedsDirectoryMode", "Finished", "NotFinished", "Read", "NotRead"}

Worker ==
  [stage : {"Running", "Ended", "Finished"}, cancelled : BOOLEAN, revision : Revision,
   model : Contents, session : PromptId, mode : WorkerMode, result : WorkerResult]

AppState ==
  [model : Contents, model_revision : Revision, close_pending : BOOLEAN,
   mutation_locked : BOOLEAN, recovery_locked : BOOLEAN, confirmation_pending : BOOLEAN,
   active_prompt : PromptId, next_prompt_id : PromptId, journals : SUBSET JournalHandle,
   worker : [WorkerKind -> Worker \cup {Absent}],
   timers : SUBSET {"Poll", "Icons", "Preferences"},
   icons : {"Working", "Retiring", "Exited", "Joined"},
   preferences : {"Open", "Stopping", "Exited", "Joined"}]

DialogRecord ==
  [kind : DialogKind, session : PromptId, revision : Revision, made_for : Revision,
   model : Contents]

Message == WorkerKind \cup {"FinishClose", "Close", "IconWake", "PreferencesWake"}

\* One worker at most, and the list is locked while there is one.
OneLockedWorker(s) ==
  \A k \in WorkerKind : Active(s, k) =>
    s.mutation_locked /\ \A l \in WorkerKind : Active(s, l) => l = k

\* One dialog at most. It holds the active session, unless it is the question of
\* startup; a task dialog and that question hold the lock as well.
DialogsHold(s, D) ==
  /\ \A d, e \in D : d = e
  /\ \A d \in D :
       /\ ~Active(s, "Import")
       /\ d.kind = "StartupRecovery" => s.active_prompt = NoPrompt
       /\ d.kind # "StartupRecovery" => d.session # NoPrompt /\ d.session = s.active_prompt
       /\ d.kind \in PromptKind => ~s.confirmation_pending
       /\ d.kind \notin PromptKind =>
            s.confirmation_pending /\ s.mutation_locked /\ ~WorkerActive(s)

\* No session and no confirmation without its dialog, or the import it became.
SessionsHeld(s, D) ==
  /\ s.confirmation_pending => D # {}
  /\ s.active_prompt # NoPrompt => D # {} \/ Active(s, "Import")
  /\ Active(s, "Import") =>
       s.active_prompt # NoPrompt /\ s.worker["Import"].session = s.active_prompt

\* A revision names one list: what was made for the present one is of its model.
DialogsVersioned(s, D) ==
  \A d \in D :
    /\ d.made_for <= d.revision /\ d.revision <= s.model_revision
    /\ d.made_for = s.model_revision => d.model = s.model
    /\ d.kind \in PromptKind => d.made_for = d.revision

WorkersVersioned(s) ==
  \A k \in WorkerKind : Active(s, k) =>
    /\ s.worker[k].revision <= s.model_revision
    /\ s.worker[k].revision = s.model_revision => s.worker[k].model = s.model

\* The thread of a batch is not over without a result of a batch.
Reports(w) == w.stage # "Running" => w.result \in Result("Apply")

\* A batch runs for the list on screen and without a journal of another one.
BatchFits(s) ==
  Active(s, "Apply") =>
    /\ s.worker["Apply"].model = s.model /\ s.journals = {}
    /\ Reports(s.worker["Apply"])

LockJustified(s) ==
  s.mutation_locked => s.close_pending \/ s.confirmation_pending \/ WorkerActive(s)

JournalLocked(s) == s.journals # {} => s.recovery_locked

\* What a running window keeps between any two of its handlers.
Held(s, D) ==
  /\ s \in AppState /\ D \subseteq DialogRecord
  /\ OneLockedWorker(s) /\ DialogsHold(s, D) /\ SessionsHeld(s, D)
  /\ DialogsVersioned(s, D) /\ WorkersVersioned(s)
  /\ BatchFits(s) /\ LockJustified(s) /\ JournalLocked(s)

WorkbenchInv ==
  /\ app \in AppState /\ dialogs \subseteq DialogRecord
  /\ posted \subseteq Message
  /\ lost \in 0..MaxLost
  /\ window \in {"Live", "Failing", "Destroyed", "Aborted"}
  /\ JournalLocked(app)
  /\ window # "Destroyed" => Held(app, dialogs)
  /\ NothingOutlivesWindow

-----------------------------------------------------------------------------
(***************************************************************************)
(* The parts of AppState that the locks, sessions and workers are about.   *)
(***************************************************************************)
SameList(s, t) == t.model = s.model /\ t.model_revision = s.model_revision

SameJournals(s, t) == t.journals = s.journals /\ t.recovery_locked = s.recovery_locked

SameSession(s, t) ==
  /\ t.active_prompt = s.active_prompt
  /\ t.confirmation_pending = s.confirmation_pending

\* The same workers for the same lists, whatever their threads did.
SameWorkers(s, t) ==
  \A k \in WorkerKind :
    /\ Active(t, k) <=> Active(s, k)
    /\ Active(s, k) => /\ t.worker[k].revision = s.worker[k].revision
                       /\ t.worker[k].model = s.worker[k].model
                       /\ t.worker[k].session = s.worker[k].session
                       /\ k = "Apply" /\ Reports(s.worker[k]) => Reports(t.worker[k])

\* A step that leaves list, journals, session, lock and workers alone.
LEMMA HeldStays ==
  ASSUME NEW s, NEW t, NEW D, Held(s, D), t \in AppState,
         SameList(s, t), SameJournals(s, t), SameSession(s, t), SameWorkers(s, t),
         t.mutation_locked = s.mutation_locked, s.close_pending => t.close_pending
  PROVE  Held(t, D)
<1> USE DEF Held, SameList, SameJournals, SameSession, SameWorkers
<1>1. WorkerActive(t) <=> WorkerActive(s)
  BY DEF WorkerActive
<1>2. OneLockedWorker(t)
  BY DEF OneLockedWorker
<1>3. DialogsHold(t, D)
  BY <1>1 DEF DialogsHold, WorkerKind
<1>4. SessionsHeld(t, D)
  BY DEF SessionsHeld, WorkerKind
<1>5. DialogsVersioned(t, D) /\ WorkersVersioned(t)
  BY DEF DialogsVersioned, WorkersVersioned
<1>6. BatchFits(t) /\ LockJustified(t) /\ JournalLocked(t)
  BY <1>1 DEF BatchFits, LockJustified, JournalLocked, WorkerKind
<1> QED BY <1>2, <1>3, <1>4, <1>5, <1>6

LEMMA PromptIds ==
  ASSUME NEW s \in AppState
  PROVE  NextPromptId(s) \in PromptId /\ NextPromptId(s) # NoPrompt
BY PromptIdAssumption DEF NextPromptId, AppState, PromptId, NoPrompt

LEMMA TakeFields ==
  ASSUME NEW s \in AppState, NEW k \in WorkerKind
  PROVE  /\ Take(s, k) \in AppState
         /\ SameList(s, Take(s, k)) /\ SameJournals(s, Take(s, k)) /\ SameSession(s, Take(s, k))
         /\ Take(s, k).close_pending = s.close_pending
         /\ Take(s, k).mutation_locked = s.mutation_locked
         /\ Take(s, k).next_prompt_id = s.next_prompt_id
         /\ Take(s, k).worker = [s.worker EXCEPT ![k] = Absent]
BY DEF Take, AppState, SameList, SameJournals, SameSession

-----------------------------------------------------------------------------
(***************************************************************************)
(* The operators on AppState keep Held.                                    *)
(***************************************************************************)
\* Only the journals and their lock change, and no batch runs.
LEMMA HeldWithJournals ==
  ASSUME NEW s, NEW t, NEW D, Held(s, D), t \in AppState,
         SameList(s, t), SameSession(s, t), t.worker = s.worker, JournalLocked(t),
         t.mutation_locked = s.mutation_locked, t.close_pending = s.close_pending,
         ~Active(s, "Apply")
  PROVE  Held(t, D)
<1> USE DEF Held, SameList, SameSession
<1>1. /\ WorkerActive(t) <=> WorkerActive(s)
      /\ \A k \in WorkerKind : Active(t, k) <=> Active(s, k)
  BY DEF WorkerActive, Active
<1>2. OneLockedWorker(t)
  BY <1>1 DEF OneLockedWorker
<1>3. DialogsHold(t, D)
  BY <1>1 DEF DialogsHold, WorkerKind
<1>4. SessionsHeld(t, D)
  BY <1>1 DEF SessionsHeld, WorkerKind
<1>5. DialogsVersioned(t, D) /\ WorkersVersioned(t)
  BY <1>1 DEF DialogsVersioned, WorkersVersioned
<1>6. BatchFits(t) /\ LockJustified(t)
  BY <1>1 DEF BatchFits, LockJustified, WorkerKind
<1> QED BY <1>2, <1>3, <1>4, <1>5, <1>6

LEMMA HeldPreferences ==
  ASSUME NEW s, NEW D, Held(s, D)
  PROVE  Held([s EXCEPT !.preferences = "Joined"], D)
<1> DEFINE t == [s EXCEPT !.preferences = "Joined"]
<1>1. /\ t \in AppState /\ SameList(s, t) /\ SameJournals(s, t) /\ SameSession(s, t)
      /\ t.worker = s.worker /\ t.mutation_locked = s.mutation_locked
      /\ t.close_pending = s.close_pending
  BY DEF Held, AppState, SameList, SameJournals, SameSession
<1>2. SameWorkers(s, t)
  BY <1>1 DEF SameWorkers, Active
<1> QED BY <1>1, <1>2, HeldStays

\* A worker other than the import is taken and the list unlocked.
LEMMA HeldTaken ==
  ASSUME NEW s, NEW D, Held(s, D), NEW k \in WorkerKind \ {"Import"}, Active(s, k)
  PROVE  LET t == Unlock(Take(s, k))
         IN  /\ Held(t, D)
             /\ SameList(s, t) /\ SameJournals(s, t) /\ SameSession(s, t)
             /\ t.close_pending = s.close_pending
             /\ ~t.mutation_locked /\ ~WorkerActive(t)
             /\ \A d \in D : d.kind \in PromptKind
<1> DEFINE t == Unlock(Take(s, k))
<1>1. s \in AppState
  BY DEF Held
<1>2. /\ t \in AppState /\ SameList(s, t) /\ SameJournals(s, t) /\ SameSession(s, t)
      /\ t.close_pending = s.close_pending /\ ~t.mutation_locked
      /\ t.worker = [s.worker EXCEPT ![k] = Absent]
  <2> DEFINE v == Take(s, k)
  <2>1. /\ v \in AppState /\ SameList(s, v) /\ SameJournals(s, v) /\ SameSession(s, v)
        /\ v.close_pending = s.close_pending
        /\ v.worker = [s.worker EXCEPT ![k] = Absent]
    BY <1>1, TakeFields
  <2>2. t = [v EXCEPT !.mutation_locked = FALSE]
    BY DEF Unlock
  <2> HIDE DEF v, t
  <2> QED BY <2>1, <2>2 DEF AppState, SameList, SameJournals, SameSession
<1>3. \A l \in WorkerKind : ~Active(t, l)
  BY <1>1, <1>2 DEF Held, OneLockedWorker, Active, Absent, AppState
<1>4. ~WorkerActive(t) /\ WorkerActive(s)
  BY <1>3 DEF WorkerActive
<1>5. \A d \in D : d.kind \in PromptKind
  BY <1>4 DEF Held, DialogsHold
<1>6. ~Active(s, "Import")
  BY DEF Held, OneLockedWorker, WorkerKind
<1>7. OneLockedWorker(t) /\ WorkersVersioned(t) /\ BatchFits(t)
  BY <1>3 DEF OneLockedWorker, WorkersVersioned, BatchFits, WorkerKind
<1>8. DialogsHold(t, D) /\ DialogsVersioned(t, D)
  BY <1>2, <1>3, <1>5
  DEF Held, DialogsHold, DialogsVersioned, SameList, SameSession, WorkerKind
<1>9. SessionsHeld(t, D)
  BY <1>2, <1>3, <1>6 DEF Held, SessionsHeld, SameSession, WorkerKind
<1>10. LockJustified(t) /\ JournalLocked(t)
  BY <1>2 DEF Held, LockJustified, JournalLocked, SameJournals
<1> QED BY <1>2, <1>4, <1>5, <1>7, <1>8, <1>9, <1>10 DEF Held

\* The import is taken, and its session with it.
LEMMA HeldImportTaken ==
  ASSUME NEW s, NEW D, Held(s, D), Active(s, "Import")
  PROVE  LET u == UnlockAfterImport(Take(s, "Import"))
             t == ClosePrompt(u)
         IN  /\ Held(t, D) /\ D = {}
             /\ SameList(s, t) /\ SameJournals(s, t)
             /\ t.close_pending = s.close_pending /\ t.active_prompt = NoPrompt
             /\ ~WorkerActive(t)
             /\ u.active_prompt = s.worker["Import"].session
             /\ SameList(s, u) /\ u.close_pending = s.close_pending
<1> DEFINE v == Take(s, "Import")
           u == UnlockAfterImport(v)
           t == ClosePrompt(u)
<1>1. s \in AppState /\ "Import" \in WorkerKind
  BY DEF Held, WorkerKind
<1>2. /\ v \in AppState /\ SameList(s, v) /\ SameJournals(s, v) /\ SameSession(s, v)
      /\ v.close_pending = s.close_pending
      /\ v.worker = [s.worker EXCEPT !["Import"] = Absent]
  BY <1>1, TakeFields
<1>3. \A l \in WorkerKind : ~Active(v, l)
  BY <1>1, <1>2 DEF Held, OneLockedWorker, Active, Absent, AppState
<1>4. ~WorkerActive(v)
  BY <1>3 DEF WorkerActive
<1>5. D = {}
  BY DEF Held, DialogsHold
<1>6. /\ u \in AppState /\ SameList(s, u) /\ SameJournals(s, u) /\ SameSession(s, u)
      /\ u.close_pending = s.close_pending /\ u.mutation_locked = s.close_pending
      /\ u.worker = v.worker
  <2>1. u = [v EXCEPT !.mutation_locked = s.close_pending]
    BY <1>2, <1>4 DEF UnlockAfterImport, AppState
  <2> QED BY <1>1, <1>2, <2>1 DEF AppState, SameList, SameJournals, SameSession
<1>7. u.active_prompt = s.worker["Import"].session
  BY <1>6 DEF Held, SessionsHeld, SameSession
<1>8. /\ t \in AppState /\ SameList(s, t) /\ SameJournals(s, t)
      /\ t.close_pending = s.close_pending /\ t.mutation_locked = s.close_pending
      /\ t.worker = v.worker /\ t.active_prompt = NoPrompt
      /\ t.confirmation_pending = s.confirmation_pending
  BY <1>6, PromptIdAssumption
  DEF ClosePrompt, AppState, SameList, SameJournals, SameSession, NoPrompt, PromptId
<1>9. ~WorkerActive(t) /\ \A l \in WorkerKind : ~Active(t, l)
  BY <1>3, <1>4, <1>8 DEF WorkerActive, Active
<1>10. OneLockedWorker(t) /\ WorkersVersioned(t) /\ BatchFits(t)
  BY <1>9 DEF OneLockedWorker, WorkersVersioned, BatchFits, WorkerKind
<1>11. DialogsHold(t, D) /\ DialogsVersioned(t, D) /\ SessionsHeld(t, D)
  BY <1>5, <1>8, <1>9
  DEF Held, DialogsHold, DialogsVersioned, SessionsHeld, WorkerKind
<1>12. LockJustified(t) /\ JournalLocked(t)
  BY <1>8 DEF Held, LockJustified, JournalLocked, SameJournals
<1> QED BY <1>5, <1>6, <1>7, <1>8, <1>9, <1>10, <1>11, <1>12 DEF Held

\* The list changes while no batch runs: dialogs and workers become stale.
LEMMA HeldCommitted ==
  ASSUME NEW s, NEW D, Held(s, D), NEW c \in Edits(s), ~Active(s, "Apply")
  PROVE  LET t == CommitModel(s, c)
         IN  Held(t, D) /\ t.worker = s.worker /\ t.model = c
<1> DEFINE t == CommitModel(s, c)
<1>1. s \in AppState
  BY DEF Held
<1>2. /\ t.model = c
      /\ t.model_revision = IF c = s.model THEN s.model_revision ELSE s.model_revision + 1
      /\ SameJournals(s, t) /\ SameSession(s, t) /\ t.worker = s.worker
      /\ t.mutation_locked = s.mutation_locked /\ t.close_pending = s.close_pending
  BY <1>1 DEF CommitModel, AppState, SameJournals, SameSession
<1>3. c \in Contents /\ (c # s.model => s.model_revision + 1 \in Revision)
  BY <1>1, WorkbenchAssumption DEF Edits, AppState, Revision
<1>4. t \in AppState
  BY <1>1, <1>3 DEF CommitModel, AppState
<1>5. /\ WorkerActive(t) <=> WorkerActive(s)
      /\ \A k \in WorkerKind : Active(t, k) <=> Active(s, k)
  BY <1>2 DEF WorkerActive, Active
<1>6. OneLockedWorker(t)
  BY <1>2, <1>5 DEF Held, OneLockedWorker
<1>7. DialogsHold(t, D)
  BY <1>2, <1>5 DEF Held, DialogsHold, SameSession, WorkerKind
<1>8. SessionsHeld(t, D)
  BY <1>2, <1>5 DEF Held, SessionsHeld, SameSession, WorkerKind
<1>9. DialogsVersioned(t, D)
  <2> SUFFICES ASSUME NEW d \in D
               PROVE  /\ d.made_for <= d.revision /\ d.revision <= t.model_revision
                      /\ d.made_for = t.model_revision => d.model = t.model
                      /\ d.kind \in PromptKind => d.made_for = d.revision
    BY DEF DialogsVersioned
  <2>1. /\ d.made_for <= d.revision /\ d.revision <= s.model_revision
        /\ d.made_for = s.model_revision => d.model = s.model
        /\ d.kind \in PromptKind => d.made_for = d.revision
    BY DEF Held, DialogsVersioned
  <2>2. d.made_for \in Int /\ d.revision \in Int /\ s.model_revision \in Int
    BY <1>1, WorkbenchAssumption DEF Held, DialogRecord, AppState, Revision
  <2> QED BY <1>2, <2>1, <2>2
<1>10. WorkersVersioned(t)
  <2> SUFFICES ASSUME NEW k \in WorkerKind, Active(t, k)
               PROVE  /\ t.worker[k].revision <= t.model_revision
                      /\ t.worker[k].revision = t.model_revision => t.worker[k].model = t.model
    BY DEF WorkersVersioned
  <2>1. /\ s.worker[k].revision <= s.model_revision
        /\ s.worker[k].revision = s.model_revision => s.worker[k].model = s.model
    BY <1>5 DEF Held, WorkersVersioned
  <2>2. s.worker[k].revision \in Int /\ s.model_revision \in Int
    <3>1. s.worker[k] \in Worker
      BY <1>1, <1>5 DEF AppState, Active, Absent
    <3> QED BY <1>1, <3>1, WorkbenchAssumption DEF Worker, AppState, Revision
  <2> QED BY <1>2, <2>1, <2>2
<1>11. BatchFits(t) /\ LockJustified(t) /\ JournalLocked(t)
  BY <1>2, <1>5
  DEF Held, BatchFits, LockJustified, JournalLocked, SameJournals, SameSession, WorkerKind
<1> QED BY <1>2, <1>4, <1>6, <1>7, <1>8, <1>9, <1>10, <1>11 DEF Held

LEMMA NewWorkers ==
  ASSUME NEW s \in AppState, NEW c \in Contents, NEW p \in PromptId, NEW mode \in WorkerMode
  PROVE  LET w == NewWorker(s, c, p, mode)
         IN  w \in Worker /\ w.revision = s.model_revision /\ w.model = c /\ w.session = p
             /\ w.stage = "Running"
BY DEF NewWorker, Worker, WorkerResult, AppState

LEMMA InstallFields ==
  ASSUME NEW s \in AppState, NEW k \in WorkerKind, NEW w \in Worker
  PROVE  LET t == Install(s, k, w)
         IN  /\ t \in AppState
             /\ SameList(s, t) /\ SameJournals(s, t) /\ SameSession(s, t)
             /\ t.close_pending = s.close_pending /\ t.mutation_locked
             /\ Active(t, k) /\ t.worker[k] = w
             /\ \A l \in WorkerKind : l # k => t.worker[l] = s.worker[l]
<1> DEFINE t == Install(s, k, w)
<1>1. /\ t \in AppState
      /\ SameList(s, t) /\ SameJournals(s, t) /\ SameSession(s, t)
      /\ t.close_pending = s.close_pending
      /\ t.worker = [s.worker EXCEPT ![k] = w]
  BY DEF Install, AppState, SameList, SameJournals, SameSession
<1>2. t.mutation_locked
  BY DEF Install, AppState
<1>3. t.worker[k] = w /\ \A l \in WorkerKind : l # k => t.worker[l] = s.worker[l]
  BY <1>1 DEF AppState
<1>4. Active(t, k)
  BY <1>3 DEF Active, Worker
<1> QED BY <1>1, <1>2, <1>3, <1>4

\* A worker other than the import starts for the present list.
LEMMA HeldInstalled ==
  ASSUME NEW s, NEW D, Held(s, D), ~WorkerActive(s),
         NEW k \in WorkerKind \ {"Import"}, NEW w \in Worker,
         w.revision = s.model_revision, w.model = s.model, w.stage = "Running",
         \A d \in D : d.kind \in PromptKind,
         k = "Apply" => s.journals = {}
  PROVE  LET t == Install(s, k, w)
         IN  Held(t, D) /\ SameList(s, t)
<1> DEFINE t == Install(s, k, w)
<1>1. s \in AppState /\ k \in WorkerKind
  BY DEF Held
<1>2. /\ t \in AppState
      /\ SameList(s, t) /\ SameJournals(s, t) /\ SameSession(s, t)
      /\ t.close_pending = s.close_pending /\ t.mutation_locked
      /\ Active(t, k) /\ t.worker[k] = w
      /\ \A l \in WorkerKind : l # k => t.worker[l] = s.worker[l]
  BY <1>1, InstallFields
<1> HIDE DEF t
<1>3. \A l \in WorkerKind : ~Active(s, l) /\ (Active(t, l) => l = k)
  BY <1>2 DEF WorkerActive, Active
<1>4. WorkerActive(t)
  BY <1>2 DEF WorkerActive
<1>5. ~Active(t, "Import")
  BY <1>3 DEF WorkerKind
<1>6. OneLockedWorker(t)
  BY <1>2, <1>3 DEF OneLockedWorker
<1>7. DialogsHold(t, D) /\ DialogsVersioned(t, D)
  BY <1>2, <1>5 DEF Held, DialogsHold, DialogsVersioned, SameList, SameSession
<1>8. SessionsHeld(t, D)
  BY <1>2, <1>3, <1>5 DEF Held, SessionsHeld, SameSession, WorkerKind
<1>9. WorkersVersioned(t)
  <2>1. s.model_revision \in Int
    BY <1>1, WorkbenchAssumption DEF AppState, Revision
  <2> QED BY <1>2, <1>3, <2>1 DEF WorkersVersioned, SameList
<1>10. BatchFits(t)
  BY <1>2, <1>3 DEF BatchFits, Reports, SameList, SameJournals, WorkerKind
<1>11. LockJustified(t) /\ JournalLocked(t)
  BY <1>2, <1>4 DEF Held, LockJustified, JournalLocked, SameJournals
<1> QED BY <1>2, <1>6, <1>7, <1>8, <1>9, <1>10, <1>11 DEF Held, t

\* A file dialog becomes the import it selected.
LEMMA HeldImportStarted ==
  ASSUME NEW s, NEW D, Held(s, D), ~WorkerActive(s),
         NEW d \in D, d.kind \in {"ImportNames", "ImportPaths"}
  PROVE  LET t == start_import_worker(s, d)
         IN  Held(t, D \ {d}) /\ SameList(s, t)
<1> DEFINE w == NewWorker(s, s.model, d.session, d.kind)
           t == Install(s, "Import", w)
<1>1. s \in AppState /\ "Import" \in WorkerKind /\ d \in DialogRecord
  BY DEF Held, WorkerKind
<1>2. s.model \in Contents /\ d.session \in PromptId /\ d.kind \in WorkerMode
  BY <1>1 DEF AppState, DialogRecord, WorkerMode
<1>3. w \in Worker /\ w.revision = s.model_revision /\ w.model = s.model /\ w.session = d.session
  BY <1>1, <1>2, NewWorkers
<1> HIDE DEF w
<1>4. /\ t \in AppState
      /\ SameList(s, t) /\ SameJournals(s, t) /\ SameSession(s, t)
      /\ t.close_pending = s.close_pending /\ t.mutation_locked
      /\ Active(t, "Import") /\ t.worker["Import"] = w
      /\ \A l \in WorkerKind : l # "Import" => t.worker[l] = s.worker[l]
  BY <1>1, <1>3, InstallFields
<1> HIDE DEF t
<1>5. \A l \in WorkerKind : ~Active(s, l) /\ (Active(t, l) => l = "Import")
  BY <1>4 DEF WorkerActive, Active
<1>6. WorkerActive(t)
  BY <1>1, <1>4 DEF WorkerActive
<1>7. D \ {d} = {}
  BY DEF Held, DialogsHold
<1>8. d.session # NoPrompt /\ d.session = s.active_prompt /\ ~s.confirmation_pending
  BY DEF Held, DialogsHold, PromptKind
<1>9. OneLockedWorker(t)
  BY <1>4, <1>5 DEF OneLockedWorker
<1>10. DialogsHold(t, D \ {d}) /\ DialogsVersioned(t, D \ {d})
  BY <1>7 DEF DialogsHold, DialogsVersioned
<1>11. SessionsHeld(t, D \ {d})
  BY <1>3, <1>4, <1>8 DEF SessionsHeld, SameSession
<1>12. WorkersVersioned(t)
  <2>1. s.model_revision \in Int
    BY <1>1, WorkbenchAssumption DEF AppState, Revision
  <2> QED BY <1>3, <1>4, <1>5, <2>1 DEF WorkersVersioned, SameList
<1>13. BatchFits(t) /\ LockJustified(t) /\ JournalLocked(t)
  BY <1>4, <1>5, <1>6
  DEF Held, BatchFits, LockJustified, JournalLocked, SameJournals, WorkerKind
<1>14. Held(t, D \ {d})
  BY <1>4, <1>9, <1>10, <1>11, <1>12, <1>13 DEF Held
<1> QED BY <1>4, <1>14 DEF start_import_worker, t, w

-----------------------------------------------------------------------------
(***************************************************************************)
(* Dialogs open and are answered.                                          *)
(***************************************************************************)
LEMMA NoDialog ==
  ASSUME NEW s, NEW D, Held(s, D), MayBeginTaskDialog(s)
  PROVE  D = {}
BY DEF Held, DialogsHold, MayBeginTaskDialog, PromptKind

LEMMA OpenFields ==
  ASSUME NEW s \in AppState
  PROVE  LET t == OpenPrompt(s)
         IN  /\ t \in AppState
             /\ SameList(s, t) /\ SameJournals(s, t) /\ t.worker = s.worker
             /\ t.close_pending = s.close_pending
             /\ t.mutation_locked = s.mutation_locked
             /\ t.confirmation_pending = s.confirmation_pending
             /\ t.active_prompt = NextPromptId(s)
<1>1. NextPromptId(s) \in PromptId
  BY PromptIds
<1> QED BY <1>1 DEF OpenPrompt, AppState, SameList, SameJournals

LEMMA BeginFields ==
  ASSUME NEW s \in AppState
  PROVE  LET t == BeginTaskDialog(s)
         IN  /\ t \in AppState
             /\ SameList(s, t) /\ SameJournals(s, t) /\ t.worker = s.worker
             /\ t.close_pending = s.close_pending
             /\ t.mutation_locked /\ t.confirmation_pending
             /\ t.active_prompt = NextPromptId(s)
<1> DEFINE v == OpenPrompt(s)
           t == BeginTaskDialog(s)
<1>1. /\ v \in AppState
      /\ SameList(s, v) /\ SameJournals(s, v) /\ v.worker = s.worker
      /\ v.close_pending = s.close_pending
      /\ v.active_prompt = NextPromptId(s)
  BY OpenFields
<1>2. t = [v EXCEPT !.mutation_locked = TRUE, !.confirmation_pending = TRUE]
  BY DEF BeginTaskDialog
<1> HIDE DEF v, t
<1>3. /\ t \in AppState /\ SameList(s, t) /\ SameJournals(s, t) /\ t.worker = s.worker
      /\ t.close_pending = s.close_pending /\ t.active_prompt = NextPromptId(s)
  BY <1>1, <1>2 DEF AppState, SameList, SameJournals
<1>4. t.mutation_locked /\ t.confirmation_pending
  BY <1>1, <1>2 DEF AppState
<1> QED BY <1>3, <1>4 DEF t

\* A prompt opens while the list is not locked.
LEMMA HeldPromptOpened ==
  ASSUME NEW s, NEW D, Held(s, D), s.active_prompt = NoPrompt, ~s.mutation_locked,
         NEW kind \in PromptKind
  PROVE  LET t == OpenPrompt(s)
         IN  Held(t, D \cup {Dialog(s, kind)}) /\ SameList(s, t)
<1> DEFINE t == OpenPrompt(s)
           d == Dialog(s, kind)
<1>1. s \in AppState
  BY DEF Held
<1>2. /\ t \in AppState
      /\ SameList(s, t) /\ SameJournals(s, t) /\ t.worker = s.worker
      /\ t.close_pending = s.close_pending
      /\ t.mutation_locked = s.mutation_locked
      /\ t.confirmation_pending = s.confirmation_pending
      /\ t.active_prompt = NextPromptId(s)
  BY <1>1, OpenFields
<1>3. NextPromptId(s) \in PromptId /\ NextPromptId(s) # NoPrompt
  BY <1>1, PromptIds
<1>4. /\ d \in DialogRecord /\ d.kind = kind /\ d.session = NextPromptId(s)
      /\ d.revision = s.model_revision /\ d.made_for = s.model_revision /\ d.model = s.model
  BY <1>1, <1>3 DEF Dialog, DialogRecord, DialogKind, AppState
<1> HIDE DEF t, d
<1>5. D = {}
  BY DEF Held, DialogsHold, PromptKind
<1>6. \A l \in WorkerKind : ~Active(s, l) /\ ~Active(t, l)
  BY <1>2 DEF Held, OneLockedWorker, Active
<1>7. OneLockedWorker(t) /\ WorkersVersioned(t) /\ BatchFits(t)
  BY <1>6 DEF OneLockedWorker, WorkersVersioned, BatchFits, WorkerKind
<1>8. DialogsHold(t, {d})
  <2>1. ~t.confirmation_pending
    BY <1>2, <1>5 DEF Held, SessionsHeld
  <2>2. ~Active(t, "Import")
    BY <1>6 DEF WorkerKind
  <2> QED BY <1>2, <1>3, <1>4, <2>1, <2>2 DEF DialogsHold, PromptKind
<1>9. SessionsHeld(t, {d})
  BY <1>6 DEF SessionsHeld, WorkerKind
<1>10. DialogsVersioned(t, {d})
  <2>1. s.model_revision \in Int
    BY <1>1, WorkbenchAssumption DEF AppState, Revision
  <2> QED BY <1>2, <1>4, <2>1 DEF DialogsVersioned, SameList
<1>11. LockJustified(t) /\ JournalLocked(t)
  BY <1>2 DEF Held, LockJustified, JournalLocked, SameJournals
<1>12. Held(t, {d})
  BY <1>2, <1>4, <1>7, <1>8, <1>9, <1>10, <1>11 DEF Held
<1>13. D \cup {d} = {d}
  BY <1>5
<1> QED BY <1>2, <1>12, <1>13 DEF t, d

\* A task dialog opens for what dialog d says, while no worker is active.
LEMMA HeldTaskOpened ==
  ASSUME NEW s, NEW D, Held(s, D), MayBeginTaskDialog(s), ~WorkerActive(s),
         NEW d \in DialogRecord, d.kind \in TaskKind, d.session = NextPromptId(s),
         d.made_for <= d.revision, d.revision = s.model_revision,
         d.made_for = s.model_revision => d.model = s.model
  PROVE  LET t == BeginTaskDialog(s)
         IN  Held(t, D \cup {d}) /\ SameList(s, t)
<1> DEFINE t == BeginTaskDialog(s)
<1>1. s \in AppState
  BY DEF Held
<1>2. /\ t \in AppState
      /\ SameList(s, t) /\ SameJournals(s, t) /\ t.worker = s.worker
      /\ t.close_pending = s.close_pending
      /\ t.mutation_locked /\ t.confirmation_pending
      /\ t.active_prompt = NextPromptId(s)
  BY <1>1, BeginFields
<1>3. NextPromptId(s) # NoPrompt
  BY <1>1, PromptIds
<1> HIDE DEF t
<1>4. D = {}
  BY NoDialog
<1>5. \A l \in WorkerKind : ~Active(t, l)
  BY <1>2 DEF WorkerActive, Active
<1>6. OneLockedWorker(t) /\ WorkersVersioned(t) /\ BatchFits(t) /\ ~WorkerActive(t)
  BY <1>5 DEF OneLockedWorker, WorkersVersioned, BatchFits, WorkerKind, WorkerActive
<1>7. DialogsHold(t, {d})
  <2>1. ~Active(t, "Import")
    BY <1>5 DEF WorkerKind
  <2> QED BY <1>2, <1>3, <1>6, <2>1 DEF DialogsHold, TaskKind, PromptKind
<1>8. SessionsHeld(t, {d})
  BY <1>5 DEF SessionsHeld, WorkerKind
<1>9. DialogsVersioned(t, {d})
  <2>1. s.model_revision \in Int
    BY <1>1, WorkbenchAssumption DEF AppState, Revision
  <2> QED BY <1>2, <2>1 DEF DialogsVersioned, SameList, TaskKind, PromptKind
<1>10. LockJustified(t) /\ JournalLocked(t)
  BY <1>2 DEF Held, LockJustified, JournalLocked, SameJournals
<1>11. Held(t, {d})
  BY <1>2, <1>6, <1>7, <1>8, <1>9, <1>10 DEF Held
<1>12. D \cup {d} = {d}
  BY <1>4
<1> QED BY <1>2, <1>11, <1>12 DEF t

\* The answer of a task dialog takes its session and its lock.
LEMMA HeldTaskTaken ==
  ASSUME NEW s, NEW D, Held(s, D), NEW d \in D, d.kind \in TaskKind
  PROVE  LET t == TakeTaskDialog(s)
         IN  /\ Held(t, D \ {d})
             /\ SameList(s, t) /\ SameJournals(s, t)
             /\ t.close_pending = s.close_pending
             /\ ~WorkerActive(t) /\ ~WorkerActive(s)
             /\ D \ {d} = {} /\ s.active_prompt = d.session
<1> DEFINE t == TakeTaskDialog(s)
<1>1. s \in AppState
  BY DEF Held
<1>2. /\ D \ {d} = {} /\ s.active_prompt = d.session /\ ~WorkerActive(s)
      /\ s.confirmation_pending
  BY DEF Held, DialogsHold, TaskKind, PromptKind
<1>3. /\ t \in AppState /\ SameList(s, t) /\ SameJournals(s, t) /\ t.worker = s.worker
      /\ t.close_pending = s.close_pending /\ t.active_prompt = NoPrompt
  <2>1. (s.close_pending \/ WorkerActive(s)) = s.close_pending
    BY <1>1, <1>2 DEF AppState
  <2>2. t = [s EXCEPT !.active_prompt = NoPrompt, !.confirmation_pending = FALSE,
                      !.mutation_locked = s.close_pending]
    BY <2>1 DEF TakeTaskDialog
  <2>3. NoPrompt \in PromptId
    BY PromptIdAssumption DEF NoPrompt, PromptId
  <2> HIDE DEF t
  <2>4. t \in AppState
    BY <1>1, <2>2, <2>3 DEF AppState
  <2> QED BY <1>1, <2>2, <2>4 DEF AppState, SameList, SameJournals
<1>4. ~t.confirmation_pending
  BY <1>1 DEF TakeTaskDialog, AppState
<1>5. t.mutation_locked => t.close_pending
  BY <1>1, <1>2 DEF TakeTaskDialog, AppState
<1> HIDE DEF t
<1>6. \A l \in WorkerKind : ~Active(t, l)
  BY <1>2, <1>3 DEF WorkerActive, Active
<1>7. OneLockedWorker(t) /\ WorkersVersioned(t) /\ BatchFits(t) /\ ~WorkerActive(t)
  BY <1>6 DEF OneLockedWorker, WorkersVersioned, BatchFits, WorkerKind, WorkerActive
<1>8. DialogsHold(t, D \ {d}) /\ DialogsVersioned(t, D \ {d})
  BY <1>2 DEF DialogsHold, DialogsVersioned
<1>9. SessionsHeld(t, D \ {d})
  BY <1>3, <1>4, <1>6 DEF SessionsHeld, WorkerKind
<1>10. LockJustified(t) /\ JournalLocked(t)
  BY <1>3, <1>5 DEF Held, LockJustified, JournalLocked, SameJournals
<1>11. Held(t, D \ {d})
  BY <1>3, <1>7, <1>8, <1>9, <1>10 DEF Held
<1> QED BY <1>2, <1>3, <1>7, <1>11 DEF t

\* The same for the question of startup, which has no session.
LEMMA HeldStartupTaken ==
  ASSUME NEW s, NEW D, Held(s, D), NEW d \in D, d.kind = "StartupRecovery"
  PROVE  LET t == [s EXCEPT !.mutation_locked = FALSE, !.confirmation_pending = FALSE]
         IN  /\ Held(t, D \ {d})
             /\ SameList(s, t) /\ t.close_pending = s.close_pending
             /\ ~WorkerActive(t)
<1> DEFINE t == [s EXCEPT !.mutation_locked = FALSE, !.confirmation_pending = FALSE]
<1>1. s \in AppState
  BY DEF Held
<1>2. D \ {d} = {} /\ s.active_prompt = NoPrompt /\ ~WorkerActive(s)
  BY DEF Held, DialogsHold, PromptKind
<1>3. /\ t \in AppState /\ SameList(s, t) /\ SameJournals(s, t) /\ t.worker = s.worker
      /\ t.close_pending = s.close_pending /\ t.active_prompt = s.active_prompt
  BY <1>1 DEF AppState, SameList, SameJournals
<1>4. ~t.confirmation_pending /\ ~t.mutation_locked
  BY <1>1 DEF AppState
<1> HIDE DEF t
<1>5. \A l \in WorkerKind : ~Active(t, l)
  BY <1>2, <1>3 DEF WorkerActive, Active
<1>6. OneLockedWorker(t) /\ WorkersVersioned(t) /\ BatchFits(t) /\ ~WorkerActive(t)
  BY <1>5 DEF OneLockedWorker, WorkersVersioned, BatchFits, WorkerKind, WorkerActive
<1>7. DialogsHold(t, D \ {d}) /\ DialogsVersioned(t, D \ {d})
  BY <1>2 DEF DialogsHold, DialogsVersioned
<1>8. SessionsHeld(t, D \ {d})
  BY <1>2, <1>3, <1>4, <1>5 DEF SessionsHeld, WorkerKind
<1>9. LockJustified(t) /\ JournalLocked(t)
  BY <1>3, <1>4 DEF Held, LockJustified, JournalLocked, SameJournals
<1>10. Held(t, D \ {d})
  BY <1>3, <1>6, <1>7, <1>8, <1>9 DEF Held
<1> QED BY <1>3, <1>6, <1>10 DEF t

\* The same for a prompt or a file dialog, which never locked the list. A worker
\* may be active: a drop does not ask for the session.
LEMMA HeldPromptTaken ==
  ASSUME NEW s, NEW D, Held(s, D), NEW d \in D, d.kind \in PromptKind
  PROVE  LET t == ClosePrompt(s)
         IN  /\ Held(t, D \ {d})
             /\ SameList(s, t) /\ SameJournals(s, t) /\ t.worker = s.worker
             /\ t.close_pending = s.close_pending
             /\ D \ {d} = {} /\ s.active_prompt = d.session
<1> DEFINE t == ClosePrompt(s)
<1>1. s \in AppState
  BY DEF Held
<1>2. /\ D \ {d} = {} /\ s.active_prompt = d.session /\ ~s.confirmation_pending
      /\ ~Active(s, "Import")
  BY DEF Held, DialogsHold, PromptKind
<1>3. /\ t \in AppState /\ SameList(s, t) /\ SameJournals(s, t) /\ t.worker = s.worker
      /\ t.close_pending = s.close_pending /\ t.active_prompt = NoPrompt
      /\ t.mutation_locked = s.mutation_locked
      /\ t.confirmation_pending = s.confirmation_pending
  BY <1>1, PromptIdAssumption
  DEF ClosePrompt, AppState, SameList, SameJournals, NoPrompt, PromptId
<1> HIDE DEF t
<1>4. /\ WorkerActive(t) <=> WorkerActive(s)
      /\ \A k \in WorkerKind : Active(t, k) <=> Active(s, k)
  BY <1>3 DEF WorkerActive, Active
<1>5. OneLockedWorker(t) /\ WorkersVersioned(t)
  BY <1>3, <1>4 DEF Held, OneLockedWorker, WorkersVersioned, SameList
<1>6. DialogsHold(t, D \ {d}) /\ DialogsVersioned(t, D \ {d})
  BY <1>2 DEF DialogsHold, DialogsVersioned
<1>7. SessionsHeld(t, D \ {d})
  BY <1>2, <1>3, <1>4 DEF SessionsHeld, WorkerKind
<1>8. BatchFits(t) /\ LockJustified(t) /\ JournalLocked(t)
  BY <1>3, <1>4
  DEF Held, BatchFits, LockJustified, JournalLocked, SameList, SameJournals, WorkerKind
<1>9. Held(t, D \ {d})
  BY <1>3, <1>5, <1>6, <1>7, <1>8 DEF Held
<1> QED BY <1>2, <1>3, <1>9 DEF t

-----------------------------------------------------------------------------
(***************************************************************************)
(* Closing, cancelling and what the threads do.                            *)
(***************************************************************************)
LEMMA HeldClosing ==
  ASSUME NEW s, NEW D, Held(s, D)
  PROVE  LET t == BeginClose(s)
         IN  /\ Held(t, D)
             /\ SameList(s, t) /\ SameJournals(s, t) /\ t.worker = s.worker
<1> DEFINE t == BeginClose(s)
<1>1. s \in AppState
  BY DEF Held
<1>2. CASE s.close_pending
  <2>1. t = s
    BY <1>2 DEF BeginClose
  <2> QED BY <2>1 DEF SameList, SameJournals
<1>3. CASE ~s.close_pending
  <2>1. t = [s EXCEPT !.close_pending = TRUE, !.mutation_locked = TRUE,
                      !.icons = IF @ = "Working" THEN "Retiring" ELSE @,
                      !.timers = IF s.icons = "Joined" THEN @ ELSE @ \cup {"Icons"},
                      !.preferences = IF @ = "Open" THEN "Stopping" ELSE @]
    BY <1>3 DEF BeginClose
  <2> HIDE DEF t
  <2>2. /\ t \in AppState
        /\ SameList(s, t) /\ SameJournals(s, t) /\ SameSession(s, t) /\ t.worker = s.worker
    BY <1>1, <2>1 DEF AppState, SameList, SameJournals, SameSession
  <2>3. t.close_pending /\ t.mutation_locked
    BY <1>1, <2>1 DEF AppState
  <2>4. /\ WorkerActive(t) <=> WorkerActive(s)
        /\ \A k \in WorkerKind : Active(t, k) <=> Active(s, k)
    BY <2>2 DEF WorkerActive, Active
  <2>5. OneLockedWorker(t) /\ WorkersVersioned(t)
    BY <2>2, <2>3, <2>4 DEF Held, OneLockedWorker, WorkersVersioned, SameList
  <2>6. DialogsHold(t, D) /\ DialogsVersioned(t, D)
    BY <2>2, <2>3, <2>4
    DEF Held, DialogsHold, DialogsVersioned, SameList, SameSession, WorkerKind
  <2>7. SessionsHeld(t, D)
    BY <2>2, <2>4 DEF Held, SessionsHeld, SameSession, WorkerKind
  <2>8. BatchFits(t) /\ LockJustified(t) /\ JournalLocked(t)
    BY <2>2, <2>3, <2>4
    DEF Held, BatchFits, LockJustified, JournalLocked, SameList, SameJournals, WorkerKind
  <2>9. Held(t, D)
    BY <2>2, <2>5, <2>6, <2>7, <2>8 DEF Held
  <2> QED BY <2>2, <2>9 DEF t
<1> QED BY <1>2, <1>3

\* The threads of the same workers go on, or are asked to stop.
LEMMA HeldThreads ==
  ASSUME NEW s, NEW D, Held(s, D), NEW f \in [WorkerKind -> Worker \cup {Absent}],
         \A k \in WorkerKind :
           /\ (f[k].stage # "Absent") <=> Active(s, k)
           /\ Active(s, k) => /\ f[k].revision = s.worker[k].revision
                              /\ f[k].model = s.worker[k].model
                              /\ f[k].session = s.worker[k].session
                              /\ k = "Apply" /\ Reports(s.worker[k]) => Reports(f[k])
  PROVE  LET t == [s EXCEPT !.worker = f]
         IN  Held(t, D) /\ SameList(s, t) /\ t.worker = f
<1> DEFINE t == [s EXCEPT !.worker = f]
<1>1. /\ t \in AppState /\ t.worker = f
      /\ SameList(s, t) /\ SameJournals(s, t) /\ SameSession(s, t)
      /\ t.mutation_locked = s.mutation_locked /\ t.close_pending = s.close_pending
  BY DEF Held, AppState, SameList, SameJournals, SameSession
<1> HIDE DEF t
<1>2. SameWorkers(s, t)
  BY <1>1 DEF SameWorkers, Active
<1>3. Held(t, D)
  BY <1>1, <1>2, HeldStays
<1> QED BY <1>1, <1>3 DEF t

LEMMA WorkerTyped ==
  ASSUME NEW s \in AppState, NEW k \in WorkerKind, Active(s, k)
  PROVE  s.worker[k] \in Worker
BY DEF AppState, Active, Absent

\* One worker's record changes, but not the list and the session it is for.
LEMMA HeldThread ==
  ASSUME NEW s, NEW D, Held(s, D), NEW k \in WorkerKind, Active(s, k), NEW w \in Worker,
         w.revision = s.worker[k].revision, w.model = s.worker[k].model,
         w.session = s.worker[k].session, k = "Apply" /\ Reports(s.worker[k]) => Reports(w)
  PROVE  LET t == [s EXCEPT !.worker[k] = w]
         IN  Held(t, D) /\ SameList(s, t) /\ \A l \in WorkerKind : Active(t, l) <=> Active(s, l)
<1> DEFINE f == [s.worker EXCEPT ![k] = w]
<1>1. s \in AppState /\ s.worker \in [WorkerKind -> Worker \cup {Absent}]
  BY DEF Held, AppState
<1>2. f \in [WorkerKind -> Worker \cup {Absent}]
  BY <1>1
<1>3. w.stage # "Absent"
  BY DEF Worker
<1>4. f[k] = w /\ \A l \in WorkerKind : l # k => f[l] = s.worker[l]
  BY <1>1
<1> HIDE DEF f
<1>5. \A l \in WorkerKind :
        /\ (f[l].stage # "Absent") <=> Active(s, l)
        /\ Active(s, l) => /\ f[l].revision = s.worker[l].revision
                           /\ f[l].model = s.worker[l].model
                           /\ f[l].session = s.worker[l].session
                           /\ l = "Apply" /\ Reports(s.worker[l]) => Reports(f[l])
  BY <1>3, <1>4 DEF Active
<1>6. LET t == [s EXCEPT !.worker = f] IN Held(t, D) /\ SameList(s, t) /\ t.worker = f
  BY <1>2, <1>5, HeldThreads
<1>7. [s EXCEPT !.worker[k] = w] = [s EXCEPT !.worker = f]
  BY DEF f
<1> QED BY <1>5, <1>6, <1>7 DEF Active

LEMMA HeldCancelled ==
  ASSUME NEW s, NEW D, Held(s, D)
  PROVE  LET t == CancelForClose(s)
         IN  Held(t, D) /\ SameList(s, t) /\ \A l \in WorkerKind : Active(t, l) <=> Active(s, l)
<1> DEFINE f == [k \in WorkerKind |->
                   IF Cancellable(s, k) THEN [s.worker[k] EXCEPT !.cancelled = TRUE]
                   ELSE s.worker[k]]
<1>1. s \in AppState /\ s.worker \in [WorkerKind -> Worker \cup {Absent}]
  BY DEF Held, AppState
<1>2. ASSUME NEW k \in WorkerKind
      PROVE  /\ f[k] \in Worker \cup {Absent}
             /\ (f[k].stage # "Absent") <=> Active(s, k)
             /\ Active(s, k) => /\ f[k].revision = s.worker[k].revision
                                /\ f[k].model = s.worker[k].model
                                /\ f[k].session = s.worker[k].session
                                /\ k = "Apply" /\ Reports(s.worker[k]) => Reports(f[k])
  <2>1. CASE Cancellable(s, k)
    <3>1. Active(s, k) /\ s.worker[k] \in Worker
      BY <1>1, <2>1, WorkerTyped DEF Cancellable
    <3>2. f[k] = [s.worker[k] EXCEPT !.cancelled = TRUE]
      BY <2>1
    <3> HIDE DEF f
    <3> QED BY <3>1, <3>2 DEF Worker, Reports
  <2>2. CASE ~Cancellable(s, k)
    <3>1. f[k] = s.worker[k]
      BY <2>2
    <3> HIDE DEF f
    <3> QED BY <1>1, <3>1 DEF Active
  <2> QED BY <2>1, <2>2
<1>3. f \in [WorkerKind -> Worker \cup {Absent}]
  BY <1>2
<1>4. CancelForClose(s) = [s EXCEPT !.worker = f]
  BY DEF CancelForClose
<1> HIDE DEF f
<1>5. \A k \in WorkerKind :
        /\ (f[k].stage # "Absent") <=> Active(s, k)
        /\ Active(s, k) => /\ f[k].revision = s.worker[k].revision
                           /\ f[k].model = s.worker[k].model
                           /\ f[k].session = s.worker[k].session
                           /\ k = "Apply" /\ Reports(s.worker[k]) => Reports(f[k])
  BY <1>2
<1>6. LET t == [s EXCEPT !.worker = f] IN Held(t, D) /\ SameList(s, t) /\ t.worker = f
  BY <1>3, <1>5, HeldThreads
<1> QED BY <1>4, <1>5, <1>6 DEF Active

-----------------------------------------------------------------------------
(***************************************************************************)
(* The frame of a handler: what it leaves of AppState is held, and its     *)
(* posts stay in the queue's alphabet.                                     *)
(***************************************************************************)
LEMMA LiveHeld ==
  ASSUME WorkbenchInv, window # "Destroyed"
  PROVE  Held(app, dialogs) /\ app \in AppState
BY DEF WorkbenchInv

LEMMA LiveWindow ==
  ASSUME Live
  PROVE  window # "Destroyed" /\ window' = window
BY DEF Live

LEMMA InvFromHeld ==
  ASSUME WorkbenchInv, window # "Destroyed", window' = window, Held(app', dialogs'),
         posted' \subseteq Message, lost' \in 0..MaxLost
  PROVE  WorkbenchInv'
<1>1. app' \in AppState /\ dialogs' \subseteq DialogRecord /\ JournalLocked(app')
  BY DEF Held
<1>2. NothingOutlivesWindow'
  BY DEF NothingOutlivesWindow
<1>3. window' \in {"Live", "Failing", "Destroyed", "Aborted"}
  BY DEF WorkbenchInv
<1> QED BY <1>1, <1>2, <1>3 DEF WorkbenchInv

LEMMA Posted ==
  ASSUME WorkbenchInv, NEW m, NEW n \in Message,
         Post(n) \/ PostAfter(m, n) \/ Consume(m)
  PROVE  posted' \subseteq Message /\ lost' \in 0..MaxLost
<1>1. posted \subseteq Message /\ lost \in 0..MaxLost
  BY DEF WorkbenchInv
<1>2. lost' \in 0..MaxLost
  BY <1>1, WorkbenchAssumption DEF Post, PostAfter, Consume
<1> QED BY <1>1, <1>2 DEF Post, PostAfter, Consume

LEMMA Handled ==
  ASSUME WorkbenchInv, Live, NEW s, NEW m, Held(s, dialogs'),
         FinishWith(s, m) \/ EndWith(s, m)
  PROVE  WorkbenchInv' /\ app'.model = s.model /\ app'.worker = s.worker
<1>1. window # "Destroyed" /\ window' = window
  BY LiveWindow
<1>2. "FinishClose" \in Message
  BY DEF Message
<1>3. CASE app' = s /\ Consume(m)
  BY <1>1, <1>2, <1>3, Posted, InvFromHeld
<1>4. CASE app' = [s EXCEPT !.preferences = "Joined"] /\ PostAfter(m, "FinishClose")
  <2>1. Held(app', dialogs')
    BY <1>4, HeldPreferences
  <2>2. app'.model = s.model /\ app'.worker = s.worker
    BY <1>4 DEF Held, AppState
  <2> QED BY <1>1, <1>2, <1>4, <2>1, <2>2, Posted, InvFromHeld
<1> QED BY <1>3, <1>4 DEF FinishWith, EndWith

LEMMA Commanded ==
  ASSUME WorkbenchInv, NEW s, NEW opened, Command(s, opened), Held(s, dialogs \cup opened)
  PROVE  WorkbenchInv' /\ app' = s /\ dialogs \subseteq dialogs'
<1>1. /\ Live /\ app' = s /\ dialogs' = dialogs \cup opened
      /\ posted' = posted /\ lost' = lost
  BY DEF Command
<1>2. window # "Destroyed" /\ window' = window
  BY <1>1, LiveWindow
<1>3. posted' \subseteq Message /\ lost' \in 0..MaxLost
  BY <1>1 DEF WorkbenchInv
<1> QED BY <1>1, <1>2, <1>3, InvFromHeld

\* A step that answers no dialog and keeps the list, or meets no worker.
LEMMA HarmlessStep ==
  ASSUME dialogs \subseteq dialogs', app'.model = app.model \/ ~WorkerActive(app)
  PROVE  AnswersMeetTheirList /\ ResultsMeetTheirList
BY DEF AnswersMeetTheirList, ResultsMeetTheirList, WorkerActive

LEMMA NotLocked ==
  ASSUME NEW s, NEW D, Held(s, D), ~s.mutation_locked
  PROVE  /\ ~WorkerActive(s) /\ ~Active(s, "Apply")
         /\ \A d \in D : d.kind \in PromptKind
<1>1. ~WorkerActive(s) /\ ~Active(s, "Apply")
  BY DEF Held, OneLockedWorker, WorkerActive, WorkerKind
<1>2. \A d \in D : d.kind \in PromptKind
  BY DEF Held, DialogsHold
<1> QED BY <1>1, <1>2

-----------------------------------------------------------------------------
(***************************************************************************)
(* One lemma per action: the invariant is kept, and answers and results    *)
(* meet their list. First the user's commands.                             *)
(***************************************************************************)
Kept == WorkbenchInv' /\ AnswersMeetTheirList /\ ResultsMeetTheirList

LEMMA EditListKept ==
  ASSUME WorkbenchInv, EditList
  PROVE  Kept
<1>1. PICK c \in Edits(app) \ {app.model} : Command(CommitModel(app, c), {})
  BY DEF EditList
<1>2. window # "Destroyed" /\ ~app.mutation_locked
  BY <1>1, LiveWindow DEF EditList, Admits, Command
<1>3. Held(app, dialogs)
  BY <1>2, LiveHeld
<1>4. ~WorkerActive(app) /\ ~Active(app, "Apply")
  BY <1>2, <1>3, NotLocked
<1>5. Held(CommitModel(app, c), dialogs)
  BY <1>3, <1>4, HeldCommitted
<1>6. dialogs \cup {} = dialogs
  OBVIOUS
<1>7. WorkbenchInv' /\ dialogs \subseteq dialogs'
  BY <1>1, <1>5, <1>6, Commanded
<1> QED BY <1>4, <1>7, HarmlessStep DEF Kept

\* A worker other than the import starts for the list on screen.
LEMMA HeldStarted ==
  ASSUME NEW s, NEW D, Held(s, D), ~WorkerActive(s),
         NEW k \in WorkerKind \ {"Import"}, NEW mode \in WorkerMode,
         \A d \in D : d.kind \in PromptKind,
         k = "Apply" => s.journals = {}
  PROVE  LET t == Install(s, k, NewWorker(s, s.model, NoPrompt, mode))
         IN  Held(t, D) /\ SameList(s, t)
<1> DEFINE w == NewWorker(s, s.model, NoPrompt, mode)
<1>1. s \in AppState /\ s.model \in Contents
  BY DEF Held, AppState
<1>2. NoPrompt \in PromptId
  BY PromptIdAssumption DEF NoPrompt, PromptId
<1>3. /\ w \in Worker /\ w.stage = "Running"
      /\ w.revision = s.model_revision /\ w.model = s.model
  BY <1>1, <1>2, NewWorkers
<1> HIDE DEF w
<1>4. LET t == Install(s, k, w) IN Held(t, D) /\ SameList(s, t)
  BY <1>3, HeldInstalled
<1> QED BY <1>4 DEF w

LEMMA StartsKept ==
  ASSUME WorkbenchInv, ApplyCommand \/ DropFiles
  PROVE  Kept
<1> DEFINE k == IF ApplyCommand THEN "Plan" ELSE "Admission"
           s == Install(app, k, NewWorker(app, app.model, NoPrompt, "None"))
<1>1. Command(s, {}) /\ ~app.mutation_locked /\ k \in WorkerKind \ {"Import", "Apply"}
  BY DEF ApplyCommand, DropFiles, start_plan_worker, start_admission_worker, Admits,
         drop_locked, apply_locked, WorkerKind
<1>2. window # "Destroyed"
  BY <1>1, LiveWindow DEF Command
<1>3. Held(app, dialogs)
  BY <1>2, LiveHeld
<1>4. ~WorkerActive(app) /\ \A d \in dialogs : d.kind \in PromptKind
  BY <1>1, <1>3, NotLocked
<1>5. "None" \in WorkerMode /\ k \in WorkerKind \ {"Import"} /\ k # "Apply"
  BY <1>1 DEF WorkerMode
<1> HIDE DEF k
<1>6. Held(s, dialogs)
  BY <1>3, <1>4, <1>5, HeldStarted
<1>7. dialogs \cup {} = dialogs
  OBVIOUS
<1>8. WorkbenchInv' /\ dialogs \subseteq dialogs'
  BY <1>1, <1>6, <1>7, Commanded
<1> QED BY <1>4, <1>8, HarmlessStep DEF Kept

LEMMA PromptCommandKept ==
  ASSUME WorkbenchInv, NEW kind \in PromptKind, PromptCommand(kind)
  PROVE  Kept
<1>1. /\ Command(OpenPrompt(app), {Dialog(app, kind)})
      /\ app.active_prompt = NoPrompt /\ ~app.mutation_locked
  BY DEF PromptCommand, Admits
<1>2. window # "Destroyed"
  BY <1>1, LiveWindow DEF Command
<1>3. Held(app, dialogs)
  BY <1>2, LiveHeld
<1>4. Held(OpenPrompt(app), dialogs \cup {Dialog(app, kind)})
  BY <1>1, <1>3, HeldPromptOpened
<1>5. ~WorkerActive(app)
  BY <1>1, <1>3, NotLocked
<1>6. WorkbenchInv' /\ dialogs \subseteq dialogs'
  BY <1>1, <1>4, Commanded
<1> QED BY <1>5, <1>6, HarmlessStep DEF Kept

LEMMA DialogTyped ==
  ASSUME NEW s \in AppState, NEW kind \in DialogKind
  PROVE  LET d == Dialog(s, kind)
         IN  /\ d \in DialogRecord /\ d.kind = kind /\ d.session = NextPromptId(s)
             /\ d.revision = s.model_revision /\ d.made_for = s.model_revision
             /\ d.model = s.model /\ d.made_for <= d.revision
<1>1. NextPromptId(s) \in PromptId
  BY PromptIds
<1>2. s.model_revision \in Int
  BY WorkbenchAssumption DEF AppState, Revision
<1> QED BY <1>1, <1>2 DEF Dialog, DialogRecord, AppState

LEMMA TaskCommandKept ==
  ASSUME WorkbenchInv, NEW kind \in {"Details", "Export", "Discard"}, TaskCommand(kind)
  PROVE  Kept
<1> DEFINE d == Dialog(app, kind)
<1>1. /\ Command(BeginTaskDialog(app), {d})
      /\ MayBeginTaskDialog(app) /\ ~app.mutation_locked
  BY DEF TaskCommand, Admits
<1>2. window # "Destroyed"
  BY <1>1, LiveWindow DEF Command
<1>3. Held(app, dialogs) /\ app \in AppState
  BY <1>2, LiveHeld
<1>4. ~WorkerActive(app)
  BY <1>1, <1>3, NotLocked
<1>5. kind \in DialogKind /\ kind \in TaskKind
  BY DEF DialogKind, TaskKind
<1>6. /\ d \in DialogRecord /\ d.kind = kind /\ d.session = NextPromptId(app)
      /\ d.revision = app.model_revision /\ d.made_for = app.model_revision
      /\ d.model = app.model /\ d.made_for <= d.revision
  BY <1>3, <1>5, DialogTyped
<1> HIDE DEF d
<1>7. Held(BeginTaskDialog(app), dialogs \cup {d})
  BY <1>1, <1>3, <1>4, <1>5, <1>6, HeldTaskOpened
<1>8. WorkbenchInv' /\ dialogs \subseteq dialogs'
  BY <1>1, <1>7, Commanded
<1> QED BY <1>4, <1>8, HarmlessStep DEF Kept

LEMMA CancelKept ==
  ASSUME WorkbenchInv, CancelWorker
  PROVE  Kept
<1>1. PICK k \in ActiveWorkerKind(app) : Command([app EXCEPT !.worker[k].cancelled = TRUE], {})
  BY DEF CancelWorker
<1>2. window # "Destroyed"
  BY <1>1, LiveWindow DEF Command
<1>3. Held(app, dialogs) /\ app \in AppState
  BY <1>2, LiveHeld
<1>4. k \in WorkerKind /\ Active(app, k)
  BY DEF ActiveWorkerKind
<1>5. app.worker[k] \in Worker
  BY <1>3, <1>4, WorkerTyped
<1> DEFINE w == [app.worker[k] EXCEPT !.cancelled = TRUE]
           s == [app EXCEPT !.worker[k] = w]
<1>6. /\ w \in Worker /\ w.revision = app.worker[k].revision
      /\ w.model = app.worker[k].model /\ w.session = app.worker[k].session
      /\ Reports(app.worker[k]) => Reports(w)
  BY <1>5 DEF Worker, Reports
<1>7. s = [app EXCEPT !.worker[k].cancelled = TRUE]
  OBVIOUS
<1> HIDE DEF w
<1>8. Held(s, dialogs) /\ SameList(app, s)
  BY <1>3, <1>4, <1>6, HeldThread
<1>9. dialogs \cup {} = dialogs
  OBVIOUS
<1> HIDE DEF s
<1>10. WorkbenchInv' /\ app' = s /\ dialogs \subseteq dialogs'
  BY <1>1, <1>7, <1>8, <1>9, Commanded
<1> QED BY <1>8, <1>10, HarmlessStep DEF Kept, SameList

LEMMA UserKept ==
  ASSUME WorkbenchInv, User
  PROVE  Kept
<1>1. CASE EditList \/ ApplyCommand \/ DropFiles \/ CancelWorker
  BY <1>1, EditListKept, StartsKept, CancelKept
<1>2. CASE \E kind \in UserDialogs \cap PromptKind : PromptCommand(kind)
  BY <1>2, PromptCommandKept
<1>3. CASE \E kind \in UserDialogs \cap {"Details", "Export", "Discard"} : TaskCommand(kind)
  BY <1>3, TaskCommandKept
<1> QED BY <1>1, <1>2, <1>3 DEF User

-----------------------------------------------------------------------------
(***************************************************************************)
(* Threads.                                                                *)
(***************************************************************************)
LEMMA ThreadKept ==
  ASSUME WorkbenchInv, NEW k \in WorkerKind, Active(app, k), NEW w \in Worker,
         w.revision = app.worker[k].revision, w.model = app.worker[k].model,
         w.session = app.worker[k].session,
         k = "Apply" /\ Reports(app.worker[k]) => Reports(w), app' = [app EXCEPT !.worker[k] = w],
         dialogs' = dialogs, window' = window,
         posted' \subseteq Message, lost' \in 0..MaxLost
  PROVE  Kept
<1>1. window # "Destroyed"
  BY DEF WorkbenchInv, NothingOutlivesWindow, WorkerActive
<1>2. Held(app, dialogs)
  BY <1>1, LiveHeld
<1>3. Held(app', dialogs) /\ SameList(app, app')
  BY <1>2, HeldThread
<1>4. WorkbenchInv'
  BY <1>1, <1>3, InvFromHeld
<1> QED BY <1>3, <1>4, HarmlessStep DEF Kept, SameList

LEMMA WorkerEndsKept ==
  ASSUME WorkbenchInv, NEW k \in WorkerKind, WorkerEnds(k)
  PROVE  Kept
<1>1. app \in AppState /\ Active(app, k)
  BY DEF WorkbenchInv, WorkerEnds, Active
<1>2. app.worker[k] \in Worker
  BY <1>1, WorkerTyped
<1>3. PICK r \in Result(k) :
        app' = [app EXCEPT !.worker[k].stage = "Ended", !.worker[k].result = r]
  BY DEF WorkerEnds
<1>4. r \in WorkerResult
  BY DEF Result, WorkerResult, WorkerKind
<1> DEFINE w == [app.worker[k] EXCEPT !.stage = "Ended", !.result = r]
<1>5. /\ w \in Worker /\ w.revision = app.worker[k].revision
      /\ w.model = app.worker[k].model /\ w.session = app.worker[k].session
      /\ k = "Apply" => Reports(w)
  BY <1>2, <1>4 DEF Worker, Reports
<1>6. app' = [app EXCEPT !.worker[k] = w]
  BY <1>1, <1>3 DEF AppState
<1>7. k \in Message /\ Post(k) /\ dialogs' = dialogs /\ window' = window
  BY DEF WorkerEnds, Message
<1>8. posted' \subseteq Message /\ lost' \in 0..MaxLost
  BY <1>7, Posted
<1> HIDE DEF w
<1> QED BY <1>1, <1>5, <1>6, <1>7, <1>8, ThreadKept

LEMMA WorkerExitsKept ==
  ASSUME WorkbenchInv, NEW k \in WorkerKind, WorkerExits(k)
  PROVE  Kept
<1>1. app \in AppState /\ Active(app, k)
  BY DEF WorkbenchInv, WorkerExits, Active
<1>2. app.worker[k] \in Worker
  BY <1>1, WorkerTyped
<1> DEFINE w == [app.worker[k] EXCEPT !.stage = "Finished"]
<1>3. /\ w \in Worker /\ w.revision = app.worker[k].revision
      /\ w.model = app.worker[k].model /\ w.session = app.worker[k].session
      /\ Reports(app.worker[k]) => Reports(w)
  BY <1>2 DEF Worker, Reports, WorkerExits
<1>4. app' = [app EXCEPT !.worker[k] = w]
  BY DEF WorkerExits
<1>5. /\ dialogs' = dialogs /\ window' = window
      /\ posted' \subseteq Message /\ lost' \in 0..MaxLost
  BY DEF WorkerExits, WorkbenchInv
<1> HIDE DEF w
<1> QED BY <1>1, <1>3, <1>4, <1>5, ThreadKept

LEMMA ApplyFinishingKept ==
  ASSUME WorkbenchInv, ApplyFinishing
  PROVE  Kept
<1>1. app \in AppState /\ Active(app, "Apply") /\ "Apply" \in WorkerKind
  BY DEF WorkbenchInv, ApplyFinishing, Active, WorkerKind
<1>2. app.worker["Apply"] \in Worker
  BY <1>1, WorkerTyped
<1> DEFINE w == [app.worker["Apply"] EXCEPT !.mode = "Finishing"]
<1>3. /\ w \in Worker /\ w.revision = app.worker["Apply"].revision
      /\ w.model = app.worker["Apply"].model /\ w.session = app.worker["Apply"].session
      /\ Reports(app.worker["Apply"]) => Reports(w)
  BY <1>2 DEF Worker, WorkerMode, Reports
<1>4. app' = [app EXCEPT !.worker["Apply"] = w]
  BY DEF ApplyFinishing
<1>5. /\ dialogs' = dialogs /\ window' = window
      /\ posted' \subseteq Message /\ lost' \in 0..MaxLost
  BY DEF ApplyFinishing, WorkbenchInv
<1> HIDE DEF w
<1> QED BY <1>1, <1>3, <1>4, <1>5, ThreadKept

-----------------------------------------------------------------------------
(***************************************************************************)
(* The icon worker and the preference writers touch no lock and no list.   *)
(***************************************************************************)
SameOwners(s, t) ==
  /\ SameList(s, t) /\ SameJournals(s, t) /\ SameSession(s, t)
  /\ t.worker = s.worker
  /\ t.mutation_locked = s.mutation_locked /\ t.close_pending = s.close_pending

LEMMA HeldOwners ==
  ASSUME NEW s, NEW t \in AppState, NEW D, Held(s, D), SameOwners(s, t)
  PROVE  Held(t, D)
<1>1. SameWorkers(s, t)
  BY DEF SameOwners, SameWorkers, Active
<1> QED BY <1>1, HeldStays DEF SameOwners

LEMMA PollJoinOwners ==
  ASSUME NEW s \in AppState
  PROVE  PollJoin(s) \in AppState /\ SameOwners(s, PollJoin(s))
<1> DEFINE t == [s EXCEPT !.icons = IF @ = "Exited" /\ window = "Live" THEN "Joined" ELSE @]
           u == [t EXCEPT !.timers = @ \ {"Icons"}]
<1>1. t \in AppState /\ SameOwners(s, t)
  BY DEF AppState, SameOwners, SameList, SameJournals, SameSession
<1>2. PollJoin(s) = IF t.close_pending /\ t.icons = "Joined" THEN u ELSE t
  BY DEF PollJoin
<1> HIDE DEF t
<1>3. u \in AppState /\ SameOwners(s, u)
  BY <1>1 DEF AppState, SameOwners, SameList, SameJournals, SameSession
<1> QED BY <1>1, <1>2, <1>3

LEMMA ShellKept ==
  ASSUME WorkbenchInv, window # "Destroyed", window' = window, dialogs' = dialogs,
         app' \in AppState, SameOwners(app, app'),
         posted' \subseteq Message, lost' \in 0..MaxLost
  PROVE  Kept
<1>1. Held(app, dialogs)
  BY LiveHeld
<1>2. Held(app', dialogs')
  BY <1>1, HeldOwners
<1>3. WorkbenchInv'
  BY <1>2, InvFromHeld
<1> QED BY <1>3, HarmlessStep DEF Kept, SameOwners, SameList

LEMMA IconsKept ==
  ASSUME WorkbenchInv,
         IconPublishes \/ IconBootstrapFails \/ IconWorkerExits \/ PreferencesExit
  PROVE  Kept
<1>1. app \in AppState
  BY DEF WorkbenchInv
<1>2. window # "Destroyed" /\ window' = window /\ dialogs' = dialogs
  BY DEF IconPublishes, IconBootstrapFails, IconWorkerExits, PreferencesExit,
         Live, WorkbenchInv, NothingOutlivesWindow
<1>3. app' \in AppState /\ SameOwners(app, app')
  BY <1>1 DEF IconPublishes, IconBootstrapFails, IconWorkerExits, PreferencesExit,
         AppState, SameOwners, SameList, SameJournals, SameSession
<1>4. posted' \subseteq Message /\ lost' \in 0..MaxLost
  <2>1. CASE Post("IconWake") \/ Post("PreferencesWake")
    <3>1. "IconWake" \in Message /\ "PreferencesWake" \in Message
      BY DEF Message
    <3> QED BY <2>1, <3>1, Posted
  <2>2. CASE posted' = posted /\ lost' = lost
    BY <2>2 DEF WorkbenchInv
  <2> QED
    BY <2>1, <2>2 DEF IconPublishes, IconBootstrapFails, IconWorkerExits, PreferencesExit
<1> QED BY <1>2, <1>3, <1>4, ShellKept

\* A handler that leaves list, lock, session and workers alone.
LEMMA HandledOwners ==
  ASSUME WorkbenchInv, Live, NEW s \in AppState, NEW m, SameOwners(app, s),
         dialogs' = dialogs, FinishWith(s, m) \/ EndWith(s, m)
  PROVE  Kept
<1>1. Held(app, dialogs)
  BY LiveWindow, LiveHeld
<1>2. Held(s, dialogs')
  BY <1>1, HeldOwners
<1>3. WorkbenchInv' /\ app'.model = s.model
  BY <1>2, Handled
<1> QED BY <1>3, HarmlessStep DEF Kept, SameOwners, SameList

LEMMA ShellHandlersKept ==
  ASSUME WorkbenchInv, IconWake \/ IconTimer \/ PreferencesWake
  PROVE  Kept
<1>1. app \in AppState /\ SameOwners(app, app)
  BY DEF WorkbenchInv, SameOwners, SameList, SameJournals, SameSession
<1>2. PollJoin(app) \in AppState /\ SameOwners(app, PollJoin(app))
  BY <1>1, PollJoinOwners
<1>3. CASE IconWake
  BY <1>2, <1>3, HandledOwners DEF IconWake
<1>4. CASE IconTimer
  BY <1>2, <1>4, HandledOwners DEF IconTimer
<1>5. CASE PreferencesWake
  BY <1>1, <1>5, HandledOwners DEF PreferencesWake
<1> QED BY <1>3, <1>4, <1>5

LEMMA EarlyCompletionKept ==
  ASSUME WorkbenchInv, NEW k \in WorkerKind, EarlyCompletion(k)
  PROVE  Kept
<1>1. app \in AppState /\ SameOwners(app, app)
  BY DEF WorkbenchInv, SameOwners, SameList, SameJournals, SameSession
<1>2. Live /\ EndWith(app, k) /\ dialogs' = dialogs
  BY DEF EarlyCompletion, EndWith
<1> QED BY <1>1, <1>2, HandledOwners

-----------------------------------------------------------------------------
(***************************************************************************)
(* Completions. The worker that is taken is the only one, so a list that   *)
(* changes is the one it was started for.                                  *)
(***************************************************************************)
LEMMA OwnResult ==
  ASSUME Held(app, dialogs), dialogs \subseteq dialogs',
         NEW k \in WorkerKind, Active(app, k), app.worker[k].model = app.model,
         k = "Import" => ~app.worker[k].cancelled,
         k # "Apply" => ~app.close_pending
  PROVE  AnswersMeetTheirList /\ ResultsMeetTheirList
<1>1. \A l \in WorkerKind : Active(app, l) => l = k
  BY DEF Held, OneLockedWorker
<1> QED BY <1>1 DEF AnswersMeetTheirList, ResultsMeetTheirList

\* What a completion handler finds.
LEMMA Finished ==
  ASSUME WorkbenchInv, Live, NEW k \in WorkerKind, Done(k)
  PROVE  /\ Held(app, dialogs) /\ app \in AppState
         /\ Active(app, k) /\ app.worker[k] \in Worker
         /\ app.worker[k].revision \in Int /\ app.model_revision \in Int
         /\ app.worker[k].revision <= app.model_revision
         /\ app.worker[k].revision = app.model_revision => app.worker[k].model = app.model
<1>1. Held(app, dialogs) /\ app \in AppState
  BY LiveWindow, LiveHeld
<1>2. Active(app, k)
  BY DEF Done, Active
<1>3. app.worker[k] \in Worker
  BY <1>1, <1>2, WorkerTyped
<1>4. app.worker[k].revision \in Int /\ app.model_revision \in Int
  BY <1>1, <1>3, WorkbenchAssumption DEF Worker, AppState, Revision
<1> QED BY <1>1, <1>2, <1>3, <1>4 DEF Held, WorkersVersioned

LEMMA PlanCompletionKept ==
  ASSUME WorkbenchInv, NEW m, PlanCompletion(m)
  PROVE  Kept
<1> DEFINE w == app.worker["Plan"]
           s == Unlock(Take(app, "Plan"))
           d == [kind |-> "Apply", session |-> NextPromptId(s), revision |-> s.model_revision,
                 made_for |-> w.revision, model |-> w.model]
<1>1. Live /\ Done("Plan") /\ "Plan" \in WorkerKind \ {"Import"}
  BY DEF PlanCompletion, WorkerKind
<1>2. /\ Held(app, dialogs) /\ app \in AppState
      /\ Active(app, "Plan") /\ w \in Worker
      /\ w.revision <= app.model_revision
      /\ w.revision = app.model_revision => w.model = app.model
  BY <1>1, Finished
<1>3. Held(s, dialogs) /\ SameList(app, s) /\ ~WorkerActive(s)
  BY <1>1, <1>2, HeldTaken
<1>4. \/ dialogs' = dialogs /\ (FinishWith(s, m) \/ EndWith(s, m))
      \/ /\ MayBeginTaskDialog(s) /\ EndWith(BeginTaskDialog(s), m)
         /\ dialogs' = dialogs \cup {d}
  BY DEF PlanCompletion
<1> HIDE DEF s
<1>5. CASE dialogs' = dialogs /\ (FinishWith(s, m) \/ EndWith(s, m))
  <2>1. WorkbenchInv' /\ app'.model = s.model
    BY <1>1, <1>3, <1>5, Handled
  <2> QED BY <1>3, <1>5, <2>1, HarmlessStep DEF Kept, SameList
<1>6. CASE /\ MayBeginTaskDialog(s) /\ EndWith(BeginTaskDialog(s), m)
           /\ dialogs' = dialogs \cup {d}
  <2>1. s \in AppState /\ NextPromptId(s) \in PromptId
    BY <1>3, PromptIds DEF Held
  <2>2. /\ d \in DialogRecord /\ d.kind = "Apply" /\ d.session = NextPromptId(s)
        /\ d.revision = s.model_revision /\ d.made_for = w.revision /\ d.model = w.model
    BY <1>2, <2>1 DEF DialogRecord, DialogKind, TaskKind, AppState, Worker
  <2>3. d.kind \in TaskKind
    BY <2>2 DEF TaskKind
  <2> HIDE DEF d
  <2>4. Held(BeginTaskDialog(s), dialogs \cup {d}) /\ SameList(s, BeginTaskDialog(s))
    BY <1>2, <1>3, <1>6, <2>2, <2>3, HeldTaskOpened DEF SameList
  <2>5. WorkbenchInv' /\ app'.model = BeginTaskDialog(s).model
    BY <1>1, <1>6, <2>4, Handled
  <2> QED BY <1>3, <1>6, <2>4, <2>5, HarmlessStep DEF Kept, SameList
<1> QED BY <1>4, <1>5, <1>6

LEMMA AdmissionCompletionKept ==
  ASSUME WorkbenchInv, NEW m, AdmissionCompletion(m)
  PROVE  Kept
<1> DEFINE w == app.worker["Admission"]
           s == Unlock(Take(app, "Admission"))
           d == [kind |-> "Directory", session |-> NextPromptId(s),
                 revision |-> s.model_revision, made_for |-> w.revision, model |-> w.model]
<1>1. Live /\ Done("Admission") /\ "Admission" \in WorkerKind \ {"Import"}
  BY DEF AdmissionCompletion, WorkerKind
<1>2. /\ Held(app, dialogs) /\ app \in AppState
      /\ Active(app, "Admission") /\ w \in Worker
      /\ w.revision <= app.model_revision
      /\ w.revision = app.model_revision => w.model = app.model
  BY <1>1, Finished
<1>3. /\ Held(s, dialogs) /\ SameList(app, s) /\ ~WorkerActive(s)
      /\ s.close_pending = app.close_pending
  BY <1>1, <1>2, HeldTaken
<1>4. \/ dialogs' = dialogs /\ (FinishWith(s, m) \/ EndWith(s, m))
      \/ /\ MayBeginTaskDialog(s) /\ EndWith(BeginTaskDialog(s), m)
         /\ dialogs' = dialogs \cup {d}
      \/ /\ ~s.close_pending /\ s.model_revision = w.revision /\ dialogs' = dialogs
         /\ \E c \in Edits(s) : EndWith(CommitModel(s, c), m)
  BY DEF AdmissionCompletion
<1> HIDE DEF s
<1>5. CASE dialogs' = dialogs /\ (FinishWith(s, m) \/ EndWith(s, m))
  <2>1. WorkbenchInv' /\ app'.model = s.model
    BY <1>1, <1>3, <1>5, Handled
  <2> QED BY <1>3, <1>5, <2>1, HarmlessStep DEF Kept, SameList
<1>6. CASE /\ MayBeginTaskDialog(s) /\ EndWith(BeginTaskDialog(s), m)
           /\ dialogs' = dialogs \cup {d}
  <2>1. s \in AppState /\ NextPromptId(s) \in PromptId
    BY <1>3, PromptIds DEF Held
  <2>2. /\ d \in DialogRecord /\ d.kind = "Directory" /\ d.session = NextPromptId(s)
        /\ d.revision = s.model_revision /\ d.made_for = w.revision /\ d.model = w.model
    BY <1>2, <2>1 DEF DialogRecord, DialogKind, TaskKind, AppState, Worker
  <2>3. d.kind \in TaskKind
    BY <2>2 DEF TaskKind
  <2> HIDE DEF d
  <2>4. Held(BeginTaskDialog(s), dialogs \cup {d}) /\ SameList(s, BeginTaskDialog(s))
    BY <1>2, <1>3, <1>6, <2>2, <2>3, HeldTaskOpened DEF SameList
  <2>5. WorkbenchInv' /\ app'.model = BeginTaskDialog(s).model
    BY <1>1, <1>6, <2>4, Handled
  <2> QED BY <1>3, <1>6, <2>4, <2>5, HarmlessStep DEF Kept, SameList
<1>7. CASE /\ ~s.close_pending /\ s.model_revision = w.revision /\ dialogs' = dialogs
           /\ \E c \in Edits(s) : EndWith(CommitModel(s, c), m)
  <2>1. PICK c \in Edits(s) : EndWith(CommitModel(s, c), m)
    BY <1>7
  <2>2. ~Active(s, "Apply")
    BY <1>3 DEF WorkerActive, WorkerKind
  <2>3. Held(CommitModel(s, c), dialogs')
    BY <1>3, <1>7, <2>2, HeldCommitted
  <2>4. WorkbenchInv'
    BY <1>1, <2>1, <2>3, Handled
  <2>5. AnswersMeetTheirList /\ ResultsMeetTheirList
    BY <1>1, <1>2, <1>3, <1>7, OwnResult DEF SameList
  <2> QED BY <2>4, <2>5 DEF Kept
<1> QED BY <1>4, <1>5, <1>6, <1>7

LEMMA ImportCompletionKept ==
  ASSUME WorkbenchInv, NEW m, ImportCompletion(m)
  PROVE  Kept
<1> DEFINE w == app.worker["Import"]
           s == UnlockAfterImport(Take(app, "Import"))
           t == ClosePrompt(s)
<1>1. Live /\ Done("Import") /\ "Import" \in WorkerKind /\ dialogs' = dialogs
  BY DEF ImportCompletion, WorkerKind
<1>2. /\ Held(app, dialogs) /\ app \in AppState
      /\ Active(app, "Import") /\ w \in Worker
      /\ w.revision = app.model_revision => w.model = app.model
  BY <1>1, Finished
<1>3. /\ Held(t, dialogs) /\ dialogs = {}
      /\ SameList(app, t) /\ ~WorkerActive(t)
      /\ s.active_prompt = w.session /\ SameList(app, s)
      /\ s.close_pending = app.close_pending
  BY <1>2, HeldImportTaken
<1>4. \/ FinishWith(t, m)
      \/ ImportAccepted(s, w) /\ \E c \in Edits(s) : FinishWith(CommitModel(t, c), m)
      \/ FinishWith(start_admission_worker(t, "None"), m)
  BY <1>3 DEF ImportCompletion
<1> HIDE DEF s, t
<1>5. CASE FinishWith(t, m)
  <2>1. WorkbenchInv' /\ app'.model = t.model
    BY <1>1, <1>3, <1>5, Handled
  <2> QED BY <1>1, <1>3, <2>1, HarmlessStep DEF Kept, SameList
<1>6. CASE ImportAccepted(s, w) /\ \E c \in Edits(s) : FinishWith(CommitModel(t, c), m)
  <2>1. PICK c \in Edits(s) : FinishWith(CommitModel(t, c), m)
    BY <1>6
  <2>2. c \in Edits(t) /\ ~Active(t, "Apply")
    BY <1>3 DEF Edits, SameList, WorkerActive, WorkerKind
  <2>3. Held(CommitModel(t, c), dialogs')
    BY <1>1, <1>3, <2>2, HeldCommitted
  <2>4. WorkbenchInv'
    BY <1>1, <2>1, <2>3, Handled
  <2>5. ~w.cancelled /\ ~app.close_pending /\ w.revision = app.model_revision
    BY <1>3, <1>6 DEF ImportAccepted, deferred_result_can_apply, SameList
  <2>6. AnswersMeetTheirList /\ ResultsMeetTheirList
    BY <1>1, <1>2, <2>5, OwnResult
  <2> QED BY <2>4, <2>6 DEF Kept
<1>7. CASE FinishWith(start_admission_worker(t, "None"), m)
  <2> DEFINE u == start_admission_worker(t, "None")
  <2>1. "None" \in WorkerMode /\ "Admission" \in WorkerKind \ {"Import"}
    BY DEF WorkerMode, WorkerKind
  <2>2. Held(u, dialogs) /\ SameList(t, u)
    BY <1>3, <2>1, HeldStarted DEF start_admission_worker
  <2> HIDE DEF u
  <2>3. WorkbenchInv' /\ app'.model = u.model
    BY <1>1, <1>7, <2>2, Handled DEF u
  <2> QED BY <1>1, <1>3, <2>2, <2>3, HarmlessStep DEF Kept, SameList
<1> QED BY <1>4, <1>5, <1>6, <1>7

\* What a report may leave: journals and their lock, and the list it was for.
LEMMA ReportLeaves ==
  ASSUME NEW s \in AppState, JournalLocked(s), NEW w \in Worker,
         w.result \in Result("Apply"), s.journals = {},
         NEW t \in AfterExecution(s, w)
  PROVE  \E u \in AppState :
           /\ SameList(s, u) /\ SameSession(s, u) /\ u.worker = s.worker
           /\ JournalLocked(u)
           /\ u.mutation_locked = s.mutation_locked /\ u.close_pending = s.close_pending
           /\ t = u \/ \E c \in Edits(s) : t = CommitModel(u, c)
<1> DEFINE kept == [s EXCEPT !.recovery_locked = TRUE, !.journals = @ \cup {"Active"}]
           free == [s EXCEPT !.recovery_locked = FALSE]
           locked == [s EXCEPT !.recovery_locked = TRUE]
           Fine(u) == /\ u \in AppState
                      /\ SameList(s, u) /\ SameSession(s, u) /\ u.worker = s.worker
                      /\ JournalLocked(u)
                      /\ u.mutation_locked = s.mutation_locked
                      /\ u.close_pending = s.close_pending
<1>1. Fine(kept)
  <2>1. "Active" \in JournalHandle
    BY DEF JournalHandle
  <2>2. kept.recovery_locked
    BY DEF AppState
  <2>3. kept \in AppState
    BY <2>1 DEF AppState
  <2> QED BY <2>2, <2>3 DEF AppState, SameList, SameSession, JournalLocked
<1>2. Fine(free)
  <2>1. free.journals = {}
    BY DEF AppState
  <2> QED BY <2>1 DEF AppState, SameList, SameSession, JournalLocked
<1>3. Fine(locked)
  <2>1. locked.journals = {}
    BY DEF AppState
  <2> QED BY <2>1 DEF AppState, SameList, SameSession, JournalLocked
<1>4. \/ t \in {kept, free, locked}
      \/ \E u \in {kept, free, locked}, c \in Edits(s) : t = CommitModel(u, c)
  <2>1. CASE w.result = "Completed" /\ w.model = s.model
    <3>1. AfterExecution(s, w) =
            {CommitModel(u, c) : u \in {free, kept, locked}, c \in Edits(s)}
      BY <2>1 DEF AfterExecution
    <3>2. t \in AfterExecution(s, w)
      OBVIOUS
    <3> HIDE DEF kept, free, locked
    <3>3. \E u \in {free, kept, locked}, c \in Edits(s) : t = CommitModel(u, c)
      BY <3>1, <3>2
    <3> QED BY <3>3
  <2>5. CASE w.result = "Completed" /\ w.model # s.model
    BY <2>5 DEF AfterExecution
  <2>2. CASE w.result = "RolledBack"
    BY <2>2 DEF AfterExecution
  <2>3. CASE w.result = "RecoveryRequired"
    BY <2>3 DEF AfterExecution
  <2>4. CASE w.result = "NoReport"
    BY <2>4 DEF AfterExecution
  <2> QED BY <2>1, <2>2, <2>3, <2>4, <2>5 DEF Result
<1> HIDE DEF kept, free, locked
<1>5. \E u \in {kept, free, locked} : t = u \/ \E c \in Edits(s) : t = CommitModel(u, c)
  BY <1>4
<1>6. PICK u : u \in {kept, free, locked} /\ (t = u \/ \E c \in Edits(s) : t = CommitModel(u, c))
  BY <1>5
<1>7. Fine(u)
  <2> HIDE DEF Fine
  <2> QED BY <1>1, <1>2, <1>3, <1>6
<1> QED BY <1>6, <1>7

LEMMA ApplyCompletionKept ==
  ASSUME WorkbenchInv, NEW m, ApplyCompletion(m)
  PROVE  Kept
<1> DEFINE w == app.worker["Apply"]
           s == Unlock(Take(app, "Apply"))
<1>1. /\ Live /\ Done("Apply") /\ dialogs' = dialogs
      /\ "Apply" \in WorkerKind \ {"Import"} /\ "Apply" \in WorkerKind
  BY DEF ApplyCompletion, WorkerKind
<1>2. Held(app, dialogs) /\ Active(app, "Apply") /\ w \in Worker
  BY <1>1, Finished
<1>3. w.model = app.model /\ app.journals = {} /\ w.result \in Result("Apply")
  BY <1>1, <1>2 DEF Held, BatchFits, Reports, Done
<1>4. /\ Held(s, dialogs) /\ SameList(app, s) /\ SameJournals(app, s)
      /\ ~WorkerActive(s)
  BY <1>1, <1>2, HeldTaken
<1>5. PICK t \in AfterExecution(s, w) : FinishWith(t, m)
  BY DEF ApplyCompletion
<1> HIDE DEF s, w
<1>6. PICK u \in AppState :
        /\ SameList(s, u) /\ SameSession(s, u) /\ u.worker = s.worker
        /\ JournalLocked(u)
        /\ u.mutation_locked = s.mutation_locked /\ u.close_pending = s.close_pending
        /\ t = u \/ \E c \in Edits(s) : t = CommitModel(u, c)
  <2>1. s \in AppState /\ JournalLocked(s) /\ s.journals = {}
    BY <1>3, <1>4 DEF Held, SameJournals
  <2> QED BY <1>2, <1>3, <2>1, ReportLeaves
<1>7. ~Active(s, "Apply") /\ ~Active(u, "Apply")
  BY <1>1, <1>4, <1>6 DEF WorkerActive, Active
<1>8. Held(u, dialogs)
  BY <1>4, <1>6, <1>7, HeldWithJournals
<1>9. Held(t, dialogs)
  <2>1. Edits(u) = Edits(s)
    BY <1>6 DEF Edits, SameList
  <2> QED BY <1>6, <1>7, <1>8, <2>1, HeldCommitted
<1>10. WorkbenchInv'
  BY <1>1, <1>5, <1>9, Handled
<1>11. AnswersMeetTheirList /\ ResultsMeetTheirList
  BY <1>1, <1>2, <1>3, OwnResult DEF w
<1> QED BY <1>10, <1>11 DEF Kept

-----------------------------------------------------------------------------
(***************************************************************************)
(* Answers.                                                                *)
(***************************************************************************)
\* The answer changes neither the list nor the absence of workers.
LEMMA MuteAnswer ==
  ASSUME app'.model = app.model, WorkerActive(app') => WorkerActive(app)
  PROVE  AnswersMeetTheirList /\ ResultsMeetTheirList
BY DEF AnswersMeetTheirList, ResultsMeetTheirList

\* The answer is about the list on screen.
LEMMA FittingAnswer ==
  ASSUME NEW d, dialogs' = dialogs \ {d}, ~WorkerActive(app),
         d.model = app.model, d.revision = app.model_revision, ~app.close_pending
  PROVE  AnswersMeetTheirList /\ ResultsMeetTheirList
BY DEF AnswersMeetTheirList, ResultsMeetTheirList, WorkerActive

LEMMA HandledMute ==
  ASSUME WorkbenchInv, Live, NEW s, NEW m, Held(s, dialogs'), SameList(app, s),
         WorkerActive(s) => WorkerActive(app), FinishWith(s, m) \/ EndWith(s, m)
  PROVE  Kept
<1>1. WorkbenchInv' /\ app'.model = s.model /\ app'.worker = s.worker
  BY Handled
<1>2. WorkerActive(app') => WorkerActive(app)
  BY <1>1 DEF WorkerActive, Active
<1> QED BY <1>1, <1>2, MuteAnswer DEF Kept, SameList

LEMMA HandledFitting ==
  ASSUME WorkbenchInv, Live, NEW s, NEW m, Held(s, dialogs'), FinishWith(s, m) \/ EndWith(s, m),
         NEW d, dialogs' = dialogs \ {d}, ~WorkerActive(app),
         d.model = app.model, d.revision = app.model_revision, ~app.close_pending
  PROVE  Kept
<1>1. WorkbenchInv'
  BY Handled
<1> QED BY <1>1, FittingAnswer DEF Kept

\* What the answer of a task dialog finds.
LEMMA TaskAnswered ==
  ASSUME WorkbenchInv, NEW d, Close(d), d.kind \in TaskKind
  PROVE  LET s == TakeTaskDialog(app)
         IN  /\ Live /\ dialogs' = dialogs \ {d}
             /\ Held(app, dialogs) /\ Held(s, dialogs') /\ dialogs' = {}
             /\ SameList(app, s) /\ SameJournals(app, s)
             /\ s.close_pending = app.close_pending
             /\ ~WorkerActive(app) /\ ~WorkerActive(s) /\ ~Active(s, "Apply")
             /\ app.active_prompt = d.session
             /\ d.made_for = app.model_revision => d.model = app.model
<1> DEFINE s == TakeTaskDialog(app)
<1>1. Live /\ d \in dialogs /\ dialogs' = dialogs \ {d}
  BY DEF Close
<1>2. Held(app, dialogs)
  BY <1>1, LiveWindow, LiveHeld
<1>3. /\ Held(s, dialogs \ {d})
      /\ SameList(app, s) /\ SameJournals(app, s)
      /\ s.close_pending = app.close_pending
      /\ ~WorkerActive(s) /\ ~WorkerActive(app)
      /\ dialogs \ {d} = {} /\ app.active_prompt = d.session
  BY <1>1, <1>2, HeldTaskTaken
<1>4. ~Active(s, "Apply")
  BY <1>3 DEF WorkerActive, WorkerKind
<1>5. d.made_for = app.model_revision => d.model = app.model
  BY <1>1, <1>2 DEF Held, DialogsVersioned
<1> QED BY <1>1, <1>2, <1>3, <1>4, <1>5

LEMMA AnswerApplyKept ==
  ASSUME WorkbenchInv, NEW d, NEW confirm, AnswerApply(d, confirm)
  PROVE  Kept
<1> DEFINE s == TakeTaskDialog(app)
           locked == [s EXCEPT !.recovery_locked = TRUE]
<1>1. d.kind \in TaskKind /\ Close(d)
  BY DEF AnswerApply, TaskKind
<1>2. /\ Live /\ dialogs' = dialogs \ {d}
      /\ Held(s, dialogs') /\ dialogs' = {}
      /\ SameList(app, s) /\ SameJournals(app, s) /\ s.close_pending = app.close_pending
      /\ ~WorkerActive(app) /\ ~WorkerActive(s) /\ ~Active(s, "Apply")
      /\ app.active_prompt = d.session
      /\ d.made_for = app.model_revision => d.model = app.model
  BY <1>1, TaskAnswered
<1>3. \/ FinishWith(s, "Answer") \/ EndWith(s, "Answer")
      \/ EndWith(locked, "Answer")
      \/ /\ EndWith(start_apply_worker(s, d.model), "Answer")
         /\ ~apply_locked(s) /\ s.model_revision = d.made_for
         /\ ~app.close_pending /\ app.model_revision = d.revision
  BY <1>2 DEF AnswerApply, TaskDialogDisposition
<1> HIDE DEF s
<1>4. CASE FinishWith(s, "Answer") \/ EndWith(s, "Answer")
  BY <1>2, <1>4, HandledMute
<1>5. CASE EndWith(locked, "Answer")
  <2>1. /\ locked \in AppState /\ SameList(s, locked) /\ SameSession(s, locked)
        /\ locked.worker = s.worker /\ locked.mutation_locked = s.mutation_locked
        /\ locked.close_pending = s.close_pending
    BY <1>2 DEF Held, AppState, SameList, SameSession
  <2>2. JournalLocked(locked)
    BY <1>2 DEF Held, AppState, JournalLocked
  <2> HIDE DEF locked
  <2>3. Held(locked, dialogs') /\ ~WorkerActive(locked)
    BY <1>2, <2>1, <2>2, HeldWithJournals DEF WorkerActive, Active
  <2>4. SameList(app, locked)
    BY <1>2, <2>1 DEF SameList
  <2> QED BY <1>2, <1>5, <2>3, <2>4, HandledMute
<1>6. CASE /\ EndWith(start_apply_worker(s, d.model), "Answer")
           /\ ~apply_locked(s) /\ s.model_revision = d.made_for
           /\ ~app.close_pending /\ app.model_revision = d.revision
  <2>1. d.model = app.model /\ d.model = s.model /\ s.journals = {}
    BY <1>2, <1>6 DEF SameList, apply_locked
  <2>2. "Forward" \in WorkerMode /\ "Apply" \in WorkerKind \ {"Import"}
    BY DEF WorkerMode, WorkerKind
  <2>3. Held(start_apply_worker(s, d.model), dialogs')
    BY <1>2, <2>1, <2>2, HeldStarted DEF start_apply_worker
  <2> QED BY <1>2, <1>6, <2>1, <2>3, HandledFitting
<1> QED BY <1>3, <1>4, <1>5, <1>6

LEMMA AnswerDirectoryKept ==
  ASSUME WorkbenchInv, NEW d, NEW mode \in {"None", "Direct", "Recurse"},
         AnswerDirectory(d, mode)
  PROVE  Kept
<1> DEFINE s == TakeTaskDialog(app)
<1>1. d.kind \in TaskKind /\ Close(d)
  BY DEF AnswerDirectory, TaskKind
<1>2. /\ Live /\ dialogs' = dialogs \ {d}
      /\ Held(s, dialogs') /\ dialogs' = {}
      /\ SameList(app, s) /\ s.close_pending = app.close_pending
      /\ ~WorkerActive(app) /\ ~WorkerActive(s)
      /\ app.active_prompt = d.session
      /\ d.made_for = app.model_revision => d.model = app.model
  BY <1>1, TaskAnswered
<1>3. \/ FinishWith(s, "Answer") \/ EndWith(s, "Answer")
      \/ /\ EndWith(start_admission_worker(s, mode), "Answer")
         /\ s.model_revision = d.made_for
         /\ ~app.close_pending /\ app.model_revision = d.revision
  BY <1>2 DEF AnswerDirectory, TaskDialogDisposition
<1> HIDE DEF s
<1>4. CASE FinishWith(s, "Answer") \/ EndWith(s, "Answer")
  BY <1>2, <1>4, HandledMute
<1>5. CASE /\ EndWith(start_admission_worker(s, mode), "Answer")
           /\ s.model_revision = d.made_for
           /\ ~app.close_pending /\ app.model_revision = d.revision
  <2>1. d.model = app.model
    BY <1>2, <1>5 DEF SameList
  <2>2. mode \in WorkerMode /\ "Admission" \in WorkerKind \ {"Import"}
    BY DEF WorkerMode, WorkerKind
  <2>3. Held(start_admission_worker(s, mode), dialogs')
    BY <1>2, <2>2, HeldStarted DEF start_admission_worker
  <2> QED BY <1>2, <1>5, <2>1, <2>3, HandledFitting
<1> QED BY <1>3, <1>4, <1>5

LEMMA AnswerDetailsKept ==
  ASSUME WorkbenchInv, NEW d, AnswerDetails(d)
  PROVE  Kept
<1> DEFINE s == TakeTaskDialog(app)
<1>1. d.kind \in TaskKind /\ Close(d)
  BY DEF AnswerDetails, TaskKind
<1>2. /\ Live /\ Held(s, dialogs') /\ SameList(app, s)
      /\ ~WorkerActive(s) /\ app.active_prompt = d.session
  BY <1>1, TaskAnswered
<1>3. FinishWith(s, "Answer")
  BY <1>2 DEF AnswerDetails
<1> HIDE DEF s
<1> QED BY <1>2, <1>3, HandledMute

\* The journals found again, with their lock, after an answer without workers.
LEMMA HeldRediscovered ==
  ASSUME NEW s, NEW D, Held(s, D), ~WorkerActive(s),
         NEW handles \in SUBSET JournalHandle, NEW b \in BOOLEAN, handles # {} => b
  PROVE  LET t == [s EXCEPT !.journals = handles, !.recovery_locked = b]
         IN  Held(t, D) /\ SameList(s, t) /\ ~WorkerActive(t)
<1> DEFINE t == [s EXCEPT !.journals = handles, !.recovery_locked = b]
<1>1. /\ t \in AppState /\ SameList(s, t) /\ SameSession(s, t) /\ t.worker = s.worker
      /\ t.mutation_locked = s.mutation_locked /\ t.close_pending = s.close_pending
      /\ t.journals = handles /\ t.recovery_locked = b
  BY DEF Held, AppState, SameList, SameSession
<1> HIDE DEF t
<1>2. JournalLocked(t)
  BY <1>1 DEF JournalLocked
<1>3. ~WorkerActive(t) /\ ~Active(s, "Apply")
  BY <1>1 DEF WorkerActive, Active, WorkerKind
<1>4. Held(t, D)
  BY <1>1, <1>2, <1>3, HeldWithJournals
<1> QED BY <1>1, <1>3, <1>4 DEF t

\* The answer hands the close on to the queue.
LEMMA PostedClose ==
  ASSUME WorkbenchInv, Live, NEW s, Held(s, dialogs'), SameList(app, s),
         ~WorkerActive(s), app' = s, Post("Close")
  PROVE  Kept
<1>1. window # "Destroyed" /\ window' = window
  BY LiveWindow
<1>2. posted' \subseteq Message /\ lost' \in 0..MaxLost
  <2>1. "Close" \in Message
    BY DEF Message
  <2> QED BY <2>1, Posted
<1>3. WorkbenchInv'
  BY <1>1, <1>2, InvFromHeld
<1> QED BY <1>3, MuteAnswer DEF Kept, SameList

LEMMA AnswerDiscardKept ==
  ASSUME WorkbenchInv, NEW d, NEW confirm, AnswerDiscard(d, confirm)
  PROVE  Kept
<1> DEFINE s == TakeTaskDialog(app)
<1>1. d.kind \in TaskKind /\ Close(d)
  BY DEF AnswerDiscard, TaskKind
<1>2. /\ Live /\ Held(s, dialogs') /\ SameList(app, s)
      /\ ~WorkerActive(s) /\ app.active_prompt = d.session
  BY <1>1, TaskAnswered
<1>3. \/ FinishWith(s, "Answer") \/ EndWith(s, "Answer")
      \/ app' = s /\ Post("Close")
      \/ \E handles \in {{"Staged"}, {}, {"Blocked"}} :
           EndWith([s EXCEPT !.journals = handles, !.recovery_locked = handles # {}], "Answer")
  BY <1>2 DEF AnswerDiscard, TaskDialogDisposition
<1> HIDE DEF s
<1>4. CASE FinishWith(s, "Answer") \/ EndWith(s, "Answer")
  BY <1>2, <1>4, HandledMute
<1>5. CASE app' = s /\ Post("Close")
  BY <1>2, <1>5, PostedClose
<1>6. CASE \E handles \in {{"Staged"}, {}, {"Blocked"}} :
             EndWith([s EXCEPT !.journals = handles, !.recovery_locked = handles # {}], "Answer")
  <2>1. PICK handles \in {{"Staged"}, {}, {"Blocked"}} :
          EndWith([s EXCEPT !.journals = handles, !.recovery_locked = handles # {}], "Answer")
    BY <1>6
  <2>2. handles \in SUBSET JournalHandle
    BY DEF JournalHandle
  <2> DEFINE b == handles # {}
             t == [s EXCEPT !.journals = handles, !.recovery_locked = b]
  <2>3. b \in BOOLEAN /\ (handles # {} => b)
    OBVIOUS
  <2>4. EndWith(t, "Answer")
    BY <2>1
  <2> HIDE DEF b
  <2>5. Held(t, dialogs') /\ SameList(s, t) /\ ~WorkerActive(t)
    BY <1>2, <2>2, <2>3, HeldRediscovered
  <2>6. SameList(app, t)
    BY <1>2, <2>5 DEF SameList
  <2> HIDE DEF t
  <2> QED BY <1>2, <2>4, <2>5, <2>6, HandledMute
<1> QED BY <1>3, <1>4, <1>5, <1>6

LEMMA AnswerStartupRecoveryKept ==
  ASSUME WorkbenchInv, NEW d, NEW confirm, AnswerStartupRecovery(d, confirm)
  PROVE  Kept
<1> DEFINE s == [app EXCEPT !.mutation_locked = FALSE, !.confirmation_pending = FALSE]
<1>1. d.kind = "StartupRecovery" /\ Live /\ d \in dialogs /\ dialogs' = dialogs \ {d}
  BY DEF AnswerStartupRecovery, Close
<1>2. Held(app, dialogs)
  BY <1>1, LiveWindow, LiveHeld
<1>3. Held(s, dialogs') /\ SameList(app, s) /\ ~WorkerActive(s)
  BY <1>1, <1>2, HeldStartupTaken
<1>4. \/ EndWith(s, "Answer")
      \/ app' = s /\ Post("Close")
      \/ \E handles \in {{"Active"}, {}}, failed \in BOOLEAN :
           EndWith([s EXCEPT !.journals = handles,
                             !.recovery_locked = failed \/ handles # {}], "Answer")
  BY DEF AnswerStartupRecovery
<1> HIDE DEF s
<1>5. CASE EndWith(s, "Answer")
  BY <1>1, <1>3, <1>5, HandledMute
<1>6. CASE app' = s /\ Post("Close")
  BY <1>1, <1>3, <1>6, PostedClose
<1>7. CASE \E handles \in {{"Active"}, {}}, failed \in BOOLEAN :
             EndWith([s EXCEPT !.journals = handles,
                               !.recovery_locked = failed \/ handles # {}], "Answer")
  <2>1. PICK handles \in {{"Active"}, {}}, failed \in BOOLEAN :
          EndWith([s EXCEPT !.journals = handles,
                            !.recovery_locked = failed \/ handles # {}], "Answer")
    BY <1>7
  <2>2. handles \in SUBSET JournalHandle
    BY DEF JournalHandle
  <2> DEFINE b == failed \/ handles # {}
             t == [s EXCEPT !.journals = handles, !.recovery_locked = b]
  <2>3. b \in BOOLEAN /\ (handles # {} => b)
    OBVIOUS
  <2>4. EndWith(t, "Answer")
    BY <2>1
  <2> HIDE DEF b
  <2>5. Held(t, dialogs') /\ SameList(s, t) /\ ~WorkerActive(t)
    BY <1>3, <2>2, <2>3, HeldRediscovered
  <2>6. SameList(app, t)
    BY <1>3, <2>5 DEF SameList
  <2> HIDE DEF t
  <2> QED BY <1>1, <2>4, <2>5, <2>6, HandledMute
<1> QED BY <1>4, <1>5, <1>6, <1>7

LEMMA AnswerPromptKept ==
  ASSUME WorkbenchInv, NEW d, NEW accept, AnswerPrompt(d, accept)
  PROVE  Kept
<1> DEFINE s == ClosePrompt(app)
<1>1. d.kind \in PromptKind /\ Live /\ d \in dialogs /\ dialogs' = dialogs \ {d}
  BY DEF AnswerPrompt, Close
<1>2. Held(app, dialogs) /\ app \in AppState
  BY <1>1, LiveWindow, LiveHeld
<1>3. /\ Held(s, dialogs') /\ SameList(app, s) /\ s.worker = app.worker
      /\ dialogs' = {} /\ app.active_prompt = d.session
  BY <1>1, <1>2, HeldPromptTaken
<1>4. WorkerActive(s) <=> WorkerActive(app)
  BY <1>3 DEF WorkerActive, Active
<1>5. \/ FinishWith(s, "Answer") \/ EndWith(s, "Answer")
      \/ /\ deferred_result_can_apply(app, d)
         /\ \/ \E c \in Edits(s) : EndWith(CommitModel(s, c), "Answer")
            \/ EndWith(start_admission_worker(s, "None"), "Answer")
            \/ /\ d.kind \in {"ImportNames", "ImportPaths"}
               /\ EndWith(start_import_worker(app, d), "Answer")
  BY <1>1, <1>3 DEF AnswerPrompt, PromptKind
<1> HIDE DEF s
<1>6. CASE FinishWith(s, "Answer") \/ EndWith(s, "Answer")
  BY <1>1, <1>3, <1>4, <1>6, HandledMute
<1>7. ASSUME deferred_result_can_apply(app, d)
      PROVE  /\ ~WorkerActive(app) /\ ~WorkerActive(s) /\ ~app.close_pending
             /\ d.revision = app.model_revision /\ d.model = app.model
  <2>1. ~WorkerActive(app) /\ ~app.close_pending /\ d.revision = app.model_revision
    BY <1>7 DEF deferred_result_can_apply
  <2>2. d.model = app.model
    BY <1>1, <1>2, <2>1 DEF Held, DialogsVersioned
  <2> QED BY <1>4, <2>1, <2>2
<1>8. CASE /\ deferred_result_can_apply(app, d)
           /\ \E c \in Edits(s) : EndWith(CommitModel(s, c), "Answer")
  <2>1. PICK c \in Edits(s) : EndWith(CommitModel(s, c), "Answer")
    BY <1>8
  <2>2. ~Active(s, "Apply")
    BY <1>7, <1>8 DEF WorkerActive, WorkerKind
  <2>3. Held(CommitModel(s, c), dialogs')
    BY <1>3, <2>2, HeldCommitted
  <2> QED BY <1>1, <1>7, <1>8, <2>1, <2>3, HandledFitting
<1>9. CASE /\ deferred_result_can_apply(app, d)
           /\ EndWith(start_admission_worker(s, "None"), "Answer")
  <2>1. "None" \in WorkerMode /\ "Admission" \in WorkerKind \ {"Import"}
    BY DEF WorkerMode, WorkerKind
  <2>2. Held(start_admission_worker(s, "None"), dialogs')
    BY <1>3, <1>7, <1>9, <2>1, HeldStarted DEF start_admission_worker
  <2> QED BY <1>1, <1>7, <1>9, <2>2, HandledFitting
<1>10. CASE /\ deferred_result_can_apply(app, d)
            /\ d.kind \in {"ImportNames", "ImportPaths"}
            /\ EndWith(start_import_worker(app, d), "Answer")
  <2>1. Held(start_import_worker(app, d), dialogs')
    BY <1>1, <1>2, <1>7, <1>10, HeldImportStarted
  <2> QED BY <1>1, <1>7, <1>10, <2>1, HandledFitting
<1> QED BY <1>5, <1>6, <1>8, <1>9, <1>10

LEMMA AnswerKept ==
  ASSUME WorkbenchInv, NEW d, Answer(d)
  PROVE  Kept
BY AnswerDetailsKept, AnswerApplyKept, AnswerDiscardKept, AnswerStartupRecoveryKept,
   AnswerPromptKept, AnswerDirectoryKept
DEF Answer

-----------------------------------------------------------------------------
(***************************************************************************)
(* Closing, and the message loop that fails.                               *)
(***************************************************************************)
LEMMA CloseRequestKept ==
  ASSUME WorkbenchInv, NEW m, request_window_close(m)
  PROVE  Kept
<1> DEFINE s == BeginClose(app)
           u == CancelForClose(s)
<1>1. Live /\ dialogs' = dialogs
  BY DEF request_window_close
<1>2. Held(app, dialogs)
  BY <1>1, LiveWindow, LiveHeld
<1>3. Held(s, dialogs) /\ SameList(app, s) /\ s.worker = app.worker
  BY <1>2, HeldClosing
<1>4. FinishWith(s, m) \/ EndWith(s, m) \/ EndWith(u, m)
  BY DEF request_window_close
<1> HIDE DEF s
<1>5. WorkerActive(s) => WorkerActive(app)
  BY <1>3 DEF WorkerActive, Active
<1>6. /\ Held(u, dialogs) /\ SameList(s, u)
      /\ \A l \in WorkerKind : Active(u, l) <=> Active(s, l)
  BY <1>3, HeldCancelled
<1> HIDE DEF u
<1>7. SameList(app, u) /\ (WorkerActive(u) => WorkerActive(app))
  BY <1>3, <1>5, <1>6 DEF SameList, WorkerActive
<1> QED BY <1>1, <1>3, <1>4, <1>5, <1>6, <1>7, HandledMute

LEMMA FinishCloseKept ==
  ASSUME WorkbenchInv, FinishClose
  PROVE  Kept
<1>1. /\ Held(app, dialogs) /\ app \in AppState /\ window # "Destroyed"
      /\ dialogs' = dialogs /\ Consume("FinishClose")
  BY LiveHeld DEF FinishClose
<1>2. posted' \subseteq Message /\ lost' \in 0..MaxLost
  <2>1. "FinishClose" \in Message
    BY DEF Message
  <2> QED BY <1>1, <2>1, Posted
<1>3. CASE window' = window /\ app' = app
  <2>1. WorkbenchInv'
    BY <1>1, <1>2, <1>3, InvFromHeld
  <2> QED BY <1>1, <1>3, <2>1, HarmlessStep DEF Kept
<1>4. CASE /\ Quiet(app) /\ app.preferences = "Joined"
           /\ window' = "Destroyed" /\ app' = [app EXCEPT !.timers = {}]
  <2>1. dialogs = {}
    BY <1>1, <1>4 DEF Held, DialogsHold, Quiet, PromptKind
  <2>2. /\ app' \in AppState /\ app'.model = app.model /\ app'.worker = app.worker
        /\ app'.journals = app.journals /\ app'.recovery_locked = app.recovery_locked
        /\ app'.icons = app.icons /\ app'.preferences = app.preferences
    BY <1>1, <1>4 DEF AppState
  <2>3. NothingOutlivesWindow'
    BY <1>1, <1>4, <2>1, <2>2 DEF NothingOutlivesWindow, Quiet, WorkerActive, Active
  <2>4. JournalLocked(app')
    BY <1>1, <2>2 DEF Held, JournalLocked
  <2>5. WorkbenchInv'
    BY <1>1, <1>2, <1>4, <2>1, <2>2, <2>3, <2>4 DEF WorkbenchInv
  <2> QED BY <1>1, <2>2, <2>5, HarmlessStep DEF Kept
<1> QED BY <1>3, <1>4 DEF FinishClose

LEMMA LoopFailsKept ==
  ASSUME WorkbenchInv, LoopFails
  PROVE  Kept
<1> DEFINE s == BeginClose(app)
           f == [k \in WorkerKind |->
                   IF Active(app, k) THEN [app.worker[k] EXCEPT !.cancelled = TRUE]
                   ELSE Absent]
<1>1. /\ window = "Live" /\ window' = "Failing" /\ dialogs' = dialogs
      /\ posted' = posted /\ lost' = lost /\ app' = [s EXCEPT !.worker = f]
  BY DEF LoopFails
<1>2. Held(app, dialogs) /\ app \in AppState
  BY <1>1, LiveHeld
<1>3. Held(s, dialogs) /\ SameList(app, s) /\ s.worker = app.worker
  BY <1>2, HeldClosing
<1>4. ASSUME NEW k \in WorkerKind
      PROVE  /\ f[k] \in Worker \cup {Absent}
             /\ (f[k].stage # "Absent") <=> Active(s, k)
             /\ Active(s, k) => /\ f[k].revision = s.worker[k].revision
                                /\ f[k].model = s.worker[k].model
                                /\ f[k].session = s.worker[k].session
                                /\ k = "Apply" /\ Reports(s.worker[k]) => Reports(f[k])
  <2>1. CASE Active(app, k)
    <3>1. app.worker[k] \in Worker /\ Active(s, k)
      BY <1>2, <1>3, <2>1, WorkerTyped DEF Active
    <3>2. f[k] = [app.worker[k] EXCEPT !.cancelled = TRUE]
      BY <2>1
    <3> HIDE DEF f, s
    <3> QED BY <1>3, <3>1, <3>2 DEF Worker, Reports
  <2>2. CASE ~Active(app, k)
    <3>1. f[k] = Absent /\ ~Active(s, k)
      BY <1>3, <2>2 DEF Active
    <3> HIDE DEF f, s
    <3> QED BY <3>1 DEF Absent
  <2> QED BY <2>1, <2>2
<1>5. f \in [WorkerKind -> Worker \cup {Absent}]
  BY <1>4
<1> HIDE DEF f, s
<1>6. \A k \in WorkerKind :
        /\ (f[k].stage # "Absent") <=> Active(s, k)
        /\ Active(s, k) => /\ f[k].revision = s.worker[k].revision
                           /\ f[k].model = s.worker[k].model
                           /\ f[k].session = s.worker[k].session
                           /\ k = "Apply" /\ Reports(s.worker[k]) => Reports(f[k])
  BY <1>4
<1>7. Held(app', dialogs) /\ SameList(s, app')
  BY <1>1, <1>3, <1>5, <1>6, HeldThreads
<1>8. WorkbenchInv'
  <2>1. app' \in AppState /\ JournalLocked(app') /\ dialogs \subseteq DialogRecord
    BY <1>7 DEF Held
  <2> QED BY <1>1, <1>7, <2>1 DEF WorkbenchInv, NothingOutlivesWindow
<1> QED BY <1>1, <1>3, <1>7, <1>8, HarmlessStep DEF Kept, SameList

LEMMA CommitTyped ==
  ASSUME NEW s \in AppState, NEW c \in Edits(s)
  PROVE  CommitModel(s, c) \in AppState /\ SameJournals(s, CommitModel(s, c))
<1>1. c \in Contents /\ (c # s.model => s.model_revision + 1 \in Revision)
  BY WorkbenchAssumption DEF Edits, AppState, Revision
<1> QED BY <1>1 DEF CommitModel, AppState, SameJournals

LEMMA AfterLoopFailureKept ==
  ASSUME WorkbenchInv, AfterLoopFailure
  PROVE  Kept
<1>1. /\ window = "Failing" /\ dialogs = {} /\ dialogs' = dialogs
      /\ posted' = posted /\ lost' = lost
  BY DEF AfterLoopFailure
<1>2. Held(app, dialogs) /\ app \in AppState /\ JournalLocked(app)
  BY <1>1, LiveHeld DEF Held
<1>3. CASE window' = "Aborted" /\ app' = app
  <2>1. WorkbenchInv'
    BY <1>1, <1>2, <1>3 DEF WorkbenchInv, NothingOutlivesWindow
  <2> QED BY <1>1, <1>3, <2>1, HarmlessStep DEF Kept
<1>4. ASSUME window' = "Destroyed",
             NEW t \in IF Active(app, "Apply")
                       THEN AfterExecution(app, app.worker["Apply"]) ELSE {app},
             app' = [t EXCEPT !.worker = [k \in WorkerKind |-> Absent],
                              !.icons = "Joined", !.preferences = "Joined",
                              !.close_pending = FALSE, !.timers = {}]
      PROVE  Kept
  <2>1. /\ t \in AppState /\ JournalLocked(t)
        /\ t.model = app.model \/ Active(app, "Apply")
    <3>1. CASE Active(app, "Apply")
      <4>1. "Apply" \in WorkerKind \ {"Import"} /\ "Apply" \in WorkerKind
        BY DEF WorkerKind
      <4>2. Done("Apply") /\ app.worker["Apply"] \in Worker
        BY <1>2, <3>1, <4>1, WorkerTyped DEF AfterLoopFailure
      <4>3. app.journals = {} /\ app.worker["Apply"].result \in Result("Apply")
        BY <1>2, <3>1, <4>2 DEF Held, BatchFits, Reports, Done
      <4>4. PICK u \in AppState :
              /\ SameList(app, u) /\ JournalLocked(u)
              /\ t = u \/ \E c \in Edits(app) : t = CommitModel(u, c)
        BY <1>2, <1>4, <3>1, <4>2, <4>3, ReportLeaves
      <4>5. Edits(u) = Edits(app)
        BY <4>4 DEF Edits, SameList
      <4>6. t \in AppState /\ JournalLocked(t)
        BY <4>4, <4>5, CommitTyped DEF JournalLocked, SameJournals
      <4> QED BY <3>1, <4>6
    <3>2. CASE ~Active(app, "Apply")
      BY <1>2, <1>4, <3>2
    <3> QED BY <3>1, <3>2
  <2>2. [k \in WorkerKind |-> Absent] \in [WorkerKind -> Worker \cup {Absent}]
    OBVIOUS
  <2>3. app' \in AppState
    BY <1>4, <2>1, <2>2 DEF AppState
  <2>4. /\ app'.worker = [k \in WorkerKind |-> Absent]
        /\ app'.icons = "Joined" /\ app'.preferences = "Joined"
        /\ app'.journals = t.journals /\ app'.recovery_locked = t.recovery_locked
        /\ app'.model = t.model
    BY <1>4, <2>1 DEF AppState
  <2>5. JournalLocked(app')
    BY <2>1, <2>4 DEF JournalLocked
  <2>6. ~WorkerActive(app')
    BY <2>4 DEF WorkerActive, Active, Absent
  <2>7. NothingOutlivesWindow'
    BY <1>1, <2>4, <2>6 DEF NothingOutlivesWindow
  <2>8. WorkbenchInv'
    BY <1>1, <1>4, <2>3, <2>5, <2>7 DEF WorkbenchInv
  <2>9. AnswersMeetTheirList /\ ResultsMeetTheirList
    <3>1. CASE Active(app, "Apply")
      <4>1. "Apply" \in WorkerKind /\ app.worker["Apply"].model = app.model
        BY <1>2, <3>1 DEF Held, BatchFits, WorkerKind
      <4> QED BY <1>1, <1>2, <3>1, <4>1, OwnResult
    <3>2. CASE ~Active(app, "Apply")
      BY <1>1, <2>1, <2>4, <3>2, HarmlessStep
    <3> QED BY <3>1, <3>2
  <2> QED BY <2>8, <2>9 DEF Kept
<1> QED BY <1>3, <1>4 DEF AfterLoopFailure

-----------------------------------------------------------------------------
(***************************************************************************)
(* Every step, the initial states and what follows for every behaviour.    *)
(***************************************************************************)
LEMMA CompletionKept ==
  ASSUME WorkbenchInv, NEW m, Completion(m)
  PROVE  Kept
BY PlanCompletionKept, AdmissionCompletionKept, ImportCompletionKept, ApplyCompletionKept
DEF Completion

LEMMA StepKept ==
  ASSUME WorkbenchInv, [Next]_vars
  PROVE  Kept
<1>1. CASE User
  BY <1>1, UserKept
<1>2. CASE \E d \in dialogs : Answer(d)
  BY <1>2, AnswerKept
<1>3. CASE CloseRequest
  BY <1>3, CloseRequestKept DEF CloseRequest
<1>4. CASE Threads \/ ApplyFinishing
  BY <1>4, WorkerEndsKept, WorkerExitsKept, ApplyFinishingKept DEF Threads
<1>5. CASE Handlers \/ Completion("Timer") \/ IconTimer
  BY <1>5, EarlyCompletionKept, CompletionKept, FinishCloseKept, ShellHandlersKept
  DEF Handlers
<1>6. CASE IconPublishes \/ IconBootstrapFails \/ IconWorkerExits \/ PreferencesExit
  BY <1>6, IconsKept
<1>7. CASE LoopFails \/ AfterLoopFailure
  BY <1>7, LoopFailsKept, AfterLoopFailureKept
<1>8. CASE Exited \/ UNCHANGED vars
  <2>1. /\ app' = app /\ dialogs' = dialogs /\ posted' = posted /\ lost' = lost
        /\ window' = window
    BY <1>8 DEF Exited, vars
  <2>2. WorkbenchInv'
    BY <2>1 DEF WorkbenchInv, NothingOutlivesWindow
  <2> QED BY <2>1, <2>2, HarmlessStep DEF Kept
<1> QED BY <1>1, <1>2, <1>3, <1>4, <1>5, <1>6, <1>7, <1>8 DEF Next

LEMMA WorkbenchInvInit ==
  ASSUME Init
  PROVE  WorkbenchInv
<1>1. PICK c \in Contents, handles \in StartupJournals :
        /\ app = Startup(c, handles)
        /\ dialogs = IF handles = {"Active"}
                     THEN {[kind |-> "StartupRecovery", session |-> NoPrompt,
                            revision |-> 0, made_for |-> 0, model |-> c]}
                     ELSE {}
  BY DEF Init
<1>2. /\ handles \in SUBSET JournalHandle /\ 0 \in Revision /\ NoPrompt \in PromptId
      /\ 0 \in PromptId /\ Absent \in Worker \cup {Absent}
  BY WorkbenchAssumption, PromptIdAssumption DEF Revision, PromptId, NoPrompt
<1> DEFINE L == handles = {"Active"}
           R == handles # {}
           T == IF PreferencesPolled THEN {"Preferences"} ELSE {}
           P == IF PreferencesPolled THEN "Open" ELSE "Joined"
           f == [k \in WorkerKind |-> Absent]
<1>3. /\ app.model = c /\ app.model_revision = 0 /\ app.active_prompt = NoPrompt
      /\ app.journals = handles /\ app.worker = f /\ app.icons = "Working"
      /\ app.mutation_locked <=> L
      /\ app.confirmation_pending <=> L
      /\ app.recovery_locked <=> R
  BY <1>1 DEF Startup
<1>4. app \in AppState
  <2>1. /\ L \in BOOLEAN /\ R \in BOOLEAN /\ FALSE \in BOOLEAN
        /\ T \in SUBSET {"Poll", "Icons", "Preferences"}
        /\ P \in {"Open", "Stopping", "Exited", "Joined"}
        /\ f \in [WorkerKind -> Worker \cup {Absent}]
    BY <1>2
  <2>2. app = [model |-> c, model_revision |-> 0, close_pending |-> FALSE,
               mutation_locked |-> L, recovery_locked |-> R,
               confirmation_pending |-> L, active_prompt |-> NoPrompt,
               next_prompt_id |-> 0, journals |-> handles, worker |-> f,
               timers |-> T, icons |-> "Working", preferences |-> P]
    BY <1>1 DEF Startup
  <2> HIDE DEF L, R, T, P, f
  <2> QED BY <1>2, <2>1, <2>2 DEF AppState
<1>5. \A k \in WorkerKind : ~Active(app, k)
  BY <1>3 DEF Active, Absent
<1>6. OneLockedWorker(app) /\ WorkersVersioned(app) /\ BatchFits(app) /\ ~WorkerActive(app)
  BY <1>5 DEF OneLockedWorker, WorkersVersioned, BatchFits, WorkerActive, WorkerKind
<1>7. JournalLocked(app)
  BY <1>3 DEF JournalLocked
<1>8. /\ dialogs \subseteq DialogRecord
      /\ DialogsHold(app, dialogs) /\ DialogsVersioned(app, dialogs)
      /\ SessionsHeld(app, dialogs) /\ LockJustified(app)
  <2>0. ~Active(app, "Import")
    BY <1>5 DEF WorkerKind
  <2>1. CASE ~L
    <3>1. dialogs = {} /\ ~app.mutation_locked /\ ~app.confirmation_pending
      BY <1>1, <1>3, <2>1
    <3> QED BY <1>3, <2>0, <3>1
        DEF DialogsHold, DialogsVersioned, SessionsHeld, LockJustified
  <2>2. CASE L
    <3> DEFINE d == [kind |-> "StartupRecovery", session |-> NoPrompt,
                     revision |-> 0, made_for |-> 0, model |-> c]
    <3>1. dialogs = {d} /\ app.mutation_locked /\ app.confirmation_pending
      BY <1>1, <1>3, <2>2
    <3>2. /\ d \in DialogRecord /\ d.kind = "StartupRecovery" /\ d.revision = 0
          /\ d.made_for = 0 /\ d.model = c
      BY <1>2 DEF DialogRecord, DialogKind
    <3> HIDE DEF d
    <3>3. DialogsHold(app, {d})
      BY <1>3, <1>6, <2>0, <3>1, <3>2 DEF DialogsHold, PromptKind
    <3>4. DialogsVersioned(app, {d})
      BY <1>3, <3>2 DEF DialogsVersioned, PromptKind
    <3>5. SessionsHeld(app, {d}) /\ LockJustified(app)
      BY <1>3, <2>0, <3>1 DEF SessionsHeld, LockJustified
    <3> QED BY <3>1, <3>2, <3>3, <3>4, <3>5
  <2> QED BY <2>1, <2>2
<1>9. Held(app, dialogs)
  BY <1>4, <1>6, <1>7, <1>8 DEF Held
<1>10. posted = {} /\ lost = 0 /\ window = "Live"
  BY DEF Init
<1>11. lost \in 0..MaxLost
  BY <1>10, WorkbenchAssumption
<1> QED BY <1>4, <1>7, <1>8, <1>9, <1>10, <1>11 DEF WorkbenchInv, NothingOutlivesWindow

LEMMA OneWorkerCounted ==
  ASSUME NEW s, \A k, l \in WorkerKind : Active(s, k) /\ Active(s, l) => k = l
  PROVE  Cardinality({k \in WorkerKind : Active(s, k)}) <= 1
<1> DEFINE S == {k \in WorkerKind : Active(s, k)}
<1>1. CASE S = {}
  BY <1>1, FS_EmptySet
<1>2. CASE S # {}
  <2>1. PICK k : k \in S
    BY <1>2
  <2>2. S = {k}
    BY <2>1
  <2> HIDE DEF S
  <2>3. Cardinality(S) = 1
    BY <2>2, FS_Singleton
  <2>4. Cardinality(S) <= 1
    BY <2>3
  <2> QED BY <2>4 DEF S
<1> QED BY <1>1, <1>2

LEMMA InvGivesOwners ==
  ASSUME WorkbenchInv
  PROVE  OwnersConsistent
<1>1. app \in AppState /\ dialogs \subseteq DialogRecord
  BY DEF WorkbenchInv
<1>2. TypeOK
  <2>1. \A f \in {"close_pending", "mutation_locked", "recovery_locked",
                  "confirmation_pending"} : app[f] \in BOOLEAN
    BY <1>1 DEF AppState
  <2>2. \A k \in WorkerKind : app.worker[k].stage \in {"Absent", "Running", "Ended", "Finished"}
    BY <1>1 DEF AppState, Worker, Absent
  <2>3. \A d \in dialogs :
          /\ d.kind \in DialogKind
          /\ d.session \in PromptId
          /\ {d.revision, d.made_for} \subseteq Revision
          /\ d.model \in Contents
    BY <1>1 DEF DialogRecord
  <2>4. /\ app.model \in Contents
        /\ app.model_revision \in Revision
        /\ app.active_prompt \in PromptId
        /\ app.next_prompt_id \in PromptId
        /\ app.journals \subseteq JournalHandle
        /\ app.timers \subseteq {"Poll", "Icons", "Preferences"}
        /\ app.icons \in {"Working", "Retiring", "Exited", "Joined"}
        /\ app.preferences \in {"Open", "Stopping", "Exited", "Joined"}
    BY <1>1 DEF AppState
  <2>5. /\ posted \subseteq WorkerKind \cup {"FinishClose", "Close", "IconWake", "PreferencesWake"}
        /\ lost \in 0..MaxLost
        /\ window \in {"Live", "Failing", "Destroyed", "Aborted"}
    BY DEF WorkbenchInv, Message
  <2> QED BY <2>1, <2>2, <2>3, <2>4, <2>5 DEF TypeOK
<1>3. RetainedJournalLocks /\ NothingOutlivesWindow
  BY DEF WorkbenchInv, RetainedJournalLocks, JournalLocked
<1>4. CASE window = "Destroyed"
  <2>1. \A k \in WorkerKind : ~Active(app, k)
    BY <1>3, <1>4 DEF NothingOutlivesWindow, WorkerActive
  <2>2. OneWorker
    BY <2>1, OneWorkerCounted DEF OneWorker
  <2>3. ApplyFitsList
    BY <2>1 DEF ApplyFitsList, WorkerKind
  <2>4. LocksHaveOwners
    BY <1>4 DEF LocksHaveOwners
  <2> QED BY <1>2, <1>3, <2>2, <2>3, <2>4 DEF OwnersConsistent
<1>5. CASE window # "Destroyed"
  <2>1. Held(app, dialogs)
    BY <1>5, LiveHeld
  <2>2. OneWorker
    BY <2>1, OneWorkerCounted DEF OneWorker, Held, OneLockedWorker
  <2>3. ApplyFitsList
    BY <2>1 DEF ApplyFitsList, Held, BatchFits
  <2>4. app.confirmation_pending => \E d \in dialogs : d.kind \in TaskKind \cup {"StartupRecovery"}
    BY <2>1, <1>1
    DEF Held, SessionsHeld, DialogsHold, DialogRecord, DialogKind, TaskKind, PromptKind
  <2>5. app.active_prompt # NoPrompt =>
          \/ \E d \in dialogs : d.session = app.active_prompt
          \/ Active(app, "Import") /\ app.worker["Import"].session = app.active_prompt
    BY <2>1 DEF Held, SessionsHeld, DialogsHold
  <2>6. LocksHaveOwners
    BY <2>1, <2>4, <2>5 DEF LocksHaveOwners, Held, LockJustified
  <2> QED BY <1>2, <1>3, <2>2, <2>3, <2>6 DEF OwnersConsistent
<1> QED BY <1>4, <1>5

(***************************************************************************)
(* The window's state is never an orphan, whatever commands, drops,        *)
(* answers, completions, lost posts, cancellations and close requests are  *)
(* interleaved: one worker at most, no lock or session without the dialog, *)
(* worker or close that ends it, no batch for another list, no retained    *)
(* journal without its lock, nothing behind a destroyed window.            *)
(***************************************************************************)
THEOREM OwnersAlwaysConsistent == Spec => []OwnersConsistent
<1>1. Init => WorkbenchInv
  BY WorkbenchInvInit
<1>2. WorkbenchInv /\ [Next]_vars => WorkbenchInv'
  BY StepKept DEF Kept
<1>3. WorkbenchInv => OwnersConsistent
  BY InvGivesOwners
<1> QED BY <1>1, <1>2, <1>3, PTL DEF Spec

(***************************************************************************)
(* The answer of a dialog and the result of a worker change only the list  *)
(* they were made for: the revisions the code compares tell, because one   *)
(* revision never names two lists and one worker or dialog at a time can   *)
(* be waiting for it.                                                      *)
(***************************************************************************)
THEOREM EffectsAlwaysMeetTheirList == Spec => EffectsMeetTheirList
<1>1. Init => WorkbenchInv
  BY WorkbenchInvInit
<1>2. WorkbenchInv /\ [Next]_vars => WorkbenchInv'
  BY StepKept DEF Kept
<1>3. WorkbenchInv /\ [Next]_vars => [AnswersMeetTheirList /\ ResultsMeetTheirList]_vars
  BY StepKept DEF Kept
<1> QED BY <1>1, <1>2, <1>3, PTL DEF Spec, EffectsMeetTheirList
=============================================================================
