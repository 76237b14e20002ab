----------------------------- MODULE ImportTrace -----------------------------
(***************************************************************************)
(* The timing evidence of the latest import of a path list                 *)
(* (windows/import_trace.rs), and the handlers on the UI thread that       *)
(* record it: the start, the status timer, the layout, the completions of  *)
(* the import and admission workers, the refresh and the icons.            *)
(*                                                                         *)
(* The status timer writes the status text with the application state      *)
(* released, so any other handler may run before it comes back; a second   *)
(* status timer does not run inside the first.  The clock only advances,   *)
(* and handlers that follow one another may read the same tick.            *)
(***************************************************************************)
EXTENDS Integers, FiniteSets

CONSTANTS
  MaxImports,   \* imports the user starts
  MaxNames,     \* imports of new names: they show the same reading text
  MaxOthers,    \* other additions of files
  MaxRenders,   \* runs of the status timer
  MaxTick       \* readings of the performance counter

TraceAssumption ==
  MaxImports \in Nat /\ MaxNames \in Nat /\ MaxOthers \in Nat /\ MaxRenders \in Nat /\ MaxTick \in Nat

Events ==
  {"ACCEPTED_IMPORT_START", "READ_RESULT_PUBLISHED", "READ_OWNER_ACCEPTED",
   "READING_STATUS_QUEUED", "READING_STATUS_COMMITTED", "READING_STATUS_VISIBLE",
   "CANCEL_READY", "ADMISSION_STARTED", "ADMISSION_RESULT_PUBLISHED",
   "ADMISSION_OWNER_ACCEPTED", "MODEL_COMMITTED", "NATIVE_SYNC_STARTED",
   "NATIVE_SYNC_COMPLETED", "IMPORT_COMMAND_READY", "ICONS_SETTLED",
   "READING_STATUS_ATTEMPT_STARTED"}

VARIABLES
  trace,      \* ImportCompletionTrace
  now,        \* the performance counter
  rev,        \* model_revision
  text,       \* status text to be shown: "Reading" or "Other"
  reader,     \* the import worker
  admission,  \* the admission worker
  phase,      \* import_feedback_phase: the worker waited for
  render,     \* what the status timer captured while it writes the text
  renders,
  names,      \* imports of names begun
  others,     \* other additions begun
  wrote       \* imports of paths whose reading text reached the control

vars == <<trace, now, rev, text, reader, admission, phase, render, renders, names, others,
          wrote>>

\* A worker's state is "None", "Running", "Sent" or "Done"; the status timer's
\* "None", "Native" (writing the text) or "Back".
NoWorker == [state |-> "None", kind |-> "Paths", session |-> 0, cancelled |-> FALSE,
             tick |-> 0, origin |-> 0]
NoRender == [state |-> "None", generation |-> 0, session |-> 0, owner |-> 0, reading |-> FALSE,
             active |-> FALSE, first |-> FALSE, set |-> FALSE, matches |-> FALSE,
             committed |-> 0, visible |-> 0]

Init ==
  /\ trace = [revision |-> 0, generation |-> 0, session |-> 0, initial |-> 0, final |-> 0,
              flags |-> {}, ev |-> [e \in Events |-> 0], pending |-> FALSE,
              uncertain |-> FALSE, armed |-> FALSE, valid |-> TRUE]
  /\ now = 1 /\ rev = 1 /\ text = "Other"
  /\ reader = NoWorker /\ admission = NoWorker /\ phase = "None"
  /\ render = NoRender /\ renders = 0 /\ names = 0 /\ others = 0
  /\ wrote = {}

-----------------------------------------------------------------------------
Bumped(t) == [t EXCEPT !.revision = @ + 1]

Invalid(t) == [t EXCEPT !.valid = FALSE]

Seen(t, e) == t.ev[e] # 0

matches(t, session, revision) ==
  /\ t.valid /\ Seen(t, "ACCEPTED_IMPORT_START")
  /\ t.session = session /\ t.initial = revision

begin(t, session, revision, tick) ==
  IF ~t.valid THEN t
  ELSE [t EXCEPT !.generation = @ + 1, !.revision = @ + 1, !.session = session,
                 !.initial = revision, !.final = 0, !.flags = {},
                 !.ev = [[e \in Events |-> 0] EXCEPT !["ACCEPTED_IMPORT_START"] = tick],
                 !.pending = FALSE, !.uncertain = FALSE, !.armed = FALSE]

\* The event that must have been seen before.
Dependency ==
  [READ_RESULT_PUBLISHED |-> "ACCEPTED_IMPORT_START",
   READING_STATUS_QUEUED |-> "ACCEPTED_IMPORT_START",
   READ_OWNER_ACCEPTED |-> "READ_RESULT_PUBLISHED",
   READING_STATUS_COMMITTED |-> "READING_STATUS_ATTEMPT_STARTED",
   READING_STATUS_VISIBLE |-> "READING_STATUS_COMMITTED",
   CANCEL_READY |-> "READING_STATUS_QUEUED",
   ADMISSION_STARTED |-> "READ_OWNER_ACCEPTED",
   ADMISSION_RESULT_PUBLISHED |-> "ADMISSION_STARTED",
   ADMISSION_OWNER_ACCEPTED |-> "ADMISSION_RESULT_PUBLISHED",
   MODEL_COMMITTED |-> "ADMISSION_OWNER_ACCEPTED",
   NATIVE_SYNC_STARTED |-> "MODEL_COMMITTED",
   NATIVE_SYNC_COMPLETED |-> "NATIVE_SYNC_STARTED",
   IMPORT_COMMAND_READY |-> "NATIVE_SYNC_COMPLETED",
   ICONS_SETTLED |-> "IMPORT_COMMAND_READY",
   READING_STATUS_ATTEMPT_STARTED |-> "READING_STATUS_QUEUED"]

FlagOf(e) ==
  CASE e = "READING_STATUS_QUEUED" -> {"STATUS_QUEUED"}
    [] e = "READING_STATUS_COMMITTED" -> {"STATUS_COMMITTED"}
    [] e = "READING_STATUS_VISIBLE" -> {"STATUS_VISIBLE"}
    [] e = "IMPORT_COMMAND_READY" -> {"COMMAND_ENABLED"}
    [] e = "ICONS_SETTLED" -> {"ICONS_OBSERVED_SETTLED"}
    [] OTHER -> {}

\* A late timer or icon wake may observe these again.
MayRepeat ==
  {"READING_STATUS_COMMITTED", "READING_STATUS_VISIBLE", "CANCEL_READY", "ICONS_SETTLED"}

\* record; a tick of 0 stands for None.
record(t, session, revision, e, tick) ==
  LET d == Dependency[e]
  IN  CASE ~matches(t, session, revision) -> t
        [] matches(t, session, revision)
           /\ e = "READING_STATUS_COMMITTED" /\ "STATUS_COALESCED" \in t.flags -> t
        [] matches(t, session, revision)
           /\ ~(e = "READING_STATUS_COMMITTED" /\ "STATUS_COALESCED" \in t.flags) ->
             IF Seen(t, e) THEN (IF e \in MayRepeat THEN t ELSE Invalid(t))
             ELSE IF tick = 0 \/ tick < t.ev[d] \/ ~Seen(t, d) THEN Invalid(t)
             ELSE Bumped([t EXCEPT !.ev[e] = tick, !.flags = @ \cup FlagOf(e)])

\* No write attempt was begun, is under way, or was left in doubt.
MayCoalesce(t) ==
  /\ "STATUS_QUEUED" \in t.flags
  /\ t.flags \cap {"STATUS_COMMITTED", "STATUS_COALESCED"} = {}
  /\ ~Seen(t, "READING_STATUS_ATTEMPT_STARTED")
  /\ ~t.pending /\ ~t.uncertain

Coalesced(t) == Bumped([t EXCEPT !.flags = @ \cup {"STATUS_COALESCED"}])

mark_status_coalesced(t, session, revision) ==
  IF matches(t, session, revision) /\ MayCoalesce(t) THEN Coalesced(t) ELSE t

begin_status_attempt(t, session, revision, tick) ==
  IF /\ matches(t, session, revision) /\ "STATUS_QUEUED" \in t.flags
     /\ t.flags \cap {"STATUS_COMMITTED", "STATUS_COALESCED"} = {}
  THEN LET u == IF Seen(t, "READING_STATUS_ATTEMPT_STARTED") THEN t
                ELSE record(t, session, revision, "READING_STATUS_ATTEMPT_STARTED", tick)
       IN  Bumped([u EXCEPT !.pending = TRUE])
  ELSE t

end_status_attempt(t, session, revision, confirmed, succeeded) ==
  IF matches(t, session, revision) /\ t.pending
  THEN Bumped([t EXCEPT !.pending = FALSE, !.uncertain = @ \/ (succeeded /\ ~confirmed)])
  ELSE t

\* mark_admission_accepted and mark_native_synchronized.
Marked(t, session, revision, e, flag) ==
  IF matches(t, session, revision) /\ Seen(t, e) /\ flag \notin t.flags
  THEN Bumped([t EXCEPT !.flags = @ \cup {flag}])
  ELSE t

set_final_model_revision(t, session, revision, final) ==
  IF matches(t, session, revision) /\ Seen(t, "MODEL_COMMITTED") /\ t.final = 0
  THEN Bumped([t EXCEPT !.final = final])
  ELSE t

arm_native_sync(t, session, revision) ==
  [t EXCEPT !.armed = /\ matches(t, session, revision) /\ Seen(t, "MODEL_COMMITTED")
                      /\ ~Seen(t, "NATIVE_SYNC_STARTED")]

-----------------------------------------------------------------------------
\* handle.is_finished()
Finished(worker) == worker.state = "Done"

Unlocked == reader.state = "None" /\ admission.state = "None"

(***************************************************************************)
(* start_selected_import and start_import_worker_from.                     *)
(***************************************************************************)
StartImport ==
  /\ Unlocked /\ trace.generation < MaxImports /\ trace.valid
  /\ LET session == trace.session + 1
         begun   == begin(trace, session, rev, now)
     IN  \/ /\ reader' = [NoWorker EXCEPT !.state = "Running", !.session = session]
            /\ trace' = record(begun, session, rev, "READING_STATUS_QUEUED", now)
            /\ text' = "Reading" /\ phase' = "Reading"
         \/ /\ trace' = Invalid(begun)
            /\ UNCHANGED <<reader, text, phase>>
  /\ UNCHANGED <<now, rev, admission, render, renders, names, others, wrote>>

\* The worker sends its result, or panics; it stores the tick after the send.
Read ==
  /\ \/ /\ reader.state = "Running"
        /\ \E s \in {"Sent", "Done"} : reader' = [reader EXCEPT !.state = s]
     \/ /\ reader.state = "Sent"
        /\ reader' = [reader EXCEPT !.state = "Done", !.tick = now]
  /\ UNCHANGED <<now, trace, rev, text, admission, phase, render, renders, names, others, wrote>>

\* request_active_worker_cancel, for either worker.
Cancel ==
  /\ \/ /\ reader.state # "None" /\ ~reader.cancelled
        /\ reader' = [reader EXCEPT !.cancelled = TRUE] /\ UNCHANGED admission
     \/ /\ admission.state # "None" /\ ~admission.cancelled
        /\ admission' = [admission EXCEPT !.cancelled = TRUE] /\ UNCHANGED reader
  /\ phase' = "None" /\ text' = "Other"
  /\ UNCHANGED <<trace, now, rev, render, renders, names, others, wrote>>

\* record_import_feedback_after_layout, with the Cancel control in place.
Layout ==
  /\ \/ phase = "Reading" /\ reader.state # "None" /\ ~reader.cancelled
     \/ phase = "Admitting" /\ admission.state # "None" /\ ~admission.cancelled
  /\ trace' = record(trace, trace.session, trace.initial, "CANCEL_READY", now)
  /\ phase' = "None"
  /\ UNCHANGED <<now, rev, text, reader, admission, render, renders, names, others, wrote>>

-----------------------------------------------------------------------------
(***************************************************************************)
(* handle_status_render_timer: up to the release of the state, the native  *)
(* writes, and what is recorded once the state is there again.             *)
(***************************************************************************)
RenderBegins ==
  /\ render.state = "None" /\ renders < MaxRenders
  /\ LET reading == text = "Reading"
         active  == /\ reading /\ matches(trace, trace.session, trace.initial)
                    /\ Seen(trace, "READING_STATUS_QUEUED")
         first   == active /\ ~Seen(trace, "READING_STATUS_COMMITTED")
     IN  /\ render' = [NoRender EXCEPT
                         !.state = "Native", !.generation = trace.generation,
                         !.owner = IF reader.kind = "Paths" THEN trace.generation ELSE 0,
                         !.session = trace.session, !.reading = reading,
                         !.active = active, !.first = first]
         /\ trace' = IF first
                     THEN begin_status_attempt(trace, trace.session, trace.initial, now)
                     ELSE trace
  /\ renders' = renders + 1
  /\ UNCHANGED <<now, rev, text, reader, admission, phase, names, others, wrote>>

\* The text may be refused, be overwritten before it is read back, or not be visible.
RenderWrites ==
  /\ render.state = "Native"
  /\ \E outcome \in {"Refused", "Written", "Matches", "Visible"} :
       LET matched == render.reading /\ outcome \in {"Matches", "Visible"}
       IN  /\ render' = [render EXCEPT
                           !.state = "Back", !.set = outcome # "Refused", !.matches = matched,
                           !.committed = IF matched THEN now ELSE 0,
                           !.visible = IF matched /\ outcome = "Visible" THEN now ELSE 0]
           /\ wrote' = IF render.reading /\ outcome # "Refused" THEN wrote \cup {render.owner} ELSE wrote
  /\ UNCHANGED <<now, trace, rev, text, reader, admission, phase, renders, names, others>>

\* The operation, its revision and the text are still those of the attempt.
SameOperation ==
  /\ trace.generation = render.generation
  /\ matches(trace, render.session, trace.initial)
  /\ (text = "Reading") = render.reading

RenderEnds ==
  /\ render.state = "Back"
  /\ LET s == trace.session
         r == trace.initial
         ended == IF render.first /\ trace.generation = render.generation
                  THEN end_status_attempt(trace, s, r, SameOperation /\ render.matches, render.set)
                  ELSE trace
         committed == record(ended, s, r, "READING_STATUS_COMMITTED", render.committed)
     IN  \/ \* Another callback holds the state.
            trace' = trace
         \/ trace' = CASE ~(SameOperation /\ render.set) -> ended
                    [] SameOperation /\ render.set /\ render.active /\ render.matches ->
                         IF render.visible = 0 THEN committed
                         ELSE record(committed, s, r, "READING_STATUS_VISIBLE", render.visible)
                    [] SameOperation /\ render.set /\ ~render.reading ->
                         mark_status_coalesced(ended, s, r)
                    [] OTHER -> ended
  /\ render' = NoRender
  /\ UNCHANGED <<now, rev, text, reader, admission, phase, renders, names, others, wrote>>

-----------------------------------------------------------------------------
\* start_admission_worker: the import an addition with no mode yet is attributed to.
OriginImport(t) ==
  IF /\ Seen(t, "READ_OWNER_ACCEPTED") /\ ~Seen(t, "ADMISSION_STARTED")
     /\ matches(t, t.session, rev)
  THEN t.session ELSE 0

\* The worker that was started, and what is recorded for it.
Admitting(t, origin, tick) ==
  /\ admission' = [NoWorker EXCEPT !.state = "Running", !.origin = origin]
  /\ trace' = IF origin # 0 THEN record(t, origin, rev, "ADMISSION_STARTED", tick) ELSE t

(***************************************************************************)
(* handle_import_completion and finish_import_worker_result.               *)
(***************************************************************************)
ImportCompletion ==
  /\ Finished(reader) /\ reader.kind = "Paths" /\ reader' = NoWorker
  /\ text' = "Other"
  /\ LET s == reader.session
         published == record(mark_status_coalesced(trace, s, rev), s, rev,
                             "READ_RESULT_PUBLISHED", reader.tick)
         accepted  == record(published, s, rev, "READ_OWNER_ACCEPTED", now)
     IN  \/ \* Cancelled, or read with an error.
            /\ trace' = published /\ phase' = "None"
            /\ UNCHANGED admission
         \/ /\ ~reader.cancelled /\ reader.tick # 0
            /\ \/ /\ Admitting(accepted, OriginImport(accepted), now)
                  /\ phase' = IF phase = "Reading" THEN "Admitting" ELSE "None"
               \/ \* Its admission could not be started.
                  /\ trace' = accepted /\ phase' = "None"
                  /\ UNCHANGED admission
  /\ UNCHANGED <<now, rev, render, renders, names, others, wrote>>

\* The same two, for the other kind of import: the names may change the list.
StartNames ==
  /\ Unlocked /\ names < MaxNames
  /\ reader' = [NoWorker EXCEPT !.state = "Running", !.kind = "Names"]
  /\ text' = "Reading" /\ phase' = "None" /\ names' = names + 1
  /\ UNCHANGED <<trace, now, rev, admission, render, renders, others, wrote>>

NamesCompletion ==
  /\ Finished(reader) /\ reader.kind = "Names" /\ reader' = NoWorker
  /\ text' = "Other" /\ rev' \in {rev, rev + 1}
  /\ UNCHANGED <<trace, now, admission, phase, render, renders, names, others, wrote>>

(***************************************************************************)
(* Files are added by the picker or a drop; the second worker of an        *)
(* addition whose directory mode was asked for has no origin.              *)
(***************************************************************************)
AdmitOthers ==
  /\ Unlocked /\ others < MaxOthers
  /\ \/ Admitting(trace, OriginImport(trace), now)
     \/ Admitting(trace, 0, now)
  /\ others' = others + 1 /\ text' = "Other"
  /\ UNCHANGED <<names, now, rev, reader, phase, render, renders, wrote>>

\* A panic is caught, so a result and its tick are always published.
AdmissionPublishes ==
  /\ \/ admission.state = "Running" /\ admission' = [admission EXCEPT !.state = "Sent"]
     \/ admission.state = "Sent" /\ admission' = [admission EXCEPT !.state = "Done", !.tick = now]
  /\ UNCHANGED <<now, trace, rev, text, reader, phase, render, renders, names, others, wrote>>

\* record_icon_settlement_if_ready, with all icons in place.
IconsSettle(t, revision, tick) ==
  IF Seen(t, "IMPORT_COMMAND_READY") /\ ~Seen(t, "ICONS_SETTLED") /\ revision = t.final
  THEN record(t, t.session, t.initial, "ICONS_SETTLED", tick)
  ELSE t

\* refresh: the list is brought up to date, or stops at a native failure.
Refreshed(t, complete, tick) ==
  LET traced == t.armed /\ Seen(t, "MODEL_COMMITTED") /\ ~Seen(t, "NATIVE_SYNC_STARTED")
      started == IF traced THEN record(t, t.session, t.initial, "NATIVE_SYNC_STARTED", tick) ELSE t
  IN  IF traced /\ complete
      THEN record(started, t.session, t.initial, "NATIVE_SYNC_COMPLETED", tick)
      ELSE started

(***************************************************************************)
(* handle_admission_completion.  A result without files to commit (asks    *)
(* for the mode, cancelled, panicked) records nothing but its publication. *)
(***************************************************************************)
AdmissionCompletion ==
  /\ Finished(admission) /\ admission' = NoWorker
  /\ text' = "Other" /\ phase' = IF phase = "Admitting" THEN "None" ELSE phase
  /\ LET o == admission.origin
         Of(t, e, tick) == IF o = 0 THEN t ELSE record(t, o, rev, e, tick)
         published == Of(trace, "ADMISSION_RESULT_PUBLISHED", admission.tick)
         accepted  == LET t == Of(published, "ADMISSION_OWNER_ACCEPTED", now)
                      IN  IF o = 0 THEN t
                          ELSE Marked(t, o, rev, "ADMISSION_OWNER_ACCEPTED", "ADMISSION_ACCEPTED")
         committed(final) ==
           LET t == Of(accepted, "MODEL_COMMITTED", now)
           IN  IF o = 0 THEN t
               ELSE arm_native_sync(set_final_model_revision(t, o, rev, final), o, rev)
         synced(final, complete) ==
           [Refreshed(committed(final), complete, now) EXCEPT !.armed = FALSE]
         synchronized(final) ==
           Marked(synced(final, TRUE), o, rev, "NATIVE_SYNC_COMPLETED", "NATIVE_SYNCHRONIZED")
         ready(final) == Of(synchronized(final), "IMPORT_COMMAND_READY", now)
     IN  \/ trace' = published /\ UNCHANGED rev
         \/ trace' = accepted /\ UNCHANGED rev
         \/ /\ rev' \in {rev, rev + 1}
            /\ \/ trace' = synced(rev', FALSE)
               \/ trace' = synchronized(rev')
               \/ trace' = ready(rev')
               \/ o # 0 /\ trace' = IconsSettle(ready(rev'), rev', now)
  /\ UNCHANGED <<now, reader, render, renders, names, others, wrote>>

\* The delivery of the last icon.
IconsDelivered ==
  /\ trace' = IconsSettle(trace, rev, now) /\ trace' # trace
  /\ UNCHANGED <<now, rev, text, reader, admission, phase, render, renders, names, others, wrote>>

ClockAdvances ==
  /\ now < MaxTick /\ now' = now + 1
  /\ UNCHANGED <<trace, rev, text, reader, admission, phase, render, renders, names, others, wrote>>

Next ==
  \/ StartImport \/ Read \/ Cancel \/ Layout
  \/ RenderBegins \/ RenderWrites \/ RenderEnds
  \/ ImportCompletion \/ StartNames \/ NamesCompletion
  \/ AdmitOthers \/ AdmissionPublishes \/ AdmissionCompletion
  \/ IconsDelivered \/ ClockAdvances

Spec == Init /\ [][Next]_vars

-----------------------------------------------------------------------------
(***************************************************************************)
(* Whatever the order in which timers, layouts and workers report, three   *)
(* things only make the evidence of an import unusable: a worker that      *)
(* could not be started, one that ended without a result, and the reading  *)
(* text of an import of names that the status timer takes for the text of  *)
(* the traced import after that was coalesced (the step VISIBLE is then    *)
(* recorded although COMMITTED was not).                                   *)
(***************************************************************************)
StartFailed == trace'.generation > trace.generation /\ reader' = reader

ResultMissing ==
  Finished(reader) /\ reader.kind = "Paths" /\ reader.tick = 0 /\ reader' = NoWorker

StatusTakenOver ==
  render.state = "Back" /\ render.owner = 0 /\ "STATUS_COALESCED" \in trace.flags

InvalidatedOnlyBy ==
  (trace.valid /\ ~trace'.valid) => StartFailed \/ ResultMissing \/ StatusTakenOver

(***************************************************************************)
(* An observer that reads the frame value by value and finds the same      *)
(* revision before and after has read one frame: every change of what the  *)
(* selectors return comes with a greater revision.                         *)
(***************************************************************************)
Frame == <<trace.generation, trace.session, trace.initial, trace.final, trace.flags, trace.ev>>

FrameIsBracketed ==
  Frame' # Frame => trace'.revision > trace.revision

(***************************************************************************)
(* The reading text is reported as never shown only when it never reached  *)
(* the control, also when a write was under way as the import completed.   *)
(***************************************************************************)
CoalescedNeverShown ==
  "STATUS_COALESCED" \in trace.flags => trace.generation \notin wrote
=============================================================================
