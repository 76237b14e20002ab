---------------------------- MODULE Preferences -----------------------------
(***************************************************************************)
(* The settings files: loading and migration at startup, one coalescing    *)
(* writer thread per file (preferences.rs), the window's view of them      *)
(* (preference_lifecycle.rs) and the flush at close, over many sessions    *)
(* with crashes, failing saves and files that cannot be read.              *)
(*                                                                         *)
(* A setting of Ordinary is shown at once and saved later; the language is *)
(* shown only once it is saved.                                            *)
(***************************************************************************)
EXTENDS Integers, Sequences, FiniteSets, WellFoundedInduction, TLAPS

CONSTANTS
  Ordinary,        \* settings other than the language (columns, appearance)
  Value,           \* their snapshots, the default among them
  Default,
  Choices,         \* languages the user chooses among
  MaxGeneration,   \* bound on the submissions of a session
  MaxFaults,       \* bound on failed saves and failed thread starts
  MaxCrashes       \* bound on crashes and on files damaged from outside

PreferencesAssumption ==
  /\ Default \in Value
  /\ Choices \subseteq {"System", "Korean", "English"}
  /\ "Language" \notin Ordinary
  /\ {"Missing", "Unreadable"} \cap Value = {}
  /\ {MaxGeneration, MaxFaults, MaxCrashes} \subseteq Nat

Language == {"System", "Korean", "English"}

Setting == Ordinary \cup {"Language"}

Snapshot(k) == IF k = "Language" THEN Language ELSE Value

NoRequest == [generation |-> 0]

VARIABLES
  phase,      \* "Off", "Starting", "Running" or "Closing"
  file,       \* the file of a setting: a snapshot, "Missing" or "Unreadable"
  temp,       \* its temporary file: "None", "Partial" or "Complete"
  shown,      \* the setting the window works with
  asked,      \* the snapshot last handed to the writer
  writer,     \* the writer of a setting, its queue, thread and channels
  status,     \* WriterStatus
  legacy,     \* the installation is older than the language setting
  chosen,     \* the user has chosen a language once
  faults, crashes

vars == <<phase, file, temp, shown, asked, writer, status, legacy, chosen, faults, crashes>>

NoWriter ==
  [present |-> FALSE, authorized |-> FALSE, pending |-> NoRequest, job |-> NoRequest,
   shutdown |-> FALSE, thread |-> "Exited", next_generation |-> 0, events |-> <<>>,
   saved |-> <<>>]

NewStatus ==
  [requested |-> 0, saved |-> 0, failed |-> 0, submission_failed |-> FALSE, terminal |-> FALSE]

Defaults == [k \in Setting |-> IF k = "Language" THEN "System" ELSE Default]

\* Nothing of a process is left but its files.
Gone ==
  /\ phase' = "Off"
  /\ shown' = Defaults
  /\ asked' = Defaults
  /\ writer' = [k \in Setting |-> NoWriter]
  /\ status' = [k \in Setting |-> NewStatus]
  /\ temp' = [k \in Setting |-> "None"]

Init ==
  /\ phase = "Off"
  /\ file \in [Setting -> {"Missing"} \cup Value] /\ file["Language"] = "Missing"
  /\ temp = [k \in Setting |-> "None"]
  /\ shown = Defaults
  /\ asked = Defaults
  /\ writer = [k \in Setting |-> NoWriter]
  /\ status = [k \in Setting |-> NewStatus]
  /\ legacy = \E k \in Setting : file[k] # "Missing"
  /\ chosen = FALSE
  /\ faults = 0
  /\ crashes = 0

Fault == faults < MaxFaults /\ faults' = faults + 1

-----------------------------------------------------------------------------
(***************************************************************************)
(* Startup: load_or_default, load_appearance_or_default and                *)
(* load_language_or_default. A file that cannot be read is never written.  *)
(***************************************************************************)
Readable(k) == file[k] \notin {"Missing", "Unreadable"}

Legacy == \E k \in Ordinary : Readable(k)

MigrationFailure == ~Legacy /\ \E k \in Ordinary : file[k] = "Unreadable"

LoadLanguage ==
  CASE Readable("Language") -> file["Language"]
    [] file["Language"] = "Missing" -> IF Legacy \/ MigrationFailure THEN "Korean" ELSE "System"
    [] file["Language"] = "Unreadable" -> "System"

Authorized(k) == file[k] # "Unreadable"

Load ==
  /\ phase = "Off"
  /\ phase' = "Starting"
  /\ shown' = [k \in Setting |-> IF k = "Language" THEN LoadLanguage
                                 ELSE IF Readable(k) THEN file[k] ELSE Default]
  /\ asked' = shown'
  /\ status' = [k \in Setting |-> NewStatus]
  /\ writer' = [k \in Setting |-> [NoWriter EXCEPT !.authorized = Authorized(k)]]
  /\ UNCHANGED <<file, temp, legacy, chosen, faults, crashes>>

CommitsDefault == file["Language"] = "Missing" /\ ~MigrationFailure

\* start_preferences_writers and start_language_writer; a thread may not start.
Spawned(k, started) ==
  IF writer[k].authorized /\ started
  THEN [writer[k] EXCEPT !.present = TRUE, !.thread = "Waiting"] ELSE writer[k]

\* AppState::new commits a missing language, then the writers start.
StartWriters ==
  /\ phase = "Starting"
  /\ phase' = "Running"
  /\ \/ /\ file' = IF CommitsDefault THEN [file EXCEPT !["Language"] = shown["Language"]] ELSE file
        /\ writer' = [k \in Setting |-> Spawned(k, TRUE)]
        /\ UNCHANGED faults
     \/ Fault /\ CommitsDefault /\ UNCHANGED file
        /\ writer' = [k \in Setting |-> Spawned(k, TRUE)]
     \/ /\ Fault
        /\ file' = IF CommitsDefault THEN [file EXCEPT !["Language"] = shown["Language"]] ELSE file
        /\ \E dead \in Setting : writer' = [k \in Setting |-> Spawned(k, k # dead)]
  /\ UNCHANGED <<temp, shown, asked, status, legacy, chosen, crashes>>

-----------------------------------------------------------------------------
(***************************************************************************)
(* CoalescingWriter::submit: the newest request replaces a waiting one.    *)
(***************************************************************************)
Finished(k) == writer[k].thread = "Exited"

Accepts(k) == writer[k].present /\ ~Finished(k) /\ ~writer[k].shutdown

NextGeneration(k) == writer[k].next_generation + 1

Submitted(k, v) ==
  LET g == NextGeneration(k)
  IN  [writer[k] EXCEPT !.next_generation = g, !.pending = [generation |-> g, snapshot |-> v]]

\* WriterStatus::note_submission
NoteSubmission(k, g) ==
  [status[k] EXCEPT !.requested = IF g = 0 THEN @ ELSE g, !.submission_failed = g = 0]

ShownAtOnce(k) == k \in Ordinary

\* persist_column_preferences, persist_appearance_preferences and
\* select_language_preference. An ordinary setting without a writer is not noted.
Change(k, v) ==
  /\ phase \in {"Running", "Closing"}
  /\ writer[k].next_generation < MaxGeneration
  /\ IF writer[k].authorized /\ Accepts(k)
     THEN /\ writer' = [writer EXCEPT ![k] = Submitted(k, v)]
          /\ status' = [status EXCEPT ![k] = NoteSubmission(k, NextGeneration(k))]
          /\ asked' = [asked EXCEPT ![k] = v]
     ELSE /\ UNCHANGED <<writer, asked>>
          /\ status' = IF writer[k].authorized /\ (writer[k].present \/ k = "Language")
                       THEN [status EXCEPT ![k] = NoteSubmission(k, 0)] ELSE status
  /\ shown' = IF ShownAtOnce(k) THEN [shown EXCEPT ![k] = v] ELSE shown
  /\ chosen' = (chosen \/ k = "Language")
  /\ UNCHANGED <<phase, file, temp, legacy, faults, crashes>>

-----------------------------------------------------------------------------
(***************************************************************************)
(* The writer thread: save to a synchronised temporary file, replace the   *)
(* settings file by it, report. Each step can fail until the replacement.  *)
(***************************************************************************)
Thread(k, from, w) ==
  /\ phase # "Off"
  /\ writer[k].thread = from
  /\ writer' = [writer EXCEPT ![k] = w]
  /\ UNCHANGED <<phase, shown, asked, status, legacy, chosen, crashes>>

TakeRequest(k) ==
  /\ writer[k].pending # NoRequest
  /\ Thread(k, "Waiting", [writer[k] EXCEPT !.thread = "Saving", !.job = writer[k].pending,
                                            !.pending = NoRequest])
  /\ UNCHANGED <<file, temp, faults>>

CreateTemp(k) ==
  /\ temp[k] = "None"
  /\ Thread(k, "Saving", writer[k])
  /\ temp' = [temp EXCEPT ![k] = "Partial"]
  /\ UNCHANGED <<file, faults>>

SyncTemp(k) ==
  /\ temp[k] = "Partial"
  /\ Thread(k, "Saving", writer[k])
  /\ temp' = [temp EXCEPT ![k] = "Complete"]
  /\ UNCHANGED <<file, faults>>

ReplaceFile(k) ==
  /\ temp[k] = "Complete"
  /\ Thread(k, "Saving", [writer[k] EXCEPT !.thread = "Replaced"])
  /\ file' = [file EXCEPT ![k] = writer[k].job.snapshot]
  /\ temp' = [temp EXCEPT ![k] = "None"]
  /\ UNCHANGED faults

ReportSaved(k) ==
  /\ Thread(k, "Replaced",
       [writer[k] EXCEPT !.thread = "Waiting", !.job = NoRequest,
          !.events = Append(@, [saved |-> TRUE, generation |-> writer[k].job.generation]),
          !.saved = IF k = "Language" THEN Append(@, writer[k].job.snapshot) ELSE @])
  /\ UNCHANGED <<file, temp, faults>>

SaveFails(k) ==
  /\ Fault
  /\ Thread(k, "Saving",
       [writer[k] EXCEPT !.thread = "Waiting", !.job = NoRequest,
          !.events = Append(@, [saved |-> FALSE, generation |-> writer[k].job.generation])])
  /\ temp' = [temp EXCEPT ![k] = "None"]
  /\ UNCHANGED file

MayStop(k) == writer[k].shutdown /\ writer[k].pending = NoRequest

Stop(k) ==
  /\ MayStop(k)
  /\ Thread(k, "Waiting", [writer[k] EXCEPT !.thread = "Ended"])
  /\ UNCHANGED <<file, temp, faults>>

Exit(k) ==
  /\ Thread(k, "Ended", [writer[k] EXCEPT !.thread = "Exited"])
  /\ UNCHANGED <<file, temp, faults>>

-----------------------------------------------------------------------------
(***************************************************************************)
(* WriterStatus::observe over the events of a writer, in order.            *)
(***************************************************************************)
\* Mutant: a failed save counts as a save.
SavesAll(events) == {events[i].generation : i \in DOMAIN events}

Saves(events) == {events[i].generation : i \in {j \in DOMAIN events : events[j].saved}}

Fails(events) == {i \in DOMAIN events : ~events[i].saved}

\* The generation whose failure is still open after the events.
StillFailed(st, events) ==
  LET open == IF Fails(events) = {} THEN st.failed
              ELSE events[CHOOSE i \in Fails(events) : \A j \in Fails(events) : j <= i].generation
  IN  IF \E g \in Saves(events) : g >= open THEN 0 ELSE open

Observed(k, ended) ==
  LET events == writer[k].events
  IN  [status[k] EXCEPT
         !.saved = CHOOSE g \in Saves(events) \cup {@} :
                     \A other \in Saves(events) \cup {@} : other <= g,
         !.failed = StillFailed(status[k], events),
         !.terminal = @ \/ ended]

Read(k) == [writer[k] EXCEPT !.events = <<>>, !.saved = <<>>]

ShownAfter == [k \in Setting |->
  IF writer[k].saved = <<>> THEN shown[k] ELSE writer[k].saved[Len(writer[k].saved)]]

\* Stopped is sent before the thread is over.
Terminal(k) == writer[k].thread \in {"Ended", "Exited"}

\* handle_preferences_wake, from the message or its timer
Drain ==
  /\ phase \in {"Running", "Closing"}
  /\ \E k \in Setting : writer[k].present /\ writer[k].events # <<>>
  /\ status' = [k \in Setting |->
       IF writer[k].present THEN Observed(k, Terminal(k)) ELSE status[k]]
  /\ writer' = [k \in Setting |-> IF writer[k].present THEN Read(k) ELSE writer[k]]
  /\ shown' = ShownAfter
  /\ UNCHANGED <<phase, file, temp, asked, legacy, chosen, faults, crashes>>

ShutDown(k) ==
  IF ~writer[k].present THEN writer[k]
  ELSE IF k = "Language" \/ ~Accepts(k) THEN [writer[k] EXCEPT !.shutdown = TRUE]
  ELSE [Submitted(k, shown[k]) EXCEPT !.shutdown = TRUE]

\* request_preferences_shutdown: a last snapshot of each ordinary setting
BeginClose ==
  /\ phase = "Running"
  /\ phase' = "Closing"
  /\ writer' = [k \in Setting |-> ShutDown(k)]
  /\ asked' = [k \in Setting |-> IF k \in Ordinary /\ writer[k].present /\ Accepts(k)
                                 THEN shown[k] ELSE asked[k]]
  /\ UNCHANGED <<file, temp, shown, status, legacy, chosen, faults, crashes>>

\* finish_if_ready and join, then the window goes
FinishClose ==
  /\ phase = "Closing"
  /\ \A k \in Setting : writer[k].present => Terminal(k)
  /\ Gone
  /\ UNCHANGED <<file, legacy, chosen, faults, crashes>>

\* Process loss. A temporary file stays behind; nothing reads it again.
Crash ==
  /\ phase # "Off"
  /\ crashes < MaxCrashes
  /\ crashes' = crashes + 1
  /\ Gone
  /\ UNCHANGED <<file, legacy, chosen, faults>>

\* A file is damaged from outside while the program is not running.
Damage ==
  /\ phase = "Off"
  /\ crashes < MaxCrashes
  /\ crashes' = crashes + 1
  /\ \E k \in Setting : Readable(k) /\ file' = [file EXCEPT ![k] = "Unreadable"]
  /\ UNCHANGED <<phase, temp, shown, asked, writer, status, legacy, chosen, faults>>

Writes(k) ==
  \/ TakeRequest(k) \/ CreateTemp(k) \/ SyncTemp(k) \/ ReplaceFile(k) \/ ReportSaved(k)
  \/ SaveFails(k) \/ Stop(k) \/ Exit(k)

Next ==
  \/ Load \/ StartWriters
  \/ \E k \in Ordinary, v \in Value : Change(k, v)
  \/ \E v \in Choices : Change("Language", v)
  \/ \E k \in Setting : Writes(k)
  \/ Drain \/ BeginClose \/ FinishClose
  \/ Crash \/ Damage

Spec == Init /\ [][Next]_vars

-----------------------------------------------------------------------------
TypeOK ==
  /\ phase \in {"Off", "Starting", "Running", "Closing"}
  /\ \A k \in Setting : file[k] \in Snapshot(k) \cup {"Missing", "Unreadable"}
  /\ temp \in [Setting -> {"None", "Partial", "Complete"}]
  /\ \A k \in Setting : shown[k] \in Snapshot(k) /\ asked[k] \in Snapshot(k)
  /\ \A k \in Setting :
       /\ writer[k].next_generation \in 0..(MaxGeneration + 1)
       /\ writer[k].thread \in {"Waiting", "Saving", "Replaced", "Ended", "Exited"}
       /\ {status[k].requested, status[k].saved, status[k].failed} \subseteq 0..(MaxGeneration + 1)

\* WriterStatus::acknowledged, as required_acknowledgments_complete asks for it
Acknowledged(k) ==
  /\ writer[k].present /\ ~Finished(k)
  /\ ~status[k].terminal /\ ~status[k].submission_failed /\ status[k].failed = 0
  /\ status[k].saved >= status[k].requested

(***************************************************************************)
(* The window calls its settings saved only when the last snapshot it      *)
(* asked for is in the file, however requests, coalescing, failures and    *)
(* delayed events fall between the threads.                                *)
(***************************************************************************)
AcknowledgedIsDurable ==
  \A k \in Setting :
    phase = "Running" /\ Acknowledged(k) /\ status[k].requested > 0 => file[k] = asked[k]

(***************************************************************************)
(* The language the window shows as chosen is the one in the file, except  *)
(* while the news of a save is on its way.                                 *)
(***************************************************************************)
ShownLanguageIsSaved ==
  phase = "Running" /\ Readable("Language") =>
    \/ shown["Language"] = file["Language"]
    \/ writer["Language"].saved # <<>>
    \/ writer["Language"].thread = "Replaced"

(***************************************************************************)
(* Without a choice of the user, a new installation follows the system and *)
(* one from before the language setting stays Korean, in every later       *)
(* session: the other settings files, which appear in between, must not    *)
(* be taken for evidence of an old installation (AppState::new).           *)
(***************************************************************************)
LanguageOriginKept ==
  phase # "Off" /\ ~chosen /\ file["Language"] # "Unreadable" =>
    shown["Language"] = IF legacy THEN "Korean" ELSE "System"

(***************************************************************************)
(* A settings file that could not be read is never overwritten.            *)
(***************************************************************************)
UnreadableKept == \A k \in Setting : file[k] = "Unreadable" => file'[k] = "Unreadable"

(***************************************************************************)
(* A clean exit leaves the last snapshots in the files, unless a writer is *)
(* missing or has reported a failure. A language nobody asked for may be   *)
(* absent: its default could not be committed.                             *)
(***************************************************************************)
ExitSavesSettings ==
  FinishClose => \A k \in Setting :
     writer[k].present /\ Observed(k, TRUE).failed = 0 /\ asked[k] # file[k] =>
       status[k].requested = 0 /\ k = "Language"

-----------------------------------------------------------------------------
(***************************************************************************)
(* Why these hold, setting by setting. Requests of a session carry rising  *)
(* generations; at most one waits and at most one is being saved. What is  *)
(* behind the oldest one still to be done (Due) has been reported, so the  *)
(* news of the newest generation is final: the file holds the snapshot     *)
(* asked for last, or the failure is on record. Each part is a predicate   *)
(* of the setting's own values, so a step that leaves them alone keeps it. *)
(***************************************************************************)
Generations == 0..(MaxGeneration + 1)

Event == [saved : BOOLEAN, generation : Generations]

Requests(k) ==
  {NoRequest} \cup [generation : Generations \ {0}, snapshot : Snapshot(k)]

Writers(k) ==
  [present : BOOLEAN, authorized : BOOLEAN, pending : Requests(k), job : Requests(k),
   shutdown : BOOLEAN, thread : {"Waiting", "Saving", "Replaced", "Ended", "Exited"},
   next_generation : Generations, events : Seq(Event), saved : Seq(Language)]

Statuses ==
  [requested : Generations, saved : Generations, failed : Generations,
   submission_failed : BOOLEAN, terminal : BOOLEAN]

Working(w) == w.thread \in {"Saving", "Replaced"}

\* The oldest generation that is not done.
Due(w) ==
  IF Working(w) THEN w.job.generation
  ELSE IF w.pending # NoRequest THEN w.next_generation
  ELSE w.next_generation + 1

\* A thread runs only behind an authorized writer of a running program, and
\* ends only after the shutdown with nothing waiting.
Life(k, ph, f, w) ==
  /\ ph \in {"Off", "Starting"} => ~w.present /\ ~w.shutdown
  /\ ~w.present => /\ w.thread = "Exited" /\ w.pending = NoRequest /\ w.next_generation = 0
                   /\ w.events = <<>> /\ w.saved = <<>>
  /\ w.present => w.authorized
  /\ k # "Language" => w.saved = <<>>
  /\ ph # "Off" /\ w.authorized => f # "Unreadable"
  /\ ph = "Running" => ~w.shutdown /\ w.next_generation <= MaxGeneration
  /\ ph = "Closing" /\ w.present => w.shutdown /\ (k \in Ordinary => w.next_generation > 0)
  /\ w.present /\ w.thread \in {"Ended", "Exited"} => w.shutdown /\ w.pending = NoRequest

\* The newest request, waiting or being saved, is for the snapshot asked for.
Queue(a, f, w) ==
  /\ w.pending # NoRequest => w.pending.generation = w.next_generation /\ w.pending.snapshot = a
  /\ Working(w) => /\ w.job # NoRequest /\ w.job.generation <= w.next_generation
                   /\ w.job.generation = w.next_generation <=> w.pending = NoRequest
                   /\ w.pending = NoRequest => w.job.snapshot = a
  /\ w.thread = "Replaced" => f = w.job.snapshot

\* News arrive in the order of their generations, each after what is known.
Ordered(w, s) ==
  /\ s.saved < Due(w) /\ s.failed < Due(w)
  /\ \A i \in DOMAIN w.events :
       /\ s.saved < w.events[i].generation /\ s.failed < w.events[i].generation
       /\ w.events[i].generation < Due(w)
  /\ \A i, j \in DOMAIN w.events : i < j => w.events[i].generation < w.events[j].generation

SavedLatest(w, s) ==
  \/ s.saved = w.next_generation
  \/ \E i \in DOMAIN w.events : w.events[i].saved /\ w.events[i].generation = w.next_generation

FailedLatest(w, s) ==
  \/ s.failed = w.next_generation
  \/ \E i \in DOMAIN w.events : ~w.events[i].saved /\ w.events[i].generation = w.next_generation

\* The newest generation: saved means it is in the file, done means so or failed.
Outcome(a, f, w, s) ==
  w.next_generation > 0 =>
    /\ SavedLatest(w, s) => f = a
    /\ Due(w) > w.next_generation => f = a \/ FailedLatest(w, s)

Noted(k, ph, w, s) ==
  (ph # "Closing" \/ k = "Language") => s.requested = w.next_generation

Consistent(k, ph, f, a, w, s) ==
  /\ w \in Writers(k) /\ s \in Statuses
  /\ f \in Snapshot(k) \cup {"Missing", "Unreadable"} /\ a \in Snapshot(k)
  /\ Life(k, ph, f, w) /\ Queue(a, f, w) /\ Ordered(w, s) /\ Outcome(a, f, w, s)
  /\ Noted(k, ph, w, s)

\* The language on screen, or about to be, is the one in the file.
LanguageNews(ph, f, sh, w) ==
  ph # "Off" /\ w.thread # "Replaced" =>
    IF w.saved # <<>> THEN w.saved[Len(w.saved)] = f
    ELSE f \in {"Missing", "Unreadable"} \/ sh = f

VariablesTyped ==
  /\ phase \in {"Off", "Starting", "Running", "Closing"}
  /\ DOMAIN file = Setting /\ DOMAIN asked = Setting
  /\ DOMAIN writer = Setting /\ DOMAIN status = Setting
  /\ temp \in [Setting -> {"None", "Partial", "Complete"}]
  /\ DOMAIN shown = Setting /\ \A k \in Setting : shown[k] \in Snapshot(k)
  /\ legacy \in BOOLEAN /\ chosen \in BOOLEAN
  /\ faults \in 0..MaxFaults

PreferencesInv ==
  /\ VariablesTyped
  /\ \A k \in Setting : Consistent(k, phase, file[k], asked[k], writer[k], status[k])
  /\ LanguageNews(phase, file["Language"], shown["Language"], writer["Language"])

\* Where the language of a user who chose none comes from.
Origin == IF legacy THEN "Korean" ELSE "System"

OriginInv ==
  ~chosen =>
    /\ writer["Language"].pending = NoRequest /\ ~Working(writer["Language"])
    /\ writer["Language"].saved = <<>>
    /\ file["Language"] \in {"Missing", "Unreadable", Origin}
    /\ file["Language"] = "Missing" /\ ~legacy =>
         phase \in {"Off", "Starting"} /\ \A k \in Ordinary : file[k] = "Missing"
    /\ file["Language"] = "Missing" /\ legacy => \E k \in Ordinary : file[k] # "Missing"
    /\ phase # "Off" /\ file["Language"] # "Unreadable" => shown["Language"] = Origin

-----------------------------------------------------------------------------
\* A nonempty set of naturals below a bound has a largest element.
LEMMA HasLargest ==
  ASSUME NEW N \in Nat, NEW S, S \subseteq 0..N, S # {}
  PROVE  \E m \in S : \A n \in S : n <= m
<1>. DEFINE R == OpToRel(<, Nat)
            T == {N - n : n \in S}
<1>1. \A n \in S : n \in 0..N /\ N - n \in Nat
  OBVIOUS
<1>2. T \subseteq Nat /\ T # {}
  BY <1>1
<1>3. IsWellFoundedOn(R, Nat)
  BY NatLessThanWellFounded
<1>4. \A x, y \in Nat : x < y => <<x, y>> \in R
  BY DEF OpToRel
<1>5. \E m \in T : \A n \in T : ~(<<n, m>> \in R)
  <2>. HIDE DEF R, T
  <2>. QED  BY <1>2, <1>3, WFMin
<1>6. PICK s \in S : \A n \in S : ~(<<N - n, N - s>> \in R)
  BY <1>5
<1>. HIDE DEF R, T
<1>7. ASSUME NEW n \in S PROVE n <= s
  <2>1. n \in 0..N /\ s \in 0..N /\ N - n \in Nat /\ N - s \in Nat
    BY <1>1
  <2>2. ~(N - n < N - s)
    BY <1>4, <1>6, <2>1
  <2>. QED  BY <2>1, <2>2
<1>. QED  BY <1>7

LEMMA RequestFacts ==
  ASSUME NEW k, NEW r \in Requests(k)
  PROVE  IF r = NoRequest THEN r.generation = 0
         ELSE r.generation \in Generations \ {0} /\ r.snapshot \in Snapshot(k)
BY DEF Requests, NoRequest

\* The snapshots of a setting are not the marks for a missing or unreadable file.
LEMMA SnapshotFacts ==
  ASSUME PreferencesAssumption, NEW k \in Setting
  PROVE  /\ "Missing" \notin Snapshot(k) /\ "Unreadable" \notin Snapshot(k)
         /\ Defaults[k] \in Snapshot(k)
BY DEF PreferencesAssumption, Snapshot, Language, Setting, Defaults

LEMMA GenerationFacts ==
  ASSUME PreferencesAssumption
  PROVE  /\ MaxGeneration \in Nat /\ MaxFaults \in Nat /\ MaxCrashes \in Nat
         /\ 0 \in Generations /\ Generations \subseteq Int
BY DEF PreferencesAssumption, Generations

LEMMA WriterFacts ==
  ASSUME NEW k, NEW w \in Writers(k)
  PROVE  /\ w.present \in BOOLEAN /\ w.authorized \in BOOLEAN /\ w.shutdown \in BOOLEAN
         /\ w.pending \in Requests(k) /\ w.job \in Requests(k)
         /\ w.thread \in {"Waiting", "Saving", "Replaced", "Ended", "Exited"}
         /\ w.next_generation \in Generations
         /\ w.events \in Seq(Event) /\ w.saved \in Seq(Language)
         /\ \A i \in DOMAIN w.events :
              w.events[i].saved \in BOOLEAN /\ w.events[i].generation \in Generations
<1>1. /\ w.events \in Seq(Event) /\ w.saved \in Seq(Language)
      /\ w.present \in BOOLEAN /\ w.authorized \in BOOLEAN /\ w.shutdown \in BOOLEAN
      /\ w.pending \in Requests(k) /\ w.job \in Requests(k)
      /\ w.thread \in {"Waiting", "Saving", "Replaced", "Ended", "Exited"}
      /\ w.next_generation \in Generations
  BY DEF Writers
<1>2. \A i \in DOMAIN w.events : w.events[i] \in Event
  BY <1>1
<1>3. \A e \in Event : e.saved \in BOOLEAN /\ e.generation \in Generations
  BY DEF Event
<1>. QED  BY <1>1, <1>2, <1>3

\* A writer nothing was asked of yet.
LEMMA FreshConsistent ==
  ASSUME PreferencesAssumption, NEW k \in Setting, NEW ph, NEW f, NEW a, NEW w, NEW s,
         w \in Writers(k), s \in Statuses,
         f \in Snapshot(k) \cup {"Missing", "Unreadable"}, a \in Snapshot(k),
         Life(k, ph, f, w), w.pending = NoRequest, w.thread \in {"Waiting", "Exited"},
         w.next_generation = 0, w.events = <<>>,
         s.requested = 0, s.saved = 0, s.failed = 0
  PROVE  Consistent(k, ph, f, a, w, s)
<1>1. ~Working(w) /\ Due(w) = 1
  BY DEF Working, Due
<1>2. Queue(a, f, w) /\ Ordered(w, s)
  BY <1>1 DEF Queue, Ordered
<1>3. Outcome(a, f, w, s) /\ Noted(k, ph, w, s)
  BY DEF Outcome, Noted
<1>. QED  BY <1>2, <1>3 DEF Consistent

\* A program that is off has no writers.
LEMMA OffConsistent ==
  ASSUME PreferencesAssumption, NEW k \in Setting,
         NEW f \in Snapshot(k) \cup {"Missing", "Unreadable"}
  PROVE  Consistent(k, "Off", f, Defaults[k], NoWriter, NewStatus)
<1>1. NoWriter \in Writers(k) /\ NewStatus \in Statuses
  BY GenerationFacts DEF NoWriter, NewStatus, Writers, Statuses, Requests
<1>. QED
  BY <1>1, SnapshotFacts, FreshConsistent DEF Life, NoWriter, NewStatus

LEMMA LoadConsistent ==
  ASSUME PreferencesAssumption, NEW k \in Setting,
         NEW f \in Snapshot(k) \cup {"Missing", "Unreadable"}, NEW a \in Snapshot(k),
         NEW authorized \in BOOLEAN, authorized <=> f # "Unreadable"
  PROVE  Consistent(k, "Starting", f, a, [NoWriter EXCEPT !.authorized = authorized], NewStatus)
<1>. DEFINE u == [NoWriter EXCEPT !.authorized = authorized]
<1>1. u \in Writers(k) /\ NewStatus \in Statuses
  <2>1. NoWriter \in Writers(k) /\ NewStatus \in Statuses
    BY GenerationFacts DEF NoWriter, NewStatus, Writers, Statuses, Requests
  <2>2. \A w \in Writers(k) : [w EXCEPT !.authorized = authorized] \in Writers(k)
    BY DEF Writers
  <2>. QED  BY <2>1, <2>2
<1>2. /\ u.present = FALSE /\ u.pending = NoRequest /\ u.thread = "Exited"
      /\ u.next_generation = 0 /\ u.events = <<>> /\ u.saved = <<>>
      /\ u.authorized = authorized /\ u.shutdown = FALSE
  BY DEF NoWriter
<1>. HIDE DEF u
<1>. QED
  <2>1. Life(k, "Starting", f, u)
    BY <1>2 DEF Life
  <2>2. NewStatus.requested = 0 /\ NewStatus.saved = 0 /\ NewStatus.failed = 0
    BY DEF NewStatus
  <2>. QED  BY <1>1, <1>2, <2>1, <2>2, FreshConsistent DEF u

\* A writer starts, or not; a missing file may have got its default first.
LEMMA SpawnConsistent ==
  ASSUME PreferencesAssumption, NEW k \in Setting, NEW w, NEW s, NEW f, NEW a, NEW g,
         Consistent(k, "Starting", f, a, w, s), NEW started \in BOOLEAN,
         g = f \/ (f = "Missing" /\ g \in Snapshot(k))
  PROVE  Consistent(k, "Running", g, a,
           IF w.authorized /\ started
           THEN [w EXCEPT !.present = TRUE, !.thread = "Waiting"] ELSE w, s)
<1>. DEFINE u == IF w.authorized /\ started
                 THEN [w EXCEPT !.present = TRUE, !.thread = "Waiting"] ELSE w
<1>1. w \in Writers(k) /\ w.present = FALSE /\ w.shutdown = FALSE
  BY WriterFacts DEF Consistent, Life
<1>2. /\ u \in Writers(k)
      /\ u.present => u.authorized /\ u.thread = "Waiting"
      /\ ~u.present => u.thread = "Exited"
      /\ u.authorized = w.authorized /\ u.shutdown = FALSE
      /\ u.pending = NoRequest /\ u.next_generation = 0 /\ u.events = <<>> /\ u.saved = <<>>
      /\ u.thread \in {"Waiting", "Exited"}
  BY <1>1 DEF Consistent, Life, Writers
<1>. HIDE DEF u
<1>3. g # "Unreadable" \/ ~u.authorized
  BY <1>1, <1>2, SnapshotFacts DEF Consistent, Life
<1>4. s \in Statuses /\ s.requested = 0 /\ s.saved = 0 /\ s.failed = 0
  <2>1. s \in Statuses /\ s.saved < Due(w) /\ s.failed < Due(w) /\ s.requested = w.next_generation
    BY DEF Consistent, Ordered, Noted
  <2>2. Due(w) = 1 /\ w.next_generation = 0
    BY <1>1 DEF Consistent, Life, Due, Working
  <2>. QED  BY <2>1, <2>2, GenerationFacts DEF Statuses, Generations
<1>5. g \in Snapshot(k) \cup {"Missing", "Unreadable"} /\ a \in Snapshot(k)
  BY DEF Consistent
<1>6. Life(k, "Running", g, u)
  BY <1>2, <1>3, GenerationFacts DEF Life
<1>. QED  BY <1>2, <1>4, <1>5, <1>6, FreshConsistent DEF u

LEMMA ConsistentFacts ==
  ASSUME PreferencesAssumption, NEW k \in Setting, NEW ph, NEW f, NEW a, NEW w, NEW s,
         Consistent(k, ph, f, a, w, s)
  PROVE  /\ w \in Writers(k) /\ s \in Statuses
         /\ f \in Snapshot(k) \cup {"Missing", "Unreadable"} /\ a \in Snapshot(k)
         /\ w.present \in BOOLEAN /\ w.next_generation \in Int
         /\ s.saved \in Int /\ s.failed \in Int
         /\ \A i \in DOMAIN w.events :
              w.events[i].saved \in BOOLEAN /\ w.events[i].generation \in Int
         /\ w.pending # NoRequest => w.pending.snapshot \in Snapshot(k)
         /\ Working(w) => w.present /\ w.job.generation \in Int /\ w.job.snapshot \in Snapshot(k)
         /\ Due(w) \in Int /\ Due(w) > 0 /\ Due(w) <= w.next_generation + 1
<1>1. w \in Writers(k) /\ s \in Statuses
      /\ f \in Snapshot(k) \cup {"Missing", "Unreadable"} /\ a \in Snapshot(k)
  BY DEF Consistent
<1>2. s.saved \in Int /\ s.failed \in Int
  BY <1>1, GenerationFacts DEF Statuses
<1>3. /\ w.next_generation \in Int /\ w.next_generation >= 0
      /\ \A i \in DOMAIN w.events :
           w.events[i].saved \in BOOLEAN /\ w.events[i].generation \in Int
  BY <1>1, WriterFacts, GenerationFacts DEF Generations
<1>4. w.pending # NoRequest => w.pending.generation \in Int /\ w.pending.generation > 0
                               /\ w.pending.snapshot \in Snapshot(k)
  BY <1>1, WriterFacts, RequestFacts, GenerationFacts DEF Generations
<1>5. Working(w) => w.present /\ w.job.generation \in Int /\ w.job.generation > 0
                    /\ w.job.generation <= w.next_generation /\ w.job.snapshot \in Snapshot(k)
  <2>1. Working(w) => w.job # NoRequest /\ w.job.generation <= w.next_generation
    BY DEF Consistent, Queue
  <2>2. Working(w) => w.present
    BY <1>1, WriterFacts DEF Working, Consistent, Life
  <2>. QED  BY <1>1, <2>1, <2>2, WriterFacts, RequestFacts, GenerationFacts DEF Generations
<1>6. Due(w) \in Int /\ Due(w) > 0 /\ Due(w) <= w.next_generation + 1
  BY <1>3, <1>4, <1>5 DEF Due, Consistent, Queue
<1>. QED  BY <1>1, <1>2, <1>3, <1>4, <1>5, <1>6, WriterFacts

\* The thread takes the waiting request.
LEMMA TakeConsistent ==
  ASSUME PreferencesAssumption, NEW k \in Setting, NEW ph, NEW f, NEW a, NEW w, NEW s,
         Consistent(k, ph, f, a, w, s), w.thread = "Waiting", w.pending # NoRequest
  PROVE  Consistent(k, ph, f, a, [w EXCEPT !.thread = "Saving", !.job = w.pending,
                                           !.pending = NoRequest], s)
<1>. DEFINE u == [w EXCEPT !.thread = "Saving", !.job = w.pending, !.pending = NoRequest]
<1>1. w \in Writers(k) /\ w.pending \in Requests(k)
  BY ConsistentFacts, WriterFacts
<1>2. /\ u \in Writers(k)
      /\ u.thread = "Saving" /\ u.job = w.pending /\ u.pending = NoRequest
      /\ u.present = w.present /\ u.authorized = w.authorized /\ u.shutdown = w.shutdown
      /\ u.next_generation = w.next_generation /\ u.events = w.events /\ u.saved = w.saved
  BY <1>1 DEF Writers, Requests
<1>. HIDE DEF u
<1>3. w.present /\ Life(k, ph, f, w)
  BY <1>1, WriterFacts DEF Consistent, Life
<1>4. Life(k, ph, f, u)
  BY <1>2, <1>3 DEF Life
<1>5. Working(u) /\ ~Working(w)
  BY <1>2 DEF Working
<1>6. w.pending.generation = w.next_generation /\ w.pending.snapshot = a
  BY DEF Consistent, Queue
<1>7. Queue(a, f, u)
  BY <1>2, <1>6, ConsistentFacts DEF Queue
<1>8. Due(u) = Due(w) /\ Due(u) = w.next_generation
  BY <1>2, <1>5, <1>6 DEF Due
<1>9. Ordered(u, s)
  BY <1>2, <1>8 DEF Consistent, Ordered
<1>10. Outcome(a, f, u, s) /\ Noted(k, ph, u, s)
  BY <1>2, <1>8, ConsistentFacts DEF Consistent, Outcome, Noted, SavedLatest, FailedLatest
<1>. QED  BY <1>2, <1>4, <1>7, <1>9, <1>10, ConsistentFacts DEF Consistent, u

\* The settings file is replaced by what the job carries.
LEMMA ReplaceConsistent ==
  ASSUME PreferencesAssumption, NEW k \in Setting, NEW ph, NEW f, NEW a, NEW w, NEW s,
         Consistent(k, ph, f, a, w, s), w.thread = "Saving"
  PROVE  Consistent(k, ph, w.job.snapshot, a, [w EXCEPT !.thread = "Replaced"], s)
<1>. DEFINE u == [w EXCEPT !.thread = "Replaced"]
<1>1. w \in Writers(k) /\ w.job \in Requests(k)
  BY ConsistentFacts, WriterFacts
<1>2. /\ u \in Writers(k)
      /\ u.thread = "Replaced" /\ u.job = w.job /\ u.pending = w.pending
      /\ u.present = w.present /\ u.authorized = w.authorized /\ u.shutdown = w.shutdown
      /\ u.next_generation = w.next_generation /\ u.events = w.events /\ u.saved = w.saved
  BY <1>1 DEF Writers
<1>. HIDE DEF u
<1>3. Working(u) /\ Working(w)
  BY <1>2 DEF Working
<1>4. w.job.snapshot \in Snapshot(k)
  BY <1>3, ConsistentFacts
<1>5. Life(k, ph, w.job.snapshot, u)
  BY <1>2, <1>4, SnapshotFacts, ConsistentFacts, <1>3 DEF Consistent, Life
<1>6. Queue(a, w.job.snapshot, u)
  BY <1>2, <1>3 DEF Consistent, Queue
<1>7. Due(u) = Due(w) /\ Due(u) <= w.next_generation
  BY <1>2, <1>3 DEF Due, Consistent, Queue
<1>8. Ordered(u, s)
  BY <1>2, <1>7 DEF Consistent, Ordered
<1>9. Outcome(a, w.job.snapshot, u, s)
  BY <1>2, <1>7, <1>8, ConsistentFacts DEF Outcome, Ordered, SavedLatest
<1>10. Noted(k, ph, u, s)
  BY <1>2 DEF Consistent, Noted
<1>. QED  BY <1>2, <1>4, <1>5, <1>6, <1>8, <1>9, <1>10, ConsistentFacts DEF Consistent, u

LEMMA AppendFacts ==
  ASSUME NEW S, NEW q \in Seq(S), NEW x \in S
  PROVE  /\ Append(q, x) \in Seq(S)
         /\ DOMAIN Append(q, x) = 1..(Len(q) + 1) /\ DOMAIN q = 1..Len(q) /\ Len(q) \in Nat
         /\ \A i \in 1..Len(q) : Append(q, x)[i] = q[i]
         /\ Append(q, x)[Len(q) + 1] = x
         /\ Append(q, x) # <<>> /\ Len(Append(q, x)) = Len(q) + 1
OBVIOUS

\* The job is done, saved or failed, and the news of it is on its way.
LEMMA DoneConsistent ==
  ASSUME PreferencesAssumption, NEW k \in Setting, NEW ph, NEW f, NEW a, NEW w, NEW s,
         Consistent(k, ph, f, a, w, s), Working(w),
         NEW ok \in BOOLEAN, ok => w.thread = "Replaced",
         NEW u \in Writers(k), k # "Language" => u.saved = <<>>,
         u.thread = "Waiting", u.job = NoRequest, u.pending = w.pending,
         u.present = w.present, u.authorized = w.authorized, u.shutdown = w.shutdown,
         u.next_generation = w.next_generation,
         u.events = Append(w.events, [saved |-> ok, generation |-> w.job.generation])
  PROVE  Consistent(k, ph, f, a, u, s)
<1>. DEFINE e == [saved |-> ok, generation |-> w.job.generation]
            n == Len(w.events)
<1>1. w.job # NoRequest /\ w.job \in Requests(k) /\ w.events \in Seq(Event) /\ w.present
  BY ConsistentFacts, WriterFacts DEF Consistent, Queue
<1>2. w.job.generation \in Generations \ {0}
  BY <1>1, RequestFacts
<1>3. e \in Event
  BY <1>2 DEF Event
<1>4. /\ DOMAIN u.events = 1..(n + 1) /\ DOMAIN w.events = 1..n /\ n \in Nat
      /\ \A i \in 1..n : u.events[i] = w.events[i]
      /\ u.events[n + 1].saved = ok /\ u.events[n + 1].generation = w.job.generation
  <2>1. u.events = Append(w.events, e)
    OBVIOUS
  <2>2. e.saved = ok /\ e.generation = w.job.generation
    OBVIOUS
  <2>. HIDE DEF e
  <2>. QED  BY <1>1, <1>3, <2>1, <2>2, AppendFacts
<1>. HIDE DEF e, n
<1>5. ~Working(u) /\ Due(w) = w.job.generation
  BY DEF Working, Due
<1>6. /\ w.job.generation \in Int /\ w.job.generation <= w.next_generation
      /\ w.next_generation \in Int
      /\ w.pending # NoRequest => w.job.generation < w.next_generation
  BY ConsistentFacts DEF Consistent, Queue
<1>7. Due(u) \in Int /\ Due(w) < Due(u)
  BY <1>5, <1>6 DEF Due
<1>8. Life(k, ph, f, u)
  BY <1>1 DEF Consistent, Life
<1>9. Queue(a, f, u)
  BY <1>5 DEF Consistent, Queue
<1>10. Ordered(u, s)
  <2>1. s.saved < Due(w) /\ s.failed < Due(w)
    BY DEF Consistent, Ordered
  <2>2. \A i \in 1..n : /\ s.saved < w.events[i].generation /\ s.failed < w.events[i].generation
                        /\ w.events[i].generation < Due(w)
    BY <1>4 DEF Consistent, Ordered
  <2>3. \A i, j \in 1..n : i < j => w.events[i].generation < w.events[j].generation
    BY <1>4 DEF Consistent, Ordered
  <2>4. \A i \in 1..n : w.events[i].generation \in Int
    BY <1>4, ConsistentFacts
  <2>5. s.saved < Due(u) /\ s.failed < Due(u)
    BY <1>7, <2>1, ConsistentFacts
  <2>6. ASSUME NEW i \in 1..(n + 1)
        PROVE  /\ s.saved < u.events[i].generation /\ s.failed < u.events[i].generation
               /\ u.events[i].generation < Due(u)
    <3>1. CASE i \in 1..n
      BY <1>4, <1>7, <2>2, <2>4, <3>1, ConsistentFacts
    <3>2. CASE i = n + 1
      BY <1>4, <1>5, <1>7, <2>1, <3>2, ConsistentFacts
    <3>. QED  BY <1>4, <3>1, <3>2
  <2>7. ASSUME NEW i \in 1..(n + 1), NEW j \in 1..(n + 1), i < j
        PROVE  u.events[i].generation < u.events[j].generation
    <3>1. CASE j \in 1..n
      BY <1>4, <2>3, <2>7, <3>1
    <3>2. CASE j = n + 1
      BY <1>4, <1>5, <2>2, <2>7, <3>2
    <3>. QED  BY <1>4, <3>1, <3>2
  <2>. QED  BY <1>4, <2>5, <2>6, <2>7 DEF Ordered
<1>11. Outcome(a, f, u, s)
  <2>. SUFFICES ASSUME u.next_generation > 0
                PROVE  /\ SavedLatest(u, s) => f = a
                       /\ Due(u) > u.next_generation => f = a \/ FailedLatest(u, s)
    BY DEF Outcome
  <2>1. s.saved < w.next_generation
        /\ \A i \in 1..n : w.events[i].generation < w.next_generation
    <3>1. s.saved < Due(w) /\ \A i \in 1..n : w.events[i].generation < Due(w)
      BY <1>4 DEF Consistent, Ordered
    <3>2. s.saved \in Int /\ \A i \in 1..n : w.events[i].generation \in Int
      BY <1>4, ConsistentFacts
    <3>. QED  BY <1>5, <1>6, <3>1, <3>2
  <2>2. ASSUME w.job.generation = w.next_generation, ok PROVE f = a
    BY <2>2 DEF Consistent, Queue, Working
  <2>3. SavedLatest(u, s) => w.job.generation = w.next_generation /\ ok
    BY <1>4, <2>1, ConsistentFacts DEF SavedLatest
  <2>4. Due(u) > u.next_generation => w.pending = NoRequest
    BY <1>5, <1>6 DEF Due
  <2>5. CASE w.job.generation = w.next_generation /\ ~ok
    <3>1. n + 1 \in DOMAIN u.events
      BY <1>4
    <3>2. FailedLatest(u, s)
      BY <1>4, <2>5, <3>1 DEF FailedLatest
    <3>. QED  BY <2>3, <2>5, <3>2
  <2>6. w.pending = NoRequest => w.job.generation = w.next_generation
    BY DEF Consistent, Queue
  <2>. QED  BY <2>2, <2>3, <2>4, <2>5, <2>6
<1>12. Noted(k, ph, u, s)
  BY DEF Consistent, Noted
<1>. QED  BY <1>8, <1>9, <1>10, <1>11, <1>12, ConsistentFacts DEF Consistent

\* The thread sends its last message, then it is over.
LEMMA StopConsistent ==
  ASSUME PreferencesAssumption, NEW k \in Setting, NEW ph, NEW f, NEW a, NEW w, NEW s,
         Consistent(k, ph, f, a, w, s), w.thread \in {"Waiting", "Ended"},
         w.thread = "Waiting" => w.shutdown /\ w.pending = NoRequest,
         NEW to \in {"Ended", "Exited"}
  PROVE  Consistent(k, ph, f, a, [w EXCEPT !.thread = to], s)
<1>. DEFINE u == [w EXCEPT !.thread = to]
<1>1. w \in Writers(k) /\ w.present
  BY ConsistentFacts DEF Consistent, Life
<1>2. /\ u \in Writers(k)
      /\ u.thread = to /\ u.job = w.job /\ u.pending = w.pending
      /\ u.present = w.present /\ u.authorized = w.authorized /\ u.shutdown = w.shutdown
      /\ u.next_generation = w.next_generation /\ u.events = w.events /\ u.saved = w.saved
  BY <1>1 DEF Writers
<1>. HIDE DEF u
<1>3. ~Working(u) /\ ~Working(w) /\ Due(u) = Due(w)
  BY <1>2 DEF Working, Due
<1>4. Life(k, ph, f, u)
  BY <1>1, <1>2 DEF Consistent, Life
<1>5. Queue(a, f, u) /\ Ordered(u, s)
  BY <1>2, <1>3 DEF Consistent, Queue, Ordered
<1>6. Outcome(a, f, u, s) /\ Noted(k, ph, u, s)
  BY <1>2, <1>3 DEF Consistent, Outcome, Noted, SavedLatest, FailedLatest
<1>. QED  BY <1>2, <1>4, <1>5, <1>6, ConsistentFacts DEF Consistent, u

\* A newer request replaces the waiting one.
LEMMA SubmitConsistent ==
  ASSUME PreferencesAssumption, NEW k \in Setting, NEW ph, NEW f, NEW a, NEW w, NEW s,
         Consistent(k, ph, f, a, w, s), w.present, w.thread \notin {"Ended", "Exited"},
         NEW v \in Snapshot(k), NEW u \in Writers(k), NEW t \in Statuses, NEW qh,
         u.next_generation = w.next_generation + 1,
         u.pending = [generation |-> w.next_generation + 1, snapshot |-> v],
         u.job = w.job, u.thread = w.thread, u.events = w.events,
         t.saved = s.saved, t.failed = s.failed,
         Life(k, qh, f, u), Noted(k, qh, u, t)
  PROVE  Consistent(k, qh, f, v, u, t)
<1>1. u.pending # NoRequest /\ u.pending.generation = u.next_generation /\ u.pending.snapshot = v
  BY ConsistentFacts DEF NoRequest
<1>2. Working(u) <=> Working(w)
  BY DEF Working
<1>3. Working(w) => w.job.generation \in Int /\ w.job.generation <= w.next_generation
  BY ConsistentFacts DEF Consistent, Queue
<1>4. Queue(v, f, u)
  BY <1>1, <1>2, <1>3, ConsistentFacts DEF Consistent, Queue
<1>5. Due(u) \in Int /\ Due(w) <= Due(u) /\ Due(u) <= u.next_generation
  BY <1>1, <1>2, <1>3, ConsistentFacts DEF Due
<1>6. Ordered(u, t)
  <2>1. t.saved < Due(u) /\ t.failed < Due(u)
    BY <1>5, ConsistentFacts DEF Consistent, Ordered
  <2>2. ASSUME NEW i \in DOMAIN u.events
        PROVE  /\ t.saved < u.events[i].generation /\ t.failed < u.events[i].generation
               /\ u.events[i].generation < Due(u)
    BY <1>5, ConsistentFacts DEF Consistent, Ordered
  <2>3. \A i, j \in DOMAIN u.events : i < j => u.events[i].generation < u.events[j].generation
    BY DEF Consistent, Ordered
  <2>. QED  BY <2>1, <2>2, <2>3 DEF Ordered
<1>7. Outcome(v, f, u, t)
  <2>1. u.next_generation \in Int
    BY ConsistentFacts
  <2>2. t.saved \in Int /\ \A i \in DOMAIN u.events : u.events[i].generation \in Int
    BY ConsistentFacts
  <2>3. t.saved < Due(u) /\ \A i \in DOMAIN u.events : u.events[i].generation < Due(u)
    BY <1>6 DEF Ordered
  <2>. QED  BY <1>5, <2>1, <2>2, <2>3 DEF Outcome, SavedLatest
<1>. QED  BY <1>4, <1>6, <1>7, ConsistentFacts DEF Consistent

\* Only the bookkeeping around the requests changes.
LEMMA NoteConsistent ==
  ASSUME PreferencesAssumption, NEW k \in Setting, NEW ph, NEW f, NEW a, NEW w, NEW s,
         Consistent(k, ph, f, a, w, s), NEW u \in Writers(k), NEW t \in Statuses, NEW qh,
         u.next_generation = w.next_generation, u.pending = w.pending, u.job = w.job,
         u.thread = w.thread, u.events = w.events,
         t.saved = s.saved, t.failed = s.failed,
         Life(k, qh, f, u), Noted(k, qh, u, t)
  PROVE  Consistent(k, qh, f, a, u, t)
<1>1. (Working(u) <=> Working(w)) /\ Due(u) = Due(w)
  BY DEF Working, Due
<1>2. Queue(a, f, u) /\ Ordered(u, t)
  BY <1>1 DEF Consistent, Queue, Ordered
<1>3. Outcome(a, f, u, t)
  BY <1>1 DEF Consistent, Outcome, SavedLatest, FailedLatest
<1>. QED  BY <1>2, <1>3, ConsistentFacts DEF Consistent

-----------------------------------------------------------------------------
\* What WriterStatus::observe makes of the news: the newest save, and the
\* newest failure unless a save followed it.
LEMMA ObservedFacts ==
  ASSUME PreferencesAssumption, NEW k \in Setting, NEW ph, NEW f, NEW a,
         Consistent(k, ph, f, a, writer[k], status[k]), NEW ended \in BOOLEAN
  PROVE  LET w == writer[k]  s == status[k]  o == Observed(k, ended)
         IN  /\ o \in Statuses /\ o.requested = s.requested
             /\ o.saved < Due(w) /\ o.failed < Due(w)
             /\ o.saved = w.next_generation => SavedLatest(w, s)
             /\ w.next_generation > 0 /\ FailedLatest(w, s) => o.failed = w.next_generation
<1>. DEFINE w == writer[k]
            s == status[k]
            o == Observed(k, ended)
            events == w.events
            known == Saves(events) \cup {s.saved}
            failing == Fails(events)
            last == CHOOSE i \in failing : \A j \in failing : j <= i
            open == IF failing = {} THEN s.failed ELSE events[last].generation
<1>1. w \in Writers(k) /\ s \in Statuses
  BY ConsistentFacts
<1>2. /\ events \in Seq(Event) /\ DOMAIN events = 1..Len(events) /\ Len(events) \in Nat
      /\ \A i \in DOMAIN events :
           events[i].saved \in BOOLEAN /\ events[i].generation \in Generations
  BY <1>1, WriterFacts
<1>3. /\ \A g \in known : g = s.saved \/ \E i \in DOMAIN events :
                            events[i].saved /\ g = events[i].generation
      /\ s.saved \in known
      /\ \A i \in DOMAIN events : events[i].saved => events[i].generation \in known
  BY DEF Saves
<1>4. failing = {i \in DOMAIN events : ~events[i].saved}
  BY DEF Fails
<1>5. s.saved \in Generations /\ s.failed \in Generations /\ s.requested \in Generations
      /\ s.submission_failed \in BOOLEAN /\ s.terminal \in BOOLEAN
  BY <1>1 DEF Statuses
<1>6. MaxGeneration + 1 \in Nat
  BY GenerationFacts
<1>7. \E g \in known : \A other \in known : other <= g
  <2>1. known \subseteq 0..(MaxGeneration + 1) /\ known # {}
    BY <1>2, <1>3, <1>5 DEF Generations
  <2>. HIDE DEF known
  <2>. QED  BY <1>6, <2>1, HasLargest
<1>8. failing # {} => \E i \in failing : \A j \in failing : j <= i
  <2>1. failing \subseteq 0..Len(events) /\ Len(events) \in Nat
    BY <1>2, <1>4
  <2>. HIDE DEF failing
  <2>. QED  BY <2>1, HasLargest
<1>9. failing # {} => last \in failing /\ \A j \in failing : j <= last
  BY <1>8
<1>10. /\ o.requested = s.requested
       /\ o.saved = CHOOSE g \in known : \A other \in known : other <= g
       /\ o.failed = StillFailed(s, events)
       /\ o = [s EXCEPT !.saved = o.saved, !.failed = o.failed, !.terminal = s.terminal \/ ended]
  BY <1>1 DEF Observed, Statuses
<1>11. StillFailed(s, events) = IF \E g \in Saves(events) : g >= open THEN 0 ELSE open
  BY DEF StillFailed
<1>12. o.saved \in known /\ \A other \in known : other <= o.saved
  BY <1>7, <1>10
<1>. HIDE DEF o, known, failing, last
<1>13. /\ s.saved < Due(w) /\ s.failed < Due(w)
       /\ \A i \in DOMAIN events : /\ s.failed < events[i].generation
                                   /\ events[i].generation < Due(w)
       /\ \A i, j \in DOMAIN events : i < j => events[i].generation < events[j].generation
  BY DEF Consistent, Ordered
<1>14. Due(w) \in Int /\ Due(w) > 0 /\ Due(w) <= w.next_generation + 1 /\ w.next_generation \in Int
  BY ConsistentFacts
<1>15. open \in Generations /\ open < Due(w)
  BY <1>2, <1>4, <1>5, <1>9, <1>13
<1>16. o.failed \in {0, open} /\ o.failed \in Generations /\ o.failed < Due(w)
  BY <1>10, <1>11, <1>14, <1>15, GenerationFacts
<1>17. o.saved \in Generations /\ o.saved < Due(w)
  BY <1>2, <1>3, <1>5, <1>12, <1>13
<1>18. o \in Statuses
  <2>1. \A x, y \in Generations, b \in BOOLEAN :
          [s EXCEPT !.saved = x, !.failed = y, !.terminal = b] \in Statuses
    BY <1>1 DEF Statuses
  <2>2. (s.terminal \/ ended) \in BOOLEAN
    BY <1>5
  <2>. QED  BY <1>10, <1>16, <1>17, <2>1, <2>2, Zenon
<1>19. o.saved = w.next_generation => SavedLatest(w, s)
  BY <1>3, <1>12 DEF SavedLatest
<1>20. ASSUME w.next_generation > 0, FailedLatest(w, s) PROVE o.failed = w.next_generation
  <2>1. CASE s.failed = w.next_generation
    <3>1. DOMAIN events = {}
      <4>1. SUFFICES ASSUME NEW i \in DOMAIN events PROVE FALSE
        OBVIOUS
      <4>2. events[i].generation \in Int /\ s.failed < events[i].generation
            /\ events[i].generation < Due(w)
        BY <1>2, <1>13, GenerationFacts
      <4>. QED  BY <1>14, <2>1, <4>2
    <3>2. failing = {} /\ Saves(events) = {}
      BY <1>4, <3>1 DEF Saves
    <3>. QED  BY <1>10, <1>11, <2>1, <3>2
  <2>2. CASE \E i \in DOMAIN events : ~events[i].saved /\ events[i].generation = w.next_generation
    <3>1. PICK i \in DOMAIN events : ~events[i].saved /\ events[i].generation = w.next_generation
      BY <2>2
    <3>2. \A j \in DOMAIN events : j # i => events[j].generation < w.next_generation
      <4>1. SUFFICES ASSUME NEW j \in DOMAIN events, j # i
                     PROVE  events[j].generation < w.next_generation
        OBVIOUS
      <4>2. events[j].generation \in Int /\ events[j].generation < Due(w)
        BY <1>2, <1>13, GenerationFacts
      <4>3. j < i \/ i < j
        BY <1>2, <4>1
      <4>. QED  BY <1>13, <1>14, <3>1, <4>2, <4>3
    <3>3. last = i
      <4>1. i \in failing
        BY <1>4, <3>1
      <4>2. last \in failing /\ i <= last /\ last \in DOMAIN events
        BY <1>4, <1>9, <4>1
      <4>3. CASE last # i
        <5>1. i < last
          BY <1>2, <4>2, <4>3
        <5>2. events[i].generation < events[last].generation
          BY <1>13, <4>2, <5>1
        <5>3. events[last].generation < w.next_generation
          BY <3>2, <4>2, <4>3
        <5>4. events[last].generation \in Int
          BY <1>2, <4>2, GenerationFacts
        <5>. QED  BY <1>14, <3>1, <5>2, <5>3, <5>4
      <4>. QED  BY <4>3
    <3>4. open = w.next_generation
      BY <1>4, <3>1, <3>3
    <3>5. ~ \E g \in Saves(events) : g >= open
      <4>1. SUFFICES ASSUME NEW g \in Saves(events), g >= open PROVE FALSE
        OBVIOUS
      <4>2. PICK j \in DOMAIN events : events[j].saved /\ g = events[j].generation
        BY DEF Saves
      <4>3. j # i
        BY <3>1, <4>2
      <4>4. events[j].generation \in Int
        BY <1>2, GenerationFacts
      <4>. QED  BY <1>14, <3>2, <3>4, <4>1, <4>2, <4>3, <4>4
    <3>. QED  BY <1>10, <1>11, <3>4, <3>5
  <2>. QED  BY <1>20, <2>1, <2>2 DEF FailedLatest
<1>. QED  BY <1>10, <1>16, <1>17, <1>18, <1>19, <1>20 DEF o

\* The window has read the news of a writer.
LEMMA DrainConsistent ==
  ASSUME PreferencesAssumption, NEW k \in Setting, NEW ph, NEW f, NEW a,
         Consistent(k, ph, f, a, writer[k], status[k]), NEW ended \in BOOLEAN
  PROVE  Consistent(k, ph, f, a, Read(k), Observed(k, ended))
<1>. DEFINE w == writer[k]
            s == status[k]
            u == Read(k)
            o == Observed(k, ended)
<1>1. w \in Writers(k) /\ s \in Statuses
  BY ConsistentFacts
<1>2. /\ u \in Writers(k)
      /\ u.thread = w.thread /\ u.job = w.job /\ u.pending = w.pending
      /\ u.present = w.present /\ u.authorized = w.authorized /\ u.shutdown = w.shutdown
      /\ u.next_generation = w.next_generation /\ u.events = <<>> /\ u.saved = <<>>
  <2>1. <<>> \in Seq(Event) /\ <<>> \in Seq(Language)
    OBVIOUS
  <2>. QED  BY <1>1, <2>1 DEF Writers, Read
<1>3. /\ o \in Statuses /\ o.requested = s.requested
      /\ o.saved < Due(w) /\ o.failed < Due(w)
      /\ o.saved = w.next_generation => SavedLatest(w, s)
      /\ w.next_generation > 0 /\ FailedLatest(w, s) => o.failed = w.next_generation
  BY ObservedFacts
<1>. HIDE DEF u, o
<1>4. (Working(u) <=> Working(w)) /\ Due(u) = Due(w)
  BY <1>2 DEF Working, Due
<1>5. Life(k, ph, f, u) /\ Queue(a, f, u) /\ Noted(k, ph, u, o)
  BY <1>2, <1>3, <1>4 DEF Consistent, Life, Queue, Noted
<1>6. Ordered(u, o)
  BY <1>2, <1>3, <1>4 DEF Ordered
<1>7. Outcome(a, f, u, o)
  BY <1>2, <1>3, <1>4 DEF Consistent, Outcome, SavedLatest, FailedLatest
<1>. QED  BY <1>2, <1>3, <1>5, <1>6, <1>7, ConsistentFacts DEF Consistent, u, o

-----------------------------------------------------------------------------
\* The values of one setting stay as they were.
LEMMA SettingKept ==
  ASSUME PreferencesInv, NEW k \in Setting, phase' = phase, file'[k] = file[k],
         asked'[k] = asked[k], writer'[k] = writer[k], status'[k] = status[k]
  PROVE  Consistent(k, phase', file'[k], asked'[k], writer'[k], status'[k])
<1>1. Consistent(k, phase, file[k], asked[k], writer[k], status[k])
  BY DEF PreferencesInv
<1>. QED  BY <1>1

LEMMA LanguageIsSetting == "Language" \in Setting
BY DEF Setting

LEMMA PreferencesInvInit == ASSUME PreferencesAssumption, Init PROVE PreferencesInv
<1>1. VariablesTyped
  <2>1. legacy \in BOOLEAN
    BY Zenon DEF Init
  <2>2. \A k \in Setting : Defaults[k] \in Snapshot(k)
    BY SnapshotFacts
  <2>3. DOMAIN Defaults = Setting
    BY DEF Defaults
  <2>4. temp \in [Setting -> {"None", "Partial", "Complete"}]
    BY DEF Init
  <2>5. chosen \in BOOLEAN
    BY DEF Init
  <2>7. faults \in 0..MaxFaults
    BY GenerationFacts DEF Init
  <2>6. DOMAIN file = Setting /\ DOMAIN writer = Setting /\ DOMAIN status = Setting
    BY DEF Init
  <2>. QED  BY <2>1, <2>2, <2>3, <2>4, <2>5, <2>6, <2>7 DEF Init, VariablesTyped
<1>2. ASSUME NEW k \in Setting
      PROVE  Consistent(k, phase, file[k], asked[k], writer[k], status[k])
  <2>1. file[k] \in Snapshot(k) \cup {"Missing", "Unreadable"}
    BY DEF Init, Snapshot
  <2>2. phase = "Off" /\ asked[k] = Defaults[k] /\ writer[k] = NoWriter /\ status[k] = NewStatus
    BY DEF Init
  <2>. QED  BY <2>1, <2>2, OffConsistent
<1>3. LanguageNews(phase, file["Language"], shown["Language"], writer["Language"])
  BY DEF Init, LanguageNews
<1>. QED  BY <1>1, <1>2, <1>3 DEF PreferencesInv

LEMMA LoadKeeps == ASSUME PreferencesAssumption, PreferencesInv, Load PROVE PreferencesInv'
<1>1. ASSUME NEW k \in Setting
      PROVE  /\ file[k] \in Snapshot(k) \cup {"Missing", "Unreadable"}
             /\ shown'[k] \in Snapshot(k) /\ asked'[k] = shown'[k]
             /\ writer'[k] = [NoWriter EXCEPT !.authorized = Authorized(k)]
             /\ status'[k] = NewStatus /\ file'[k] = file[k]
  <2>1. file[k] \in Snapshot(k) \cup {"Missing", "Unreadable"}
    BY DEF PreferencesInv, Consistent
  <2>2. /\ asked'[k] = shown'[k] /\ status'[k] = NewStatus /\ file'[k] = file[k]
        /\ writer'[k] = [NoWriter EXCEPT !.authorized = Authorized(k)]
        /\ shown'[k] = IF k = "Language" THEN LoadLanguage ELSE IF Readable(k) THEN file[k] ELSE Default
    BY DEF Load
  <2>3. CASE k = "Language"
    <3>1. file["Language"] \in Language \cup {"Missing", "Unreadable"}
      BY <2>1, <2>3 DEF Snapshot
    <3>2. LoadLanguage \in Language
      <4>1. CASE Readable("Language")
        BY <3>1, <4>1 DEF LoadLanguage, Readable, Language
      <4>2. CASE file["Language"] = "Missing"
        BY <4>2 DEF LoadLanguage, Readable, Language
      <4>3. CASE file["Language"] = "Unreadable"
        BY <4>3 DEF LoadLanguage, Readable, Language
      <4>. QED  BY <4>1, <4>2, <4>3 DEF Readable
    <3>. QED  BY <2>1, <2>2, <2>3, <3>2 DEF Snapshot
  <2>4. CASE k # "Language"
    BY <2>1, <2>2, <2>4 DEF Snapshot, Readable, PreferencesAssumption
  <2>. QED  BY <2>1, <2>2, <2>3, <2>4
<1>2. VariablesTyped'
  BY <1>1 DEF Load, PreferencesInv, VariablesTyped
<1>3. ASSUME NEW k \in Setting
      PROVE  Consistent(k, phase', file'[k], asked'[k], writer'[k], status'[k])
  <2>1. Authorized(k) \in BOOLEAN /\ (Authorized(k) <=> file[k] # "Unreadable")
    BY DEF Authorized
  <2>2. phase' = "Starting"
    BY DEF Load
  <2>3. file[k] \in Snapshot(k) \cup {"Missing", "Unreadable"} /\ shown'[k] \in Snapshot(k)
    BY <1>1
  <2>4. Consistent(k, "Starting", file[k], shown'[k],
                   [NoWriter EXCEPT !.authorized = Authorized(k)], NewStatus)
    BY <2>1, <2>3, LoadConsistent
  <2>. QED  BY <1>1, <2>2, <2>4
<1>4. LanguageNews(phase', file'["Language"], shown'["Language"], writer'["Language"])
  <2>1. writer'["Language"].saved = <<>>
    BY <1>1, LanguageIsSetting DEF NoWriter
  <2>2. Readable("Language") => shown'["Language"] = file["Language"]
    <3>1. Readable("Language") => LoadLanguage = file["Language"]
      BY DEF LoadLanguage, Readable
    <3>. QED  BY <3>1, LanguageIsSetting DEF Load
  <2>. QED  BY <2>1, <2>2 DEF Load, LanguageNews, Readable
<1>. QED  BY <1>2, <1>3, <1>4 DEF PreferencesInv

LEMMA StartWritersKeeps ==
  ASSUME PreferencesAssumption, PreferencesInv, StartWriters
  PROVE  PreferencesInv'
<1>1. PICK started \in [Setting -> BOOLEAN] :
        /\ \A k \in Setting : writer'[k] = Spawned(k, started[k])
        /\ DOMAIN writer' = Setting
  <2>1. CASE writer' = [k \in Setting |-> Spawned(k, TRUE)]
    <3>1. [k \in Setting |-> TRUE] \in [Setting -> BOOLEAN]
      OBVIOUS
    <3>. QED  BY <2>1, <3>1
  <2>2. ASSUME NEW dead \in Setting, writer' = [k \in Setting |-> Spawned(k, k # dead)]
        PROVE  \E started \in [Setting -> BOOLEAN] :
                 /\ \A k \in Setting : writer'[k] = Spawned(k, started[k])
                 /\ DOMAIN writer' = Setting
    <3>1. [k \in Setting |-> k # dead] \in [Setting -> BOOLEAN]
      OBVIOUS
    <3>. QED  BY <2>2, <3>1
  <2>. QED  BY <2>1, <2>2 DEF StartWriters
<1>2. \/ file' = file
      \/ file["Language"] = "Missing" /\ file' = [file EXCEPT !["Language"] = shown["Language"]]
  BY DEF StartWriters, CommitsDefault
<1>3. phase = "Starting" /\ phase' = "Running" /\ UNCHANGED <<temp, shown, asked, status>>
  BY DEF StartWriters
<1>4. faults' \in 0..MaxFaults
  <2>1. faults' = faults \/ (faults < MaxFaults /\ faults' = faults + 1)
    BY DEF StartWriters, Fault
  <2>2. faults \in 0..MaxFaults
    BY DEF PreferencesInv, VariablesTyped
  <2>. QED  BY <2>1, <2>2, GenerationFacts
<1>5. VariablesTyped'
  BY <1>1, <1>2, <1>3, <1>4 DEF StartWriters, PreferencesInv, VariablesTyped
<1>6. ASSUME NEW k \in Setting
      PROVE  Consistent(k, phase', file'[k], asked'[k], writer'[k], status'[k])
  <2>1. Consistent(k, "Starting", file[k], asked[k], writer[k], status[k])
    BY <1>3 DEF PreferencesInv
  <2>2. file'[k] = file[k] \/ (file[k] = "Missing" /\ file'[k] \in Snapshot(k))
    BY <1>2 DEF PreferencesInv, VariablesTyped
  <2>3. started[k] \in BOOLEAN /\ writer'[k] = Spawned(k, started[k])
    BY <1>1
  <2>4. Consistent(k, "Running", file'[k], asked[k], Spawned(k, started[k]), status[k])
    BY <2>1, <2>2, <2>3, SpawnConsistent DEF Spawned
  <2>. QED  BY <1>3, <2>3, <2>4
<1>7. LanguageNews(phase', file'["Language"], shown'["Language"], writer'["Language"])
  <2>1. writer["Language"].saved = <<>> /\ writer["Language"].thread = "Exited"
        /\ writer["Language"] \in Writers("Language")
    BY <1>3, LanguageIsSetting DEF PreferencesInv, Consistent, Life
  <2>2. writer'["Language"].saved = <<>>
    BY <1>1, <2>1, LanguageIsSetting DEF Spawned, Writers
  <2>3. file["Language"] \in {"Missing", "Unreadable"} \/ shown["Language"] = file["Language"]
    BY <1>3, <2>1 DEF PreferencesInv, LanguageNews
  <2>4. file'["Language"] = file["Language"] \/ file'["Language"] = shown["Language"]
    BY <1>2, LanguageIsSetting DEF PreferencesInv, VariablesTyped
  <2>. QED  BY <1>3, <2>2, <2>3, <2>4 DEF LanguageNews
<1>. QED  BY <1>5, <1>6, <1>7 DEF PreferencesInv

\* A change is queued, or noted as not queued.
LEMMA ChangeKeeps ==
  ASSUME PreferencesAssumption, PreferencesInv, NEW k \in Setting, NEW v \in Snapshot(k),
         Change(k, v)
  PROVE  PreferencesInv'
<1>. DEFINE w == writer[k]
            s == status[k]
<1>1. Consistent(k, phase, file[k], asked[k], w, s)
  BY DEF PreferencesInv
<1>2. /\ w \in Writers(k) /\ s \in Statuses /\ w.next_generation \in Int
      /\ w.next_generation < MaxGeneration
  BY <1>1, ConsistentFacts DEF Change
<1>3. w.next_generation + 1 \in Generations /\ w.next_generation + 1 # 0
  BY <1>2, WriterFacts, GenerationFacts DEF Generations
<1>4. VariablesTyped'
  <2>1. DOMAIN writer' = Setting /\ DOMAIN status' = Setting /\ DOMAIN asked' = Setting
    BY DEF Change, PreferencesInv, VariablesTyped
  <2>2. DOMAIN shown' = Setting /\ \A i \in Setting : shown'[i] \in Snapshot(i)
    BY DEF Change, PreferencesInv, VariablesTyped
  <2>3. chosen' \in BOOLEAN
    BY DEF Change, PreferencesInv, VariablesTyped
  <2>. QED  BY <2>1, <2>2, <2>3 DEF Change, PreferencesInv, VariablesTyped
<1>5. ASSUME NEW i \in Setting, i # k
      PROVE  Consistent(i, phase', file'[i], asked'[i], writer'[i], status'[i])
  <2>1. /\ phase' = phase /\ file'[i] = file[i] /\ asked'[i] = asked[i]
        /\ writer'[i] = writer[i] /\ status'[i] = status[i]
    BY <1>5 DEF Change, PreferencesInv, VariablesTyped
  <2>. QED  BY <2>1, SettingKept
<1>6. Consistent(k, phase', file'[k], asked'[k], writer'[k], status'[k])
  <2>1. CASE w.authorized /\ Accepts(k)
    <3>. DEFINE u == Submitted(k, v)
                t == NoteSubmission(k, NextGeneration(k))
    <3>1. writer'[k] = u /\ status'[k] = t /\ asked'[k] = v /\ file'[k] = file[k] /\ phase' = phase
      BY <2>1 DEF Change, PreferencesInv, VariablesTyped
    <3>2. /\ w.present /\ w.thread \notin {"Ended", "Exited"} /\ ~w.shutdown /\ phase = "Running"
      BY <1>1, <2>1 DEF Accepts, Finished, Consistent, Life, Change
    <3>3. [generation |-> w.next_generation + 1, snapshot |-> v] \in Requests(k)
      BY <1>3 DEF Requests
    <3>4. /\ u \in Writers(k)
          /\ u.next_generation = w.next_generation + 1
          /\ u.pending = [generation |-> w.next_generation + 1, snapshot |-> v]
          /\ u.job = w.job /\ u.thread = w.thread /\ u.events = w.events /\ u.saved = w.saved
          /\ u.present = w.present /\ u.authorized = w.authorized /\ u.shutdown = w.shutdown
      BY <1>2, <1>3, <3>3 DEF Submitted, NextGeneration, Writers
    <3>5. /\ t \in Statuses /\ t.saved = s.saved /\ t.failed = s.failed
          /\ t.requested = w.next_generation + 1
      BY <1>2, <1>3 DEF NoteSubmission, NextGeneration, Statuses
    <3>. HIDE DEF u, t
    <3>6. Life(k, phase, file[k], u) /\ Noted(k, phase, u, t)
      BY <1>1, <1>2, <3>2, <3>4, <3>5, GenerationFacts DEF Consistent, Life, Noted
    <3>7. Consistent(k, phase, file[k], v, u, t)
      BY <1>1, <3>2, <3>4, <3>5, <3>6, SubmitConsistent
    <3>. QED  BY <3>1, <3>7
  <2>2. CASE ~(w.authorized /\ Accepts(k))
    <3>1. /\ writer'[k] = w /\ asked'[k] = asked[k] /\ file'[k] = file[k] /\ phase' = phase
          /\ status'[k] = s \/ status'[k] = NoteSubmission(k, 0)
      BY <2>2 DEF Change, PreferencesInv, VariablesTyped
    <3>. DEFINE t == status'[k]
    <3>2. /\ t \in Statuses /\ t.saved = s.saved /\ t.failed = s.failed
          /\ t.requested = s.requested
      BY <1>2, <3>1 DEF NoteSubmission, Statuses
    <3>. HIDE DEF t
    <3>3. Life(k, phase, file[k], w) /\ Noted(k, phase, w, t)
      BY <1>1, <3>2 DEF Consistent, Noted
    <3>4. Consistent(k, phase, file[k], asked[k], w, t)
      BY <1>1, <1>2, <3>2, <3>3, NoteConsistent
    <3>. QED  BY <3>1, <3>4 DEF t
  <2>. QED  BY <2>1, <2>2
<1>7. LanguageNews(phase', file'["Language"], shown'["Language"], writer'["Language"])
  <2>1. /\ phase' = phase /\ file'["Language"] = file["Language"]
        /\ shown'["Language"] = shown["Language"]
    BY DEF Change, ShownAtOnce, PreferencesAssumption, PreferencesInv, VariablesTyped
  <2>2. /\ writer'["Language"].thread = writer["Language"].thread
        /\ writer'["Language"].saved = writer["Language"].saved
    <3>1. CASE k = "Language"
      <4>1. Submitted(k, v).thread = w.thread /\ Submitted(k, v).saved = w.saved
        BY <1>2 DEF Submitted, Writers
      <4>2. writer'[k] = w \/ writer'[k] = Submitted(k, v)
        BY DEF Change, PreferencesInv, VariablesTyped
      <4>. QED  BY <3>1, <4>1, <4>2
    <3>2. CASE k # "Language"
      BY <3>2, LanguageIsSetting DEF Change, PreferencesInv, VariablesTyped
    <3>. QED  BY <3>1, <3>2
  <2>. QED  BY <2>1, <2>2 DEF PreferencesInv, LanguageNews
<1>. QED  BY <1>4, <1>5, <1>6, <1>7 DEF PreferencesInv

\* A step of the thread of one setting: the other settings stay as they were.
LEMMA ThreadKeeps ==
  ASSUME PreferencesAssumption, PreferencesInv, NEW k \in Setting, NEW from, NEW u,
         Thread(k, from, u), NEW g,
         DOMAIN file' = Setting, file'[k] = g, \A i \in Setting : i # k => file'[i] = file[i],
         Consistent(k, phase, g, asked[k], u, status[k]),
         temp' \in [Setting -> {"None", "Partial", "Complete"}], faults' \in 0..MaxFaults,
         k = "Language" => LanguageNews(phase, g, shown["Language"], u)
  PROVE  PreferencesInv'
<1>1. /\ phase' = phase /\ shown' = shown /\ asked' = asked /\ status' = status
      /\ legacy' = legacy /\ chosen' = chosen /\ writer' = [writer EXCEPT ![k] = u]
  BY DEF Thread
<1>2. /\ DOMAIN writer = Setting /\ DOMAIN file = Setting
      /\ writer'[k] = u /\ file'[k] = g
      /\ \A i \in Setting : i # k => writer'[i] = writer[i] /\ file'[i] = file[i]
  BY <1>1 DEF PreferencesInv, VariablesTyped
<1>3. VariablesTyped'
  BY <1>1, <1>2 DEF PreferencesInv, VariablesTyped
<1>4. ASSUME NEW i \in Setting
      PROVE  Consistent(i, phase', file'[i], asked'[i], writer'[i], status'[i])
  <2>1. CASE i = k
    BY <1>1, <1>2, <2>1
  <2>2. CASE i # k
    BY <1>1, <1>2, <2>2, SettingKept
  <2>. QED  BY <2>1, <2>2
<1>5. LanguageNews(phase', file'["Language"], shown'["Language"], writer'["Language"])
  <2>1. CASE k = "Language"
    BY <1>1, <1>2, <2>1
  <2>2. CASE k # "Language"
    <3>1. LanguageNews(phase, file["Language"], shown["Language"], writer["Language"])
      BY DEF PreferencesInv
    <3>. QED  BY <1>1, <1>2, <2>2, <3>1, LanguageIsSetting
  <2>. QED  BY <2>1, <2>2
<1>. QED  BY <1>3, <1>4, <1>5 DEF PreferencesInv

LEMMA FaultTyped ==
  ASSUME PreferencesAssumption, PreferencesInv, Fault \/ UNCHANGED faults
  PROVE  faults' \in 0..MaxFaults
<1>1. faults' = faults \/ (faults < MaxFaults /\ faults' = faults + 1)
  BY DEF Fault
<1>2. faults \in 0..MaxFaults
  BY DEF PreferencesInv, VariablesTyped
<1>. QED  BY <1>1, <1>2, GenerationFacts

LEMMA WritesKeeps ==
  ASSUME PreferencesAssumption, PreferencesInv, NEW k \in Setting, Writes(k)
  PROVE  PreferencesInv'
<1>. DEFINE w == writer[k]
            s == status[k]
            f == file[k]
            a == asked[k]
<1>1. /\ Consistent(k, phase, f, a, w, s) /\ w \in Writers(k)
      /\ k = "Language" => LanguageNews(phase, f, shown["Language"], w)
  BY ConsistentFacts DEF PreferencesInv
<1>2. temp \in [Setting -> {"None", "Partial", "Complete"}] /\ DOMAIN file = Setting
  BY DEF PreferencesInv, VariablesTyped
<1>3. CASE TakeRequest(k)
  <2>. DEFINE u == [w EXCEPT !.thread = "Saving", !.job = w.pending, !.pending = NoRequest]
  <2>1. Thread(k, "Waiting", u) /\ w.pending # NoRequest /\ w.thread = "Waiting"
        /\ UNCHANGED <<file, temp, faults>>
    BY <1>3 DEF TakeRequest, Thread
  <2>2. Consistent(k, phase, f, a, u, s)
    BY <1>1, <2>1, TakeConsistent
  <2>3. u.saved = w.saved
    BY <1>1 DEF Writers
  <2>4. k = "Language" => LanguageNews(phase, f, shown["Language"], u)
    BY <1>1, <2>1, <2>3 DEF LanguageNews
  <2>. HIDE DEF u
  <2>. QED  BY <1>2, <2>1, <2>2, <2>4, FaultTyped, ThreadKeeps
<1>4. CASE CreateTemp(k) \/ SyncTemp(k)
  <2>1. Thread(k, "Saving", w) /\ UNCHANGED <<file, faults>>
        /\ temp' \in [Setting -> {"None", "Partial", "Complete"}]
    BY <1>2, <1>4 DEF CreateTemp, SyncTemp
  <2>. QED  BY <1>1, <1>2, <2>1, FaultTyped, ThreadKeeps
<1>5. CASE ReplaceFile(k)
  <2>. DEFINE u == [w EXCEPT !.thread = "Replaced"]
  <2>1. /\ Thread(k, "Saving", u) /\ w.thread = "Saving" /\ UNCHANGED faults
        /\ DOMAIN file' = Setting /\ file'[k] = w.job.snapshot
        /\ \A i \in Setting : i # k => file'[i] = file[i]
        /\ temp' \in [Setting -> {"None", "Partial", "Complete"}]
    BY <1>2, <1>5 DEF ReplaceFile, Thread
  <2>2. Consistent(k, phase, w.job.snapshot, a, u, s)
    BY <1>1, <2>1, ReplaceConsistent
  <2>3. u.thread = "Replaced"
    BY <1>1 DEF Writers
  <2>4. LanguageNews(phase, w.job.snapshot, shown["Language"], u)
    BY <2>3 DEF LanguageNews
  <2>. HIDE DEF u
  <2>. QED  BY <2>1, <2>2, <2>4, FaultTyped, ThreadKeeps
<1>6. CASE ReportSaved(k)
  <2>. DEFINE e == [saved |-> TRUE, generation |-> w.job.generation]
              news == IF k = "Language" THEN Append(w.saved, w.job.snapshot) ELSE w.saved
              u == [w EXCEPT !.thread = "Waiting", !.job = NoRequest,
                      !.events = Append(@, e),
                      !.saved = IF k = "Language" THEN Append(@, w.job.snapshot) ELSE @]
  <2>1. Thread(k, "Replaced", u) /\ w.thread = "Replaced" /\ UNCHANGED <<file, temp, faults>>
    BY <1>6 DEF ReportSaved, Thread
  <2>2. Working(w) /\ w.job.snapshot \in Snapshot(k) /\ w.job # NoRequest
    BY <1>1, <2>1, ConsistentFacts DEF Working, Consistent, Queue
  <2>3. e \in Event
    BY <1>1, <2>2, WriterFacts, RequestFacts DEF Event
  <2>4. Append(w.events, e) \in Seq(Event) /\ news \in Seq(Language)
    BY <1>1, <2>2, <2>3, WriterFacts, AppendFacts DEF Snapshot
  <2>5. /\ u.thread = "Waiting" /\ u.job = NoRequest /\ u.pending = w.pending
        /\ u.present = w.present /\ u.authorized = w.authorized /\ u.shutdown = w.shutdown
        /\ u.next_generation = w.next_generation
        /\ u.events = Append(w.events, e) /\ u.saved = news /\ u \in Writers(k)
    BY <1>1, <2>4 DEF Writers, Requests
  <2>6. k # "Language" => u.saved = <<>>
    BY <1>1, <2>5 DEF Consistent, Life
  <2>7. k = "Language" => LanguageNews(phase, f, shown["Language"], u)
    <3>1. f = w.job.snapshot
      BY <1>1, <2>1 DEF Consistent, Queue
    <3>2. k = "Language" => u.saved # <<>> /\ u.saved[Len(u.saved)] = w.job.snapshot
      BY <1>1, <2>2, <2>5, WriterFacts, AppendFacts DEF Snapshot
    <3>. QED  BY <3>1, <3>2 DEF LanguageNews
  <2>. HIDE DEF u, news
  <2>8. Consistent(k, phase, f, a, u, s)
    BY <1>1, <2>1, <2>2, <2>5, <2>6, DoneConsistent
  <2>. QED  BY <1>2, <2>1, <2>7, <2>8, FaultTyped, ThreadKeeps
<1>7. CASE SaveFails(k)
  <2>. DEFINE e == [saved |-> FALSE, generation |-> w.job.generation]
              u == [w EXCEPT !.thread = "Waiting", !.job = NoRequest, !.events = Append(@, e)]
  <2>1. Thread(k, "Saving", u) /\ w.thread = "Saving" /\ UNCHANGED file /\ Fault
        /\ temp' \in [Setting -> {"None", "Partial", "Complete"}]
    BY <1>2, <1>7 DEF SaveFails, Thread
  <2>2. Working(w) /\ w.job # NoRequest
    BY <1>1, <2>1 DEF Working, Consistent, Queue
  <2>3. e \in Event
    BY <1>1, <2>2, WriterFacts, RequestFacts DEF Event
  <2>4. Append(w.events, e) \in Seq(Event)
    BY <1>1, <2>3, WriterFacts, AppendFacts
  <2>5. /\ u.thread = "Waiting" /\ u.job = NoRequest /\ u.pending = w.pending
        /\ u.present = w.present /\ u.authorized = w.authorized /\ u.shutdown = w.shutdown
        /\ u.next_generation = w.next_generation
        /\ u.events = Append(w.events, e) /\ u.saved = w.saved /\ u \in Writers(k)
    BY <1>1, <2>4 DEF Writers, Requests
  <2>6. k # "Language" => u.saved = <<>>
    BY <1>1, <2>5 DEF Consistent, Life
  <2>7. k = "Language" => LanguageNews(phase, f, shown["Language"], u)
    BY <1>1, <2>1, <2>5 DEF LanguageNews
  <2>. HIDE DEF u
  <2>8. Consistent(k, phase, f, a, u, s)
    BY <1>1, <2>2, <2>5, <2>6, DoneConsistent
  <2>. QED  BY <1>2, <2>1, <2>7, <2>8, FaultTyped, ThreadKeeps
<1>8. CASE Stop(k) \/ Exit(k)
  <2>1. PICK to \in {"Ended", "Exited"}, from \in {"Waiting", "Ended"} :
          /\ Thread(k, from, [w EXCEPT !.thread = to]) /\ w.thread = from
          /\ (from = "Waiting") => w.shutdown /\ w.pending = NoRequest
          /\ UNCHANGED <<file, temp, faults>>
    BY <1>8 DEF Stop, Exit, Thread, MayStop
  <2>. DEFINE u == [w EXCEPT !.thread = to]
  <2>2. Consistent(k, phase, f, a, u, s)
    BY <1>1, <2>1, StopConsistent
  <2>3. u.saved = w.saved
    BY <1>1 DEF Writers
  <2>4. k = "Language" => LanguageNews(phase, f, shown["Language"], u)
    BY <1>1, <2>1, <2>3 DEF LanguageNews
  <2>. HIDE DEF u
  <2>5. Thread(k, from, u)
    BY <2>1 DEF u
  <2>. QED  BY <1>2, <2>1, <2>2, <2>4, <2>5, FaultTyped, ThreadKeeps
<1>. QED  BY <1>3, <1>4, <1>5, <1>6, <1>7, <1>8 DEF Writes

LEMMA DrainKeeps == ASSUME PreferencesAssumption, PreferencesInv, Drain PROVE PreferencesInv'
<1>1. ASSUME NEW k \in Setting
      PROVE  Consistent(k, phase', file'[k], asked'[k], writer'[k], status'[k])
  <2>1. Consistent(k, phase, file[k], asked[k], writer[k], status[k])
    BY DEF PreferencesInv
  <2>2. phase' = phase /\ file'[k] = file[k] /\ asked'[k] = asked[k]
    BY DEF Drain
  <2>3. CASE writer[k].present
    <3>1. writer'[k] = Read(k) /\ status'[k] = Observed(k, Terminal(k))
      BY <2>3 DEF Drain
    <3>2. Terminal(k) \in BOOLEAN
      BY DEF Terminal
    <3>3. Consistent(k, phase, file[k], asked[k], Read(k), Observed(k, Terminal(k)))
      BY <2>1, <3>2, DrainConsistent
    <3>. QED  BY <2>2, <3>1, <3>3
  <2>4. CASE ~writer[k].present
    <3>1. writer'[k] = writer[k] /\ status'[k] = status[k]
      BY <2>4 DEF Drain
    <3>. QED  BY <2>1, <2>2, <3>1
  <2>. QED  BY <2>3, <2>4
<1>2. ASSUME NEW k \in Setting PROVE shown'[k] \in Snapshot(k)
  <2>1. Consistent(k, phase, file[k], asked[k], writer[k], status[k]) /\ shown[k] \in Snapshot(k)
        /\ writer[k] \in Writers(k)
    BY ConsistentFacts DEF PreferencesInv, VariablesTyped
  <2>2. shown'[k] = IF writer[k].saved = <<>> THEN shown[k]
                    ELSE writer[k].saved[Len(writer[k].saved)]
    BY DEF Drain, ShownAfter
  <2>3. k # "Language" => writer[k].saved = <<>>
    BY <2>1 DEF Consistent, Life
  <2>4. writer[k].saved \in Seq(Language)
    BY <2>1, WriterFacts
  <2>5. writer[k].saved # <<>> => writer[k].saved[Len(writer[k].saved)] \in Language
    BY <2>4
  <2>. QED  BY <2>1, <2>2, <2>3, <2>5 DEF Snapshot
<1>3. VariablesTyped'
  BY <1>2 DEF Drain, ShownAfter, PreferencesInv, VariablesTyped
<1>4. LanguageNews(phase', file'["Language"], shown'["Language"], writer'["Language"])
  <2>. DEFINE w == writer["Language"]
  <2>1. w \in Writers("Language") /\ (~w.present => w.saved = <<>>)
    BY LanguageIsSetting DEF PreferencesInv, Consistent, Life
  <2>2. writer'["Language"].thread = w.thread /\ writer'["Language"].saved = <<>>
    BY <2>1, LanguageIsSetting DEF Drain, Read, Writers
  <2>3. shown'["Language"] = IF w.saved = <<>> THEN shown["Language"] ELSE w.saved[Len(w.saved)]
    BY LanguageIsSetting DEF Drain, ShownAfter
  <2>4. LanguageNews(phase, file["Language"], shown["Language"], w)
    BY DEF PreferencesInv
  <2>. QED  BY <2>2, <2>3, <2>4 DEF LanguageNews, Drain
<1>. QED  BY <1>1, <1>3, <1>4 DEF PreferencesInv

LEMMA BeginCloseKeeps ==
  ASSUME PreferencesAssumption, PreferencesInv, BeginClose
  PROVE  PreferencesInv'
<1>1. ASSUME NEW k \in Setting
      PROVE  /\ Consistent(k, phase', file'[k], asked'[k], writer'[k], status'[k])
             /\ writer'[k].thread = writer[k].thread /\ writer'[k].saved = writer[k].saved
  <2>. DEFINE w == writer[k]
              s == status[k]
              u == ShutDown(k)
  <2>1. Consistent(k, "Running", file[k], asked[k], w, s) /\ w \in Writers(k) /\ s \in Statuses
        /\ shown[k] \in Snapshot(k)
    BY ConsistentFacts DEF BeginClose, PreferencesInv, VariablesTyped
  <2>2. /\ phase' = "Closing" /\ file'[k] = file[k] /\ status'[k] = s /\ writer'[k] = u
        /\ asked'[k] = IF k \in Ordinary /\ w.present /\ Accepts(k) THEN shown[k] ELSE asked[k]
    BY DEF BeginClose
  <2>3. w.present => Accepts(k) /\ w.thread \notin {"Ended", "Exited"}
    BY <2>1 DEF Consistent, Life, Accepts, Finished
  <2>4. CASE ~w.present
    <3>1. u = w /\ asked'[k] = asked[k]
      BY <2>2, <2>4 DEF ShutDown
    <3>2. Life(k, "Closing", file[k], w) /\ Noted(k, "Closing", w, s)
      BY <2>1, <2>4 DEF Consistent, Life, Noted
    <3>3. Consistent(k, "Closing", file[k], asked[k], w, s)
      BY <2>1, <3>2, NoteConsistent
    <3>. QED  BY <2>2, <3>1, <3>3
  <2>5. CASE w.present /\ k = "Language"
    <3>1. u = [w EXCEPT !.shutdown = TRUE] /\ asked'[k] = asked[k]
      BY <2>2, <2>5 DEF ShutDown, PreferencesAssumption
    <3>2. /\ u \in Writers(k)
          /\ u.next_generation = w.next_generation /\ u.pending = w.pending /\ u.job = w.job
          /\ u.thread = w.thread /\ u.events = w.events /\ u.saved = w.saved
          /\ u.present = w.present /\ u.authorized = w.authorized /\ u.shutdown = TRUE
      BY <2>1, <3>1 DEF Writers
    <3>. HIDE DEF u
    <3>3. Life(k, "Closing", file[k], u) /\ Noted(k, "Closing", u, s)
      BY <2>1, <2>3, <2>5, <3>2 DEF Consistent, Life, Noted, PreferencesAssumption
    <3>4. Consistent(k, "Closing", file[k], asked[k], u, s)
      BY <2>1, <3>2, <3>3, NoteConsistent
    <3>. QED  BY <2>2, <3>1, <3>2, <3>4
  <2>6. CASE w.present /\ k # "Language"
    <3>1. k \in Ordinary
      BY <2>6 DEF Setting
    <3>2. u = [w EXCEPT !.next_generation = w.next_generation + 1,
                        !.pending = [generation |-> w.next_generation + 1, snapshot |-> shown[k]],
                        !.shutdown = TRUE]
          /\ asked'[k] = shown[k]
      BY <2>1, <2>2, <2>3, <2>6, <3>1 DEF ShutDown, Submitted, NextGeneration, Writers
    <3>3. /\ w.next_generation + 1 \in Generations \ {0} /\ w.next_generation + 1 > 0
          /\ w.next_generation \in Int
      <4>1. w.next_generation <= MaxGeneration
        BY <2>1 DEF Consistent, Life
      <4>2. w.next_generation \in Generations
        BY <2>1, WriterFacts
      <4>. QED  BY <4>1, <4>2, GenerationFacts DEF Generations
    <3>4. [generation |-> w.next_generation + 1, snapshot |-> shown[k]] \in Requests(k)
      BY <2>1, <3>3 DEF Requests
    <3>5. /\ u \in Writers(k)
          /\ u.next_generation = w.next_generation + 1
          /\ u.pending = [generation |-> w.next_generation + 1, snapshot |-> shown[k]]
          /\ u.job = w.job /\ u.thread = w.thread /\ u.events = w.events /\ u.saved = w.saved
          /\ u.present = w.present /\ u.authorized = w.authorized /\ u.shutdown = TRUE
      BY <2>1, <3>2, <3>3, <3>4 DEF Writers
    <3>. HIDE DEF u
    <3>6. Life(k, "Closing", file[k], u) /\ Noted(k, "Closing", u, s)
      BY <2>1, <2>3, <2>6, <3>3, <3>5 DEF Consistent, Life, Noted
    <3>7. Consistent(k, "Closing", file[k], shown[k], u, s)
      BY <2>1, <2>3, <2>6, <3>5, <3>6, SubmitConsistent
    <3>. QED  BY <2>2, <3>2, <3>5, <3>7
  <2>. QED  BY <2>4, <2>5, <2>6
<1>2. VariablesTyped'
  BY DEF BeginClose, PreferencesInv, VariablesTyped
<1>3. LanguageNews(phase', file'["Language"], shown'["Language"], writer'["Language"])
  BY <1>1, LanguageIsSetting DEF BeginClose, PreferencesInv, LanguageNews
<1>. QED  BY <1>1, <1>2, <1>3 DEF PreferencesInv

LEMMA GoneKeeps ==
  ASSUME PreferencesAssumption, PreferencesInv, Gone, UNCHANGED <<file, legacy, chosen, faults>>
  PROVE  PreferencesInv'
<1>1. VariablesTyped'
  <2>1. \A k \in Setting : Defaults[k] \in Snapshot(k)
    BY SnapshotFacts
  <2>2. DOMAIN Defaults = Setting
    BY DEF Defaults
  <2>. QED  BY <2>1, <2>2 DEF Gone, PreferencesInv, VariablesTyped
<1>2. ASSUME NEW k \in Setting
      PROVE  Consistent(k, phase', file'[k], asked'[k], writer'[k], status'[k])
  <2>1. file[k] \in Snapshot(k) \cup {"Missing", "Unreadable"} /\ file'[k] = file[k]
    BY DEF PreferencesInv, Consistent
  <2>2. phase' = "Off" /\ asked'[k] = Defaults[k] /\ writer'[k] = NoWriter /\ status'[k] = NewStatus
    BY DEF Gone
  <2>3. Consistent(k, "Off", file[k], Defaults[k], NoWriter, NewStatus)
    BY <2>1, OffConsistent
  <2>. QED  BY <2>1, <2>2, <2>3
<1>3. LanguageNews(phase', file'["Language"], shown'["Language"], writer'["Language"])
  BY DEF Gone, LanguageNews
<1>. QED  BY <1>1, <1>2, <1>3 DEF PreferencesInv

LEMMA DamageKeeps == ASSUME PreferencesAssumption, PreferencesInv, Damage PROVE PreferencesInv'
<1>1. PICK d \in Setting : file' = [file EXCEPT ![d] = "Unreadable"]
  BY DEF Damage
<1>2. phase = "Off" /\ UNCHANGED <<phase, temp, shown, asked, writer, status, legacy, chosen, faults>>
  BY DEF Damage
<1>3. VariablesTyped'
  BY <1>1, <1>2 DEF PreferencesInv, VariablesTyped
<1>4. ASSUME NEW k \in Setting
      PROVE  Consistent(k, phase', file'[k], asked'[k], writer'[k], status'[k])
  <2>1. Consistent(k, "Off", file[k], asked[k], writer[k], status[k])
    BY <1>2 DEF PreferencesInv
  <2>2. ~writer[k].present /\ writer[k].next_generation = 0 /\ writer[k].thread = "Exited"
    BY <2>1 DEF Consistent, Life
  <2>3. file'[k] = file[k] \/ file'[k] = "Unreadable"
    BY <1>1 DEF PreferencesInv, VariablesTyped
  <2>4. Life(k, "Off", file'[k], writer[k]) /\ Queue(asked[k], file'[k], writer[k])
        /\ Outcome(asked[k], file'[k], writer[k], status[k])
    BY <2>1, <2>2 DEF Consistent, Life, Queue, Outcome, Working
  <2>. QED  BY <1>2, <2>1, <2>3, <2>4 DEF Consistent
<1>5. LanguageNews(phase', file'["Language"], shown'["Language"], writer'["Language"])
  BY <1>2 DEF LanguageNews
<1>. QED  BY <1>3, <1>4, <1>5 DEF PreferencesInv

LEMMA PreferencesStutters ==
  ASSUME PreferencesInv, UNCHANGED vars
  PROVE  PreferencesInv'
<1>1. UNCHANGED <<phase, file, temp, shown, asked, writer, status, legacy, chosen, faults>>
  BY DEF vars
<1>2. VariablesTyped'
  BY <1>1 DEF PreferencesInv, VariablesTyped
<1>3. \A k \in Setting : Consistent(k, phase', file'[k], asked'[k], writer'[k], status'[k])
  BY <1>1, SettingKept
<1>4. LanguageNews(phase', file'["Language"], shown'["Language"], writer'["Language"])
  BY <1>1 DEF PreferencesInv
<1>. QED  BY <1>2, <1>3, <1>4 DEF PreferencesInv

LEMMA PreferencesSteps ==
  ASSUME PreferencesAssumption, PreferencesInv, [Next]_vars
  PROVE  PreferencesInv'
<1>1. ASSUME NEW k \in Ordinary, NEW v \in Value, Change(k, v) PROVE PreferencesInv'
  BY <1>1, ChangeKeeps DEF Setting, Snapshot, PreferencesAssumption
<1>2. ASSUME NEW v \in Choices, Change("Language", v) PROVE PreferencesInv'
  <2>1. v \in Snapshot("Language")
    BY DEF Snapshot, Language, PreferencesAssumption
  <2>. QED  BY <1>2, <2>1, ChangeKeeps, LanguageIsSetting
<1>3. FinishClose \/ Crash => PreferencesInv'
  BY GoneKeeps DEF FinishClose, Crash
<1>. QED
  BY <1>1, <1>2, <1>3, LoadKeeps, StartWritersKeeps, WritesKeeps, DrainKeeps, BeginCloseKeeps,
    DamageKeeps, PreferencesStutters
  DEF Next

-----------------------------------------------------------------------------
LEMMA PreferencesInvSuffices ==
  ASSUME PreferencesAssumption, PreferencesInv
  PROVE  TypeOK /\ AcknowledgedIsDurable /\ ShownLanguageIsSaved
<1>1. TypeOK
  <2>1. ASSUME NEW k \in Setting
        PROVE  /\ file[k] \in Snapshot(k) \cup {"Missing", "Unreadable"}
               /\ shown[k] \in Snapshot(k) /\ asked[k] \in Snapshot(k)
               /\ writer[k].next_generation \in 0..(MaxGeneration + 1)
               /\ writer[k].thread \in {"Waiting", "Saving", "Replaced", "Ended", "Exited"}
               /\ {status[k].requested, status[k].saved, status[k].failed}
                    \subseteq 0..(MaxGeneration + 1)
    <3>1. /\ writer[k] \in Writers(k) /\ status[k] \in Statuses
          /\ file[k] \in Snapshot(k) \cup {"Missing", "Unreadable"} /\ asked[k] \in Snapshot(k)
      BY DEF PreferencesInv, Consistent
    <3>. QED
      BY <3>1, WriterFacts DEF PreferencesInv, VariablesTyped, Statuses, Generations
  <2>. QED  BY <2>1 DEF PreferencesInv, VariablesTyped, TypeOK
<1>2. AcknowledgedIsDurable
  <2>. SUFFICES ASSUME NEW k \in Setting, phase = "Running", Acknowledged(k), status[k].requested > 0
                PROVE  file[k] = asked[k]
    BY DEF AcknowledgedIsDurable
  <2>1. Consistent(k, "Running", file[k], asked[k], writer[k], status[k])
    BY DEF PreferencesInv
  <2>2. status[k].requested = writer[k].next_generation /\ status[k].saved < Due(writer[k])
    BY <2>1 DEF Consistent, Noted, Ordered
  <2>3. status[k].saved = writer[k].next_generation
    BY <2>1, <2>2, ConsistentFacts DEF Acknowledged
  <2>. QED  BY <2>1, <2>2, <2>3 DEF Consistent, Outcome, SavedLatest
<1>3. ShownLanguageIsSaved
  BY DEF PreferencesInv, LanguageNews, ShownLanguageIsSaved, Readable
<1>. QED  BY <1>1, <1>2, <1>3

\* No step writes a file that could not be read.
LEMMA UnreadableKeptStep ==
  ASSUME PreferencesAssumption, PreferencesInv, [Next]_vars
  PROVE  UnreadableKept
<1>. SUFFICES ASSUME NEW k \in Setting, file[k] = "Unreadable" PROVE file'[k] = "Unreadable"
  BY DEF UnreadableKept
<1>1. CASE UNCHANGED file
  BY <1>1
<1>2. CASE StartWriters
  BY <1>2, LanguageIsSetting DEF StartWriters, CommitsDefault, PreferencesInv, VariablesTyped
<1>3. ASSUME NEW i \in Setting, ReplaceFile(i) PROVE file'[k] = "Unreadable"
  <2>1. phase # "Off" /\ writer[i].thread = "Saving" /\ file' = [file EXCEPT ![i] = writer[i].job.snapshot]
    BY <1>3 DEF ReplaceFile, Thread
  <2>2. file[i] # "Unreadable"
    BY <2>1 DEF PreferencesInv, Consistent, Life
  <2>. QED  BY <2>1, <2>2 DEF PreferencesInv, VariablesTyped
<1>4. CASE Damage
  BY <1>4 DEF Damage, PreferencesInv, VariablesTyped
<1>. QED
  BY <1>1, <1>2, <1>3, <1>4
  DEF Next, vars, Load, Change, Writes, TakeRequest, CreateTemp, SyncTemp, ReportSaved, SaveFails,
    Stop, Exit, Drain, BeginClose, FinishClose, Crash

LEMMA ExitSavesSettingsStep ==
  ASSUME PreferencesAssumption, PreferencesInv
  PROVE  ExitSavesSettings
<1>. SUFFICES ASSUME FinishClose, NEW k \in Setting, writer[k].present,
                     Observed(k, TRUE).failed = 0, asked[k] # file[k]
              PROVE  status[k].requested = 0 /\ k = "Language"
  BY DEF ExitSavesSettings
<1>1. Consistent(k, "Closing", file[k], asked[k], writer[k], status[k])
  BY DEF FinishClose, PreferencesInv
<1>2. writer[k].thread \in {"Ended", "Exited"} /\ writer[k].pending = NoRequest
  BY <1>1 DEF FinishClose, Terminal, Consistent, Life
<1>3. writer[k].next_generation \in Int /\ writer[k].next_generation >= 0
  BY <1>1, ConsistentFacts, WriterFacts, GenerationFacts DEF Generations
<1>4. Due(writer[k]) > writer[k].next_generation
  BY <1>2, <1>3 DEF Due, Working
<1>5. ~(writer[k].next_generation > 0)
  <2>1. SUFFICES ASSUME writer[k].next_generation > 0 PROVE FALSE
    OBVIOUS
  <2>2. FailedLatest(writer[k], status[k])
    BY <1>1, <1>4, <2>1 DEF Consistent, Outcome
  <2>3. Observed(k, TRUE).failed = writer[k].next_generation
    BY <1>1, <2>1, <2>2, ObservedFacts
  <2>4. writer[k].next_generation = 0
    BY <2>3, Zenon
  <2>. QED  BY <2>1, <2>4
<1>6. k = "Language"
  BY <1>1, <1>5 DEF Consistent, Life, Setting
<1>. QED  BY <1>1, <1>3, <1>5, <1>6 DEF Consistent, Noted

(***************************************************************************)
(* Whatever requests, coalescing, failed saves, delayed news and crashes   *)
(* come in between: what a writer acknowledged is what the file holds, and *)
(* the language on screen is the saved one (preferences.rs,                *)
(* preference_lifecycle.rs).                                               *)
(***************************************************************************)
THEOREM PreferencesAlwaysDurable ==
  ASSUME PreferencesAssumption
  PROVE  Spec => [](TypeOK /\ AcknowledgedIsDurable /\ ShownLanguageIsSaved)
<1>1. Init => PreferencesInv
  BY PreferencesInvInit
<1>2. PreferencesInv /\ [Next]_vars => PreferencesInv'
  BY PreferencesSteps
<1>3. PreferencesInv => TypeOK /\ AcknowledgedIsDurable /\ ShownLanguageIsSaved
  BY PreferencesInvSuffices
<1>. QED  BY <1>1, <1>2, <1>3, PTL DEF Spec

(***************************************************************************)
(* No step overwrites a settings file that could not be read, and a clean  *)
(* exit leaves the last snapshots in the files or a failure on record.     *)
(***************************************************************************)
THEOREM PreferencesStepsSafe ==
  ASSUME PreferencesAssumption
  PROVE  Spec => [][UnreadableKept /\ ExitSavesSettings]_vars
<1>1. Init => PreferencesInv
  BY PreferencesInvInit
<1>2. PreferencesInv /\ [Next]_vars => PreferencesInv'
  BY PreferencesSteps
<1>3. PreferencesInv /\ [Next]_vars => [UnreadableKept /\ ExitSavesSettings]_vars
  BY UnreadableKeptStep, ExitSavesSettingsStep
<1>. QED  BY <1>1, <1>2, <1>3, PTL DEF Spec

-----------------------------------------------------------------------------
(***************************************************************************)
(* The language of a user who chose none, when no save fails.              *)
(***************************************************************************)
LEMMA OriginInvInit == ASSUME PreferencesAssumption, Init PROVE OriginInv
<1>1. writer["Language"] = NoWriter /\ file["Language"] = "Missing" /\ phase = "Off"
  BY LanguageIsSetting DEF Init
<1>2. legacy <=> \E k \in Ordinary : file[k] # "Missing"
  BY <1>1 DEF Init, Setting
<1>. QED  BY <1>1, <1>2 DEF OriginInv, Working, NoWriter

\* Steps that leave the language, its writer and the missing files alone.
LEMMA OriginKept ==
  ASSUME OriginInv, legacy' = legacy, chosen' = chosen, phase \notin {"Off", "Starting"},
         phase' \notin {"Off", "Starting"}, shown'["Language"] = shown["Language"],
         file'["Language"] = file["Language"],
         \A k \in Ordinary : file'[k] = file[k] \/ file'[k] # "Missing",
         ~chosen => /\ writer'["Language"].pending = NoRequest
                    /\ ~Working(writer'["Language"])
                    /\ writer'["Language"].saved = <<>>
  PROVE  OriginInv'
<1>. SUFFICES ASSUME ~chosen' PROVE OriginInv'
  BY DEF OriginInv
<1>1. ~chosen /\ Origin' = Origin
  BY DEF Origin
<1>2. /\ file["Language"] \in {"Missing", "Unreadable", Origin}
      /\ file["Language"] = "Missing" => legacy /\ \E k \in Ordinary : file[k] # "Missing"
      /\ file["Language"] # "Unreadable" => shown["Language"] = Origin
  BY <1>1 DEF OriginInv
<1>3. file'["Language"] = "Missing" => legacy' /\ \E k \in Ordinary : file'[k] # "Missing"
  BY <1>2
<1>. QED  BY <1>1, <1>2, <1>3, Zenon DEF OriginInv

\* What the first language of a session is: the saved one, or the one the
\* other files are evidence for.
LEMMA LoadOriginKeeps ==
  ASSUME PreferencesAssumption, PreferencesInv, OriginInv, Load
  PROVE  OriginInv'
<1>. SUFFICES ASSUME ~chosen PROVE OriginInv'
  BY DEF OriginInv, Load
<1>1. writer'["Language"].pending = NoRequest /\ writer'["Language"].saved = <<>>
      /\ ~Working(writer'["Language"])
  BY LanguageIsSetting DEF Load, NoWriter, Working
<1>2. phase' = "Starting" /\ phase = "Off" /\ UNCHANGED <<file, legacy, chosen>>
  BY DEF Load
<1>3. shown'["Language"] = LoadLanguage
  BY LanguageIsSetting DEF Load
<1>4. file["Language"] # "Unreadable" => LoadLanguage = Origin
  <2>1. CASE file["Language"] = "Missing"
    <3>1. LoadLanguage = IF Legacy \/ MigrationFailure THEN "Korean" ELSE "System"
      BY <2>1 DEF LoadLanguage, Readable
    <3>2. CASE legacy
      <4>1. \E k \in Ordinary : file[k] # "Missing"
        BY <2>1, <3>2 DEF OriginInv
      <4>2. Legacy \/ MigrationFailure
        BY <4>1 DEF Legacy, MigrationFailure, Readable
      <4>. QED  BY <3>1, <3>2, <4>2 DEF Origin
    <3>3. CASE ~legacy
      <4>1. \A k \in Ordinary : file[k] = "Missing"
        BY <2>1, <3>3 DEF OriginInv
      <4>2. ~Legacy /\ ~MigrationFailure
        BY <4>1 DEF Legacy, MigrationFailure, Readable
      <4>. QED  BY <3>1, <3>3, <4>2 DEF Origin
    <3>. QED  BY <3>2, <3>3
  <2>2. CASE file["Language"] \notin {"Missing", "Unreadable"}
    <3>1. LoadLanguage = file["Language"]
      BY <2>2 DEF LoadLanguage, Readable
    <3>. QED  BY <2>2, <3>1 DEF OriginInv
  <2>. QED  BY <2>1, <2>2
<1>. QED  BY <1>1, <1>2, <1>3, <1>4 DEF OriginInv, Origin

LEMMA StartWritersOriginKeeps ==
  ASSUME PreferencesAssumption, MaxFaults = 0, PreferencesInv, OriginInv, StartWriters
  PROVE  OriginInv'
<1>. SUFFICES ASSUME ~chosen PROVE OriginInv'
  BY DEF OriginInv, StartWriters
<1>1. ~Fault
  BY DEF Fault, PreferencesInv, VariablesTyped
<1>2. /\ phase = "Starting" /\ phase' = "Running" /\ UNCHANGED <<shown, legacy, chosen>>
      /\ file' = IF CommitsDefault THEN [file EXCEPT !["Language"] = shown["Language"]] ELSE file
      /\ writer'["Language"] = Spawned("Language", TRUE)
  BY <1>1, LanguageIsSetting DEF StartWriters
<1>3. /\ writer'["Language"].pending = NoRequest /\ writer'["Language"].saved = <<>>
      /\ ~Working(writer'["Language"])
  <2>1. writer["Language"] \in Writers("Language") /\ writer["Language"].thread = "Exited"
        /\ writer["Language"].pending = NoRequest /\ writer["Language"].saved = <<>>
    BY <1>2, LanguageIsSetting DEF PreferencesInv, Consistent, Life
  <2>2. /\ Spawned("Language", TRUE).pending = NoRequest /\ Spawned("Language", TRUE).saved = <<>>
        /\ Spawned("Language", TRUE).thread \in {"Waiting", "Exited"}
    BY <2>1 DEF Spawned, Writers
  <2>. QED  BY <1>2, <2>2 DEF Working
<1>4. \A k \in Ordinary : file'[k] = file[k]
  BY <1>2 DEF PreferencesInv, VariablesTyped, PreferencesAssumption, Setting
<1>5. CASE CommitsDefault
  <2>1. file["Language"] = "Missing" /\ shown["Language"] = Origin
    BY <1>2, <1>5 DEF CommitsDefault, OriginInv
  <2>2. file'["Language"] = Origin /\ Origin \notin {"Missing", "Unreadable"}
    BY <1>2, <1>5, <2>1, LanguageIsSetting DEF PreferencesInv, VariablesTyped, Origin
  <2>. QED  BY <1>2, <1>3, <2>1, <2>2 DEF OriginInv, Origin
<1>6. CASE ~CommitsDefault
  <2>1. file' = file
    BY <1>2, <1>6
  <2>2. file["Language"] = "Missing" => legacy
    <3>1. SUFFICES ASSUME file["Language"] = "Missing", ~legacy PROVE FALSE
      OBVIOUS
    <3>2. \A k \in Ordinary : file[k] = "Missing"
      BY <3>1 DEF OriginInv
    <3>. QED  BY <1>6, <3>1, <3>2 DEF CommitsDefault, MigrationFailure
  <2>. QED  BY <1>2, <1>3, <2>1, <2>2 DEF OriginInv, Origin
<1>. QED  BY <1>5, <1>6

LEMMA ChangeOriginKeeps ==
  ASSUME PreferencesAssumption, PreferencesInv, OriginInv, NEW k \in Setting, NEW v, Change(k, v)
  PROVE  OriginInv'
<1>1. CASE k = "Language"
  BY <1>1 DEF Change, OriginInv
<1>2. CASE k # "Language"
  <2>1. /\ phase' = phase /\ phase \notin {"Off", "Starting"} /\ file' = file /\ legacy' = legacy
        /\ chosen' = chosen /\ shown'["Language"] = shown["Language"]
        /\ writer'["Language"] = writer["Language"]
    BY <1>2, LanguageIsSetting DEF Change, PreferencesInv, VariablesTyped
  <2>2. ~chosen => /\ writer'["Language"].pending = NoRequest
                   /\ ~Working(writer'["Language"]) /\ writer'["Language"].saved = <<>>
    BY <2>1 DEF OriginInv
  <2>3. /\ phase' \notin {"Off", "Starting"} /\ file'["Language"] = file["Language"]
        /\ \A i \in Ordinary : file'[i] = file[i] \/ file'[i] # "Missing"
    BY <2>1
  <2>. QED  BY <2>1, <2>2, <2>3, OriginKept
<1>. QED  BY <1>1, <1>2

LEMMA WritesOriginKeeps ==
  ASSUME PreferencesAssumption, PreferencesInv, OriginInv, NEW k \in Setting, Writes(k)
  PROVE  OriginInv'
<1>. SUFFICES ASSUME ~chosen PROVE OriginInv'
  BY DEF OriginInv, Writes, TakeRequest, CreateTemp, SyncTemp, ReplaceFile, ReportSaved, SaveFails,
    Stop, Exit, Thread
<1>. DEFINE w == writer["Language"]
<1>1. /\ phase # "Off" /\ phase' = phase
      /\ UNCHANGED <<shown, legacy, chosen>>
      /\ \A i \in Setting : i # k => writer'[i] = writer[i]
      /\ writer[k].thread # "Exited" \/ writer' = writer
  BY DEF Writes, TakeRequest, CreateTemp, SyncTemp, ReplaceFile, ReportSaved, SaveFails, Stop, Exit,
    Thread, PreferencesInv, VariablesTyped
<1>2. w.pending = NoRequest /\ ~Working(w) /\ w.saved = <<>> /\ w \in Writers("Language")
  BY LanguageIsSetting DEF OriginInv, PreferencesInv, Consistent
<1>3. writer[k].thread # "Exited"
  BY DEF Writes, TakeRequest, CreateTemp, SyncTemp, ReplaceFile, ReportSaved, SaveFails, Stop, Exit,
    Thread
<1>4. phase \notin {"Off", "Starting"}
  BY <1>1, <1>3 DEF PreferencesInv, Consistent, Life
<1>5. CASE k = "Language"
  <2>1. Stop(k) \/ Exit(k)
    BY <1>2, <1>5 DEF Writes, TakeRequest, CreateTemp, SyncTemp, ReplaceFile, ReportSaved, SaveFails,
      Thread, Working
  <2>2. PICK to \in {"Ended", "Exited"} : writer'["Language"] = [w EXCEPT !.thread = to]
    BY <1>5, <2>1, LanguageIsSetting DEF Stop, Exit, Thread, PreferencesInv, VariablesTyped
  <2>3. /\ writer'["Language"].pending = NoRequest /\ ~Working(writer'["Language"])
        /\ writer'["Language"].saved = <<>>
    BY <1>2, <2>2 DEF Writers, Working
  <2>4. file' = file
    BY <2>1 DEF Stop, Exit
  <2>5. /\ phase' \notin {"Off", "Starting"} /\ file'["Language"] = file["Language"]
        /\ legacy' = legacy /\ chosen' = chosen /\ shown'["Language"] = shown["Language"]
        /\ \A i \in Ordinary : file'[i] = file[i] \/ file'[i] # "Missing"
    BY <1>1, <1>4, <2>4
  <2>. QED  BY <1>4, <2>3, <2>5, OriginKept
<1>6. CASE k # "Language"
  <2>1. writer'["Language"] = w
    BY <1>1, <1>6, LanguageIsSetting
  <2>2. file'["Language"] = file["Language"]
        /\ \A i \in Ordinary : file'[i] = file[i] \/ file'[i] # "Missing"
    <3>1. CASE UNCHANGED file
      BY <3>1
    <3>2. CASE ReplaceFile(k)
      <4>1. writer[k].thread = "Saving" /\ file' = [file EXCEPT ![k] = writer[k].job.snapshot]
        BY <3>2 DEF ReplaceFile, Thread
      <4>2. Consistent(k, phase, file[k], asked[k], writer[k], status[k])
        BY DEF PreferencesInv
      <4>3. writer[k].job.snapshot \in Snapshot(k)
        BY <4>1, <4>2, ConsistentFacts DEF Working
      <4>4. writer[k].job.snapshot # "Missing"
        BY <4>3, SnapshotFacts
      <4>. QED  BY <1>6, <4>1, <4>4 DEF PreferencesInv, VariablesTyped, Setting
    <3>. QED  BY <3>1, <3>2 DEF Writes, TakeRequest, CreateTemp, SyncTemp, ReportSaved, SaveFails, Stop, Exit
  <2>3. /\ phase' \notin {"Off", "Starting"} /\ legacy' = legacy /\ chosen' = chosen
        /\ shown'["Language"] = shown["Language"]
    BY <1>1, <1>4
  <2>4. /\ writer'["Language"].pending = NoRequest /\ ~Working(writer'["Language"])
        /\ writer'["Language"].saved = <<>>
    BY <1>2, <2>1
  <2>. QED  BY <1>4, <2>2, <2>3, <2>4, OriginKept
<1>. QED  BY <1>5, <1>6

LEMMA DrainOriginKeeps ==
  ASSUME PreferencesAssumption, PreferencesInv, OriginInv, Drain
  PROVE  OriginInv'
<1>. SUFFICES ASSUME ~chosen PROVE OriginInv'
  BY DEF OriginInv, Drain
<1>. DEFINE w == writer["Language"]
<1>1. w.pending = NoRequest /\ ~Working(w) /\ w.saved = <<>> /\ w \in Writers("Language")
  BY LanguageIsSetting DEF OriginInv, PreferencesInv, Consistent
<1>2. shown'["Language"] = shown["Language"]
  BY <1>1, LanguageIsSetting DEF Drain, ShownAfter
<1>3. /\ writer'["Language"].pending = NoRequest /\ writer'["Language"].saved = <<>>
      /\ ~Working(writer'["Language"])
  BY <1>1, LanguageIsSetting DEF Drain, Read, Writers, Working
<1>4. /\ phase \notin {"Off", "Starting"} /\ phase' = phase /\ file' = file
      /\ legacy' = legacy /\ chosen' = chosen
  BY DEF Drain
<1>5. /\ phase' \notin {"Off", "Starting"} /\ file'["Language"] = file["Language"]
      /\ \A i \in Ordinary : file'[i] = file[i] \/ file'[i] # "Missing"
  BY <1>4
<1>. QED  BY <1>2, <1>3, <1>4, <1>5, OriginKept

LEMMA BeginCloseOriginKeeps ==
  ASSUME PreferencesAssumption, PreferencesInv, OriginInv, BeginClose
  PROVE  OriginInv'
<1>. SUFFICES ASSUME ~chosen PROVE OriginInv'
  BY DEF OriginInv, BeginClose
<1>. DEFINE w == writer["Language"]
<1>1. w.pending = NoRequest /\ ~Working(w) /\ w.saved = <<>> /\ w \in Writers("Language")
  BY LanguageIsSetting DEF OriginInv, PreferencesInv, Consistent
<1>2. writer'["Language"] = w \/ writer'["Language"] = [w EXCEPT !.shutdown = TRUE]
  BY LanguageIsSetting DEF BeginClose, ShutDown
<1>3. /\ writer'["Language"].pending = NoRequest /\ writer'["Language"].saved = <<>>
      /\ ~Working(writer'["Language"])
  BY <1>1, <1>2 DEF Writers, Working
<1>4. /\ phase \notin {"Off", "Starting"} /\ phase' \notin {"Off", "Starting"} /\ file' = file
      /\ legacy' = legacy /\ chosen' = chosen /\ shown' = shown
  BY DEF BeginClose
<1>5. /\ file'["Language"] = file["Language"] /\ shown'["Language"] = shown["Language"]
      /\ \A i \in Ordinary : file'[i] = file[i] \/ file'[i] # "Missing"
  BY <1>4
<1>. QED  BY <1>3, <1>4, <1>5, OriginKept

LEMMA OffOriginKeeps ==
  ASSUME PreferencesAssumption, PreferencesInv, OriginInv, FinishClose \/ Crash \/ Damage
  PROVE  OriginInv'
<1>1. CASE FinishClose \/ Crash
  <2>1. writer'["Language"] = NoWriter /\ phase' = "Off" /\ UNCHANGED <<file, legacy, chosen>>
    BY <1>1, LanguageIsSetting DEF FinishClose, Crash, Gone
  <2>. QED  BY <2>1 DEF OriginInv, Origin, NoWriter, Working
<1>2. CASE Damage
  <2>1. /\ phase = "Off" /\ phase' = "Off"
        /\ UNCHANGED <<writer, legacy, chosen>>
    BY <1>2 DEF Damage
  <2>2. PICK d \in Setting : Readable(d) /\ file' = [file EXCEPT ![d] = "Unreadable"]
    BY <1>2 DEF Damage
  <2>3. \A k \in Setting : file'[k] = IF k = d THEN "Unreadable" ELSE file[k]
    BY <2>2 DEF PreferencesInv, VariablesTyped
  <2>4. \A k \in Ordinary : file'[k] = "Missing" <=> file[k] = "Missing"
    BY <2>2, <2>3 DEF Setting, Readable
  <2>5. file'["Language"] = file["Language"] \/ file'["Language"] = "Unreadable"
    BY <2>3, LanguageIsSetting
  <2>. QED  BY <2>1, <2>4, <2>5, Zenon DEF OriginInv, Origin
<1>. QED  BY <1>1, <1>2

LEMMA OriginSteps ==
  ASSUME PreferencesAssumption, MaxFaults = 0, PreferencesInv, OriginInv, [Next]_vars
  PROVE  OriginInv'
<1>1. CASE UNCHANGED vars
  BY <1>1 DEF vars, OriginInv, Origin
<1>2. ASSUME NEW k \in Setting, NEW v, Change(k, v) PROVE OriginInv'
  BY <1>2, ChangeOriginKeeps
<1>. QED
  BY <1>1, <1>2, LoadOriginKeeps, StartWritersOriginKeeps, WritesOriginKeeps, DrainOriginKeeps,
    BeginCloseOriginKeeps, OffOriginKeeps
  DEF Next, Setting

LEMMA OriginInvSuffices == ASSUME OriginInv PROVE LanguageOriginKept
BY DEF OriginInv, LanguageOriginKept, Origin

(***************************************************************************)
(* As long as the user chose no language and no save fails, every session  *)
(* shows the one the installation started with: the system's for a new     *)
(* one, Korean for one older than the setting (AppState::new,              *)
(* load_language_or_default).                                              *)
(***************************************************************************)
THEOREM LanguageOriginAlwaysKept ==
  ASSUME PreferencesAssumption, MaxFaults = 0
  PROVE  Spec => []LanguageOriginKept
<1>1. Init => PreferencesInv /\ OriginInv
  BY PreferencesInvInit, OriginInvInit
<1>2. PreferencesInv /\ OriginInv /\ [Next]_vars => PreferencesInv' /\ OriginInv'
  BY PreferencesSteps, OriginSteps
<1>3. OriginInv => LanguageOriginKept
  BY OriginInvSuffices
<1>. QED  BY <1>1, <1>2, <1>3, PTL DEF Spec
====
