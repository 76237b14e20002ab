---------------------------- MODULE IconPipeline ----------------------------
(***************************************************************************)
(* Shell icons for the list: the icon thread, the request slots it shares  *)
(* with the UI thread behind a mutex the UI thread only ever tries, the    *)
(* wakes between the two threads, either of which can be lost, and the     *)
(* UI's polling: bounded delivery batches, sweeps over the rows, a cache   *)
(* that forgets everything when it is full, a refresh that starts a new    *)
(* generation, and the retirement of the thread when the window closes.    *)
(***************************************************************************)
EXTENDS Naturals, Sequences, FiniteSets

-----------------------------------------------------------------------------
(***************************************************************************)
(* The bounded request slots between the list and the Shell icon thread:   *)
(* queued, in flight and completed requests of the current generation,     *)
(* with at most one request per icon class. Operators on one record; the   *)
(* mutex around it is further down.                                        *)
(***************************************************************************)
CONSTANTS
  Class,          \* icon classes (IconCacheKey)
  MaxPending,     \* MAX_PENDING_ICON_REQUESTS
  MaxSerial,      \* where next_serial.checked_add fails
  MaxGeneration   \* where generation.checked_add fails

IconRequestsAssumption ==
  /\ MaxPending \in Nat \ {0} /\ MaxSerial \in Nat /\ MaxGeneration \in Nat
  /\ "Bootstrap" \notin Class

Key == Class \cup {"Bootstrap"}
Request == [key : Key, generation : 0..MaxGeneration, serial : 1..MaxSerial]

NewRequests ==
  [generation |-> 0, next_serial |-> 0, queued |-> <<>>, in_flight |-> <<>>,
   completed |-> <<>>, retired |-> FALSE]

Keys(s) == {s[i].key : i \in 1..Len(s)}

pending_count(r) == Len(r.queued) + Len(r.in_flight) + Len(r.completed)

submit_disposition(r, key) ==
  IF r.retired THEN "Retired"
  ELSE IF key \in Keys(r.in_flight)
    THEN IF r.in_flight[1].generation = r.generation THEN "Coalesced" ELSE "DeferredStaleInFlight"
  ELSE IF key \in Keys(r.queued) \cup Keys(r.completed) THEN "Coalesced"
  ELSE IF pending_count(r) = MaxPending THEN "Saturated"
  ELSE IF r.next_serial = MaxSerial THEN "IdentifierExhausted"
  ELSE "Queued"

submit(r, key) ==
  IF submit_disposition(r, key) # "Queued" THEN r
  ELSE [r EXCEPT !.next_serial = @ + 1,
                 !.queued = Append(@, [key |-> key, generation |-> r.generation,
                                       serial |-> r.next_serial + 1])]

CanTake(r) == ~r.retired /\ r.in_flight = <<>> /\ r.queued # <<>>

take_next(r) ==
  IF CanTake(r) THEN [r EXCEPT !.in_flight = <<Head(r.queued)>>, !.queued = Tail(@)] ELSE r

\* Mutant: a result of an older generation is published.
complete_Stale(r) ==
  IF r.retired THEN [r EXCEPT !.in_flight = <<>>]
  ELSE [r EXCEPT !.in_flight = <<>>, !.completed = Append(@, r.in_flight[1])]

\* The call in flight returns; only a result of this generation is published.
complete(r) ==
  IF r.retired \/ r.in_flight[1].generation # r.generation
  THEN [r EXCEPT !.in_flight = <<>>]
  ELSE [r EXCEPT !.in_flight = <<>>, !.completed = Append(@, r.in_flight[1])]

acknowledge(r, count) ==
  [r EXCEPT !.completed = IF count >= Len(@) THEN <<>> ELSE SubSeq(@, count + 1, Len(@))]

retire(r) == [r EXCEPT !.retired = TRUE, !.queued = <<>>, !.completed = <<>>]

\* Exhausted identifiers retire the state: then there are no more icons.
advance_generation(r) ==
  IF r.retired THEN r
  ELSE IF r.generation = MaxGeneration THEN retire(r)
  ELSE [r EXCEPT !.generation = @ + 1, !.queued = <<>>, !.completed = <<>>]

AdvanceFails(r) == r.retired \/ r.generation = MaxGeneration

-----------------------------------------------------------------------------
CONSTANTS
  Rows,           \* number of list rows
  Chunk,          \* rows visited per poll (256)
  CacheLimit,     \* MAX_ICON_CACHE_ENTRIES
  MaxRefreshes,   \* bound on list refreshes
  MaxLost         \* bound on lost posts

IconPipelineAssumption ==
  /\ Rows \in Nat \ {0} /\ Chunk \in Nat \ {0} /\ CacheLimit \in Nat \ {0}
  /\ MaxRefreshes \in Nat /\ MaxLost \in Nat

VARIABLES
  requests,       \* IconRequests, behind the mutex
  retiring, wake_enabled, ui_wake_pending, unavailable,   \* atomics of IconShared
  work_pending,   \* WorkWake.pending
  work_wake,      \* WM_APP_ICON_WORK is in the worker's queue
  ui_wake,        \* WM_APP_ICON_WAKE is in the UI thread's queue
  lost, refreshes,
  worker,         \* where the icon thread is
  joined,         \* the guardian joined the thread
  key,            \* row -> its icon class
  resolved,       \* row -> icon_resolved
  attached,       \* icon_image_list is set
  cache,          \* icon_cache
  batch, ack,     \* icon_delivery_batch, icon_delivery_ack_count
  reconcile, demand, cursor,   \* icon_reconcile_remaining, icon_demand_scan_remaining, cursor
  continue_posted, timer, close_pending,
  poll            \* the poll in progress: [at, visits, reconciling, had, productive, busy]

sharedVars == <<requests, retiring, wake_enabled, ui_wake_pending, unavailable, work_pending>>
queueVars == <<work_wake, ui_wake, lost, refreshes>>
rowVars == <<key, resolved, attached, cache>>
scanVars == <<batch, ack, reconcile, demand, cursor, continue_posted, timer>>
vars == <<sharedVars, queueVars, worker, joined, rowVars, scanVars, close_pending, poll>>

Idle == [at |-> "Idle", visits |-> 0, reconciling |-> FALSE, had |-> FALSE,
         productive |-> FALSE, busy |-> FALSE]

Row == 0..Rows - 1
Unresolved == Cardinality({i \in Row : ~resolved[i]})

TypeOK ==
  /\ requests.generation \in 0..MaxGeneration /\ requests.next_serial \in 0..MaxSerial
  /\ requests.queued \in Seq(Request) /\ requests.in_flight \in Seq(Request)
  /\ requests.completed \in Seq(Request)
  /\ Len(requests.in_flight) <= 1 /\ pending_count(requests) <= MaxPending
  /\ {retiring, wake_enabled, ui_wake_pending, unavailable, work_pending, work_wake, ui_wake,
      joined, attached, continue_posted, timer, close_pending} \subseteq BOOLEAN
  /\ worker \in {"Init", "Pump", "Next", "Query", "Publish", "Wait", "Ended"}
  /\ key \in [Row -> Class] /\ resolved \in [Row -> BOOLEAN]
  /\ cache \subseteq Class /\ Cardinality(cache) <= CacheLimit
  /\ batch \subseteq Class /\ ack \in 0..MaxPending
  /\ reconcile \in 0..Rows /\ demand \in 0..Rows /\ cursor \in Row
  /\ poll.at \in {"Idle", "Snapshot", "Visit", "Tail"} /\ poll.visits \in 0..Rows

Init ==
  /\ requests = submit(NewRequests, "Bootstrap")
  /\ retiring = FALSE /\ wake_enabled = TRUE /\ ui_wake_pending = FALSE
  /\ unavailable = FALSE /\ work_pending = FALSE
  /\ work_wake = FALSE /\ ui_wake = FALSE /\ lost = 0 /\ refreshes = 0
  /\ worker = "Init" /\ joined = FALSE
  /\ key \in [Row -> Class] /\ resolved = [i \in Row |-> FALSE]
  /\ attached = FALSE /\ cache = {}
  /\ batch = {} /\ ack = 0 /\ reconcile = 0 /\ demand = Rows /\ cursor = 0
  /\ continue_posted = FALSE /\ timer = TRUE /\ close_pending = FALSE
  /\ poll = Idle

-----------------------------------------------------------------------------
(***************************************************************************)
(* Wakes. A post can fail; then only the timer, or the worker's finite     *)
(* wait, is left.                                                          *)
(***************************************************************************)
Lossy(queue) ==
  \/ queue' = TRUE /\ UNCHANGED lost
  \/ lost < MaxLost /\ lost' = lost + 1 /\ UNCHANGED queue

signal_worker ==
  IF worker # "Ended" /\ ~work_pending
  THEN work_pending' = TRUE /\ Lossy(work_wake)
  ELSE UNCHANGED <<work_pending, work_wake, lost>>

NoSignal == UNCHANGED <<work_pending, work_wake, lost>>

signal_ui ==
  IF wake_enabled /\ ~ui_wake_pending
  THEN ui_wake_pending' = TRUE /\ Lossy(ui_wake)
  ELSE UNCHANGED <<ui_wake_pending, ui_wake, lost>>

\* The UI thread's try_lock fails only while the worker is in a section.
TryLock == IF worker \in {"Next", "Publish"} THEN BOOLEAN ELSE {TRUE}

\* request_retire by the UI thread, the state's part
Retire(got) ==
  /\ retiring' = TRUE /\ wake_enabled' = FALSE
  /\ requests' = IF got THEN retire(requests) ELSE requests

-----------------------------------------------------------------------------
(***************************************************************************)
(* The icon thread: worker_loop.                                           *)
(***************************************************************************)
uiSide == <<joined, rowVars, scanVars, close_pending, poll, refreshes>>

\* COM starts, or the thread gives up for good.
WorkerInit ==
  /\ worker = "Init"
  /\ \/ worker' = "Pump" /\ UNCHANGED <<sharedVars, ui_wake, lost>>
     \/ /\ worker' = "Ended" /\ unavailable' = TRUE
        /\ Retire(TRUE)
        /\ UNCHANGED <<ui_wake_pending, work_pending, ui_wake, lost>>
  /\ UNCHANGED <<work_wake, uiSide>>

\* pump_worker_messages; WM_QUIT in the worker's queue retires.
Pump ==
  /\ worker = "Pump"
  /\ worker' = "Next" /\ work_wake' = FALSE /\ work_pending' = FALSE
  /\ UNCHANGED <<requests, retiring, wake_enabled, ui_wake_pending, unavailable, ui_wake, lost, uiSide>>

NextRequest ==
  /\ worker = "Next"
  /\ IF retiring
     THEN requests' = retire(requests) /\ worker' = "Ended"
     ELSE /\ requests' = take_next(requests)
          /\ worker' = IF CanTake(requests) THEN "Query" ELSE "Wait"
  /\ UNCHANGED <<retiring, wake_enabled, ui_wake_pending, unavailable, work_pending,
                 work_wake, ui_wake, lost, uiSide>>

\* SHGetFileInfoW returns.
Query ==
  /\ worker = "Query" /\ worker' = "Publish"
  /\ UNCHANGED <<sharedVars, work_wake, ui_wake, lost, uiSide>>

\* publish; a bootstrap without an image list ends the service.
Publish ==
  /\ worker = "Publish"
  /\ worker' = "Pump"
  /\ signal_ui
  /\ \/ /\ requests' = complete(IF retiring THEN retire(requests) ELSE requests)
        /\ UNCHANGED <<retiring, wake_enabled, unavailable>>
     \/ /\ requests.in_flight[1].key = "Bootstrap"
        /\ requests' = retire(complete(requests))
        /\ unavailable' = TRUE /\ retiring' = TRUE /\ wake_enabled' = FALSE
  /\ UNCHANGED <<work_pending, work_wake, uiSide>>

\* A message or the idle interval ends the wait.
Wait ==
  /\ worker = "Wait" /\ worker' = "Pump"
  /\ UNCHANGED <<sharedVars, work_wake, ui_wake, lost, uiSide>>

Worker == WorkerInit \/ Pump \/ NextRequest \/ Query \/ Publish \/ Wait

-----------------------------------------------------------------------------
(***************************************************************************)
(* poll_icon_work: acknowledge the last batch, take the next one, visit a  *)
(* chunk of rows, arrange the next poll.                                   *)
(***************************************************************************)
\* schedule_icon_poll
Scheduled(rows_left, r, closing) ==
  timer' = IF closing THEN ~joined ELSE rows_left # 0 \/ pending_count(r) # 0

Open == poll.at = "Idle" /\ ~close_pending
Started == [Idle EXCEPT !.at = "Snapshot"]

\* The acknowledgement; a busy lock leaves it for the timer.
BeginPoll(got) ==
  IF ack # 0 /\ reconcile = 0
  THEN IF got
       THEN /\ requests' = acknowledge(requests, ack)
            /\ batch' = {} /\ ack' = 0 /\ demand' = Rows
            /\ poll' = Started
            /\ UNCHANGED timer
       ELSE /\ poll' = Idle
            /\ Scheduled(Unresolved, requests, FALSE)
            /\ UNCHANGED <<requests, batch, ack, demand>>
  ELSE poll' = Started /\ UNCHANGED <<requests, batch, ack, demand, timer>>

PollWith(posted, got) ==
  /\ Open
  /\ continue_posted' = posted
  /\ BeginPoll(got)
  /\ IF requests' # requests THEN signal_worker ELSE NoSignal
  /\ UNCHANGED <<retiring, wake_enabled, ui_wake_pending, unavailable, refreshes,
                 worker, rowVars, reconcile, cursor, close_pending>>

Poll(posted) == \E got \in TryLock : PollWith(posted, got)

\* The thread's wake, the poll timer, WM_APP_ICON_CONTINUE. The first two
\* also join a thread that has ended.
Join == joined' = (joined \/ worker = "Ended")
PollOnWake == ui_wake /\ ui_wake' = FALSE /\ Join /\ Poll(continue_posted)
PollOnTimer == timer /\ Join /\ Poll(continue_posted) /\ UNCHANGED ui_wake
PollOnContinue == continue_posted /\ Poll(FALSE) /\ UNCHANGED <<ui_wake, joined>>

\* cache_icon_index for every class of the batch in turn
Cached(c, classes) ==
  IF classes \subseteq c THEN {c}
  ELSE IF Cardinality(c \cup classes) <= CacheLimit THEN {c \cup classes}
  ELSE {s \in SUBSET (c \cup classes) : s # {} /\ Cardinality(s) <= CacheLimit /\ s \cap classes # {}}

Delivered(classes) == classes

\* snapshot_completions and the visit plan
SnapshotWith(got) ==
  /\ poll.at = "Snapshot"
  /\ ui_wake_pending' = IF ack = 0 THEN FALSE ELSE ui_wake_pending
  /\ LET taken == IF ack = 0 /\ got THEN requests.completed ELSE <<>>
         classes == Keys(taken) \ {"Bootstrap"}
         had == taken # <<>>
         left == IF had THEN Rows ELSE reconcile
         plan == IF left # 0 THEN left
                 ELSE IF ~had /\ pending_count(requests) = MaxPending THEN 0
                 ELSE demand
     IN  /\ ack' = IF had THEN Len(taken) ELSE ack
         /\ attached' = (attached \/ "Bootstrap" \in Keys(taken))
         /\ cache' \in Cached(cache, classes)
         /\ batch' = batch \cup Delivered(classes)
         /\ reconcile' = left
         /\ cursor' = IF had THEN 0 ELSE cursor
         /\ poll' = [at |-> "Visit", visits |-> IF plan < Chunk THEN plan ELSE Chunk,
                     reconciling |-> left # 0, had |-> had, productive |-> had, busy |-> FALSE]
  /\ UNCHANGED <<requests, retiring, wake_enabled, unavailable, work_pending, queueVars,
                 worker, joined, key, resolved, demand, continue_posted, timer, close_pending>>

Snapshot == \E got \in TryLock : SnapshotWith(got)

Known(i) == key[i] \in batch \cup cache
Unavailable == unavailable \/ retiring

\* One row: serve it, or ask for its class.
VisitWith(got) ==
  /\ poll.at = "Visit" /\ poll.visits > 0
  /\ cursor' = (cursor + 1) % Rows
  /\ reconcile' = IF poll.reconciling THEN reconcile - 1 ELSE reconcile
  /\ demand' = IF poll.reconciling \/ demand = 0 THEN demand ELSE demand - 1
  /\ IF resolved[cursor] \/ Known(cursor) \/ Unavailable
     THEN /\ resolved' = [resolved EXCEPT ![cursor] = TRUE]
          /\ poll' = [poll EXCEPT !.visits = @ - 1, !.productive = @ \/ ~resolved[cursor]]
          /\ UNCHANGED requests /\ NoSignal
     ELSE IF poll.reconciling
       THEN poll' = [poll EXCEPT !.visits = @ - 1] /\ UNCHANGED <<requests, resolved>> /\ NoSignal
     ELSE LET asked == IF got THEN submit(requests, key[cursor]) ELSE requests
          IN  /\ requests' = asked
              /\ IF asked # requests THEN signal_worker ELSE NoSignal
              /\ poll' = [poll EXCEPT !.visits = @ - 1, !.productive = @ \/ asked # requests,
                                      !.busy = @ \/ ~got]
              /\ UNCHANGED resolved
  /\ UNCHANGED <<retiring, wake_enabled, ui_wake_pending, unavailable, ui_wake, refreshes,
                 worker, joined, key, attached, cache, batch, ack, continue_posted, timer,
                 close_pending>>

Visit == \E got \in TryLock : VisitWith(got)

VisitsDone ==
  /\ poll.at = "Visit" /\ poll.visits = 0
  /\ poll' = [poll EXCEPT !.at = "Tail"]
  /\ UNCHANGED <<sharedVars, queueVars, worker, joined, rowVars, scanVars, close_pending>>

\* Mutant: a demand scan that ran dry is not started again.
Renewed_Never(scan, r) == FALSE

\* Every request is answered, every row was visited, and icons are missing.
Renewed(scan, r) == Unresolved # 0 /\ reconcile = 0 /\ scan = 0 /\ pending_count(r) = 0

\* The acknowledgement after a sweep, the next chunk, the fallback timer.
EndPollWith(got) ==
  /\ poll.at = "Tail"
  /\ poll' = Idle
  /\ LET acked == reconcile = 0 /\ ack # 0 /\ got
         r == IF acked THEN acknowledge(requests, ack) ELSE requests
         scan == IF Unresolved = 0 THEN 0 ELSE IF acked THEN Rows ELSE demand
         again == Renewed(scan, r)
         more == \/ poll.productive \/ reconcile # 0
                 \/ scan # 0 /\ (pending_count(r) < MaxPending \/ Unavailable)
     IN  /\ requests' = r
         /\ IF acked THEN batch' = {} /\ ack' = 0 /\ signal_worker
            ELSE UNCHANGED <<batch, ack>> /\ NoSignal
         /\ demand' = IF again THEN Rows ELSE scan
         /\ continue_posted' \in
              IF ~poll.busy /\ ~again /\ more /\ Unresolved # 0 /\ ~continue_posted
              THEN BOOLEAN ELSE {continue_posted}
         /\ Scheduled(Unresolved, r, close_pending)
  /\ UNCHANGED <<retiring, wake_enabled, ui_wake_pending, unavailable, ui_wake, refreshes,
                 worker, joined, rowVars, reconcile, cursor, close_pending>>

EndPoll == \E got \in TryLock : EndPollWith(got)

-----------------------------------------------------------------------------
MayAdvance(got) == attached /\ got

\* refresh_all_rows: a new generation, then every row is rendered again. A row
\* keeps its icon when its class did not change; a missing one is asked for.
RowsSubmitted(r, keys, kept) ==
  LET next[i \in 0..Rows] ==
        IF i = 0 THEN r
        ELSE IF kept[i - 1] THEN next[i - 1]
        ELSE submit(next[i - 1], keys[i - 1])
  IN  next[Rows]

Refresh ==
  /\ Open
  /\ refreshes < MaxRefreshes /\ refreshes' = refreshes + 1
  /\ \E keys \in [Row -> Class] : \E advance, got \in TryLock :
       LET r1 == IF MayAdvance(advance) THEN advance_generation(requests) ELSE requests
           dead == unavailable \/ (MayAdvance(advance) /\ AdvanceFails(requests))
           known == [i \in Row |-> keys[i] \in cache \/ (resolved[i] /\ key[i] = keys[i])]
           r2 == IF got /\ ~retiring /\ ~dead THEN RowsSubmitted(r1, keys, known) ELSE r1
           done == [i \in Row |-> known[i] \/ retiring \/ dead]
           missing == Cardinality({i \in Row : ~done[i]})
       IN  /\ key' = keys /\ resolved' = done
           /\ requests' = r2
           /\ unavailable' = dead
           /\ batch' = IF MayAdvance(advance) THEN {} ELSE batch
           /\ ack' = IF MayAdvance(advance) THEN 0 ELSE ack
           /\ reconcile' = IF missing # 0 /\ ack' # 0 THEN Rows ELSE 0
           /\ demand' = IF missing = 0 THEN 0 ELSE Rows
           /\ cursor' = 0 /\ continue_posted' = FALSE
           /\ Scheduled(missing, r2, FALSE)
           /\ IF requests' # requests THEN signal_worker ELSE NoSignal
  /\ UNCHANGED <<retiring, wake_enabled, ui_wake_pending, ui_wake, worker, joined, attached,
                 cache, close_pending, poll>>

-----------------------------------------------------------------------------
\* request_window_close: the thread is retired, the timer waits for its join.
RequestClose ==
  /\ poll.at = "Idle" /\ ~close_pending
  /\ close_pending' = TRUE
  /\ \E got \in TryLock : Retire(got)
  /\ timer' = ~joined
  /\ signal_worker
  /\ UNCHANGED <<ui_wake_pending, unavailable, ui_wake, refreshes, worker, joined, rowVars,
                 batch, ack, reconcile, demand, cursor, continue_posted, poll>>

\* While the window closes a poll only looks for the end of the thread.
PollClosing ==
  /\ close_pending /\ poll.at = "Idle"
  /\ \/ timer /\ UNCHANGED <<ui_wake, continue_posted>>
     \/ ui_wake /\ ui_wake' = FALSE /\ UNCHANGED continue_posted
  /\ Join
  /\ timer' = ~joined'
  /\ UNCHANGED <<sharedVars, work_wake, lost, refreshes, worker, rowVars, batch, ack, reconcile,
                 demand, cursor, close_pending, poll>>

UI == \/ PollOnWake \/ PollOnTimer \/ PollOnContinue \/ Snapshot \/ Visit \/ VisitsDone
      \/ EndPoll \/ PollClosing

Next == Worker \/ UI \/ Refresh \/ RequestClose

Spec == Init /\ [][Next]_vars

-----------------------------------------------------------------------------
Outstanding == requests.queued \o requests.in_flight \o requests.completed

(***************************************************************************)
(* Results the UI can see belong to the current generation, also when the  *)
(* call in flight outlived a refresh.                                      *)
(***************************************************************************)
NoStaleResult ==
  \A i \in 1..Len(requests.completed) : requests.completed[i].generation = requests.generation

(***************************************************************************)
(* One class is asked of the Shell at most once at a time, whatever the    *)
(* order of refreshes, submits and late results.                           *)
(***************************************************************************)
OneRequestPerClass ==
  \A i, j \in 1..Len(Outstanding) : Outstanding[i].key = Outstanding[j].key => i = j

(***************************************************************************)
(* What the UI will acknowledge is still the front of the completed        *)
(* results: a refresh in between never makes it drop an undelivered one.   *)
(***************************************************************************)
AckIsDelivered ==
  ~requests.retired =>
    /\ ack <= Len(requests.completed)
    /\ \A i \in 1..ack : requests.completed[i].key \in batch \cup {"Bootstrap"}

(***************************************************************************)
(* The image list can still arrive: its request is never swept away by a   *)
(* refresh that comes before it was delivered.                             *)
(***************************************************************************)
BootstrapSurvives ==
  ~attached /\ ~requests.retired => "Bootstrap" \in Keys(Outstanding)

(***************************************************************************)
(* As long as an icon is missing and the window stays, something will call *)
(* the poll again.                                                         *)
(***************************************************************************)
MissingIconsAreWatched == poll.at = "Idle" /\ ~close_pending /\ Unresolved # 0 => timer

=============================================================================
