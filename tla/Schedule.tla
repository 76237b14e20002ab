------------------------------ MODULE Schedule ------------------------------
(***************************************************************************)
(* build_schedule (rename/schedule.rs): the order in which the rows of a   *)
(* confirmed plan are renamed, one action per iteration of its loops.  A   *)
(* row whose destination is free goes first and frees its source for the   *)
(* row that waits for it; when only cycles remain, the smallest row is     *)
(* moved aside to a temporary name, its cycle is walked, and the row       *)
(* leaves the temporary name last.  A row that changes only the case of    *)
(* its name is a cycle of one.                                             *)
(*                                                                         *)
(* Row i stands for the i-th PlanRow, its EntryId and its file; a key is   *)
(* a PathKey.  The name of a temporary holds a random nonce, so a probe    *)
(* may come up with any key.                                               *)
(***************************************************************************)
EXTENDS Naturals, Sequences, FiniteSets

CONSTANTS
  Keys,                \* directory entries
  None, Foreign,       \* no file, a file outside the plan
  MaxRows,             \* bound on the number of rows
  MAX_TEMP_CANDIDATES  \* probes for one temporary name

ScheduleAssumption ==
  MaxRows \in Nat \ {0} /\ MAX_TEMP_CANDIDATES \in Nat \ {0}

VARIABLES
  plan,      \* plan[i] = [source, destination], the keys of row i
  busy,      \* keys that hold a file outside the plan
  pc,        \* where the function is; its result once it has returned
  pending,   \* rows not scheduled yet (pending, remaining_indices)
  ready,     \* pending rows whose destination is free
  reserved,  \* keys no temporary may take
  pivot,     \* row moved aside, 0 when there is none
  freed,     \* row of the cycle scheduled last
  probes,    \* temporary names tried for the pivot
  schedule   \* the steps so far

vars == <<plan, busy, pc, pending, ready, reserved, pivot, freed, probes, schedule>>

Index == DOMAIN plan

Sources == {plan[i].source : i \in Index}

Destinations == {plan[i].destination : i \in Index}

UniqueSources == \A i, j \in Index : plan[i].source = plan[j].source => i = j

(***************************************************************************)
(* The planner's output: its last checks leave no two rows with one        *)
(* destination, and no destination occupied by a file outside the plan.    *)
(* Sources are unique by identity only, each observed at a moment of its   *)
(* own, so two rows may still name one source key.                         *)
(***************************************************************************)
PlanRows(n) == [1..n -> [source : Keys, destination : Keys]]

UniqueDestinations ==
  \A i, j \in Index : plan[i].destination = plan[j].destination => i = j

Init ==
  /\ \E n \in 1..MaxRows : plan \in PlanRows(n)
  /\ UniqueDestinations
  /\ busy \in SUBSET (Keys \ (Sources \cup Destinations))
  /\ pc = "Build"
  /\ pending = {} /\ ready = {} /\ reserved = {}
  /\ pivot = 0 /\ freed = 0 /\ probes = 0
  /\ schedule = << >>

(***************************************************************************)
(* The row whose destination is the source of row i, 0 when none waits.    *)
(***************************************************************************)
Predecessor(i) ==
  IF \E j \in Index : plan[j].destination = plan[i].source
  THEN CHOOSE j \in Index : plan[j].destination = plan[i].source
  ELSE 0

Least(S) == CHOOSE i \in S : \A j \in S : i <= j

ScheduleStep(i, source, destination, phase) ==
  [entry |-> i, identity |-> i, source |-> source,
   destination |-> destination, phase |-> phase]

direct_step(i) ==
  ScheduleStep(i, plan[i].source, plan[i].destination, "None")

-----------------------------------------------------------------------------
(***************************************************************************)
(* The keys, the owners of the sources and the dependencies.               *)
(***************************************************************************)
\* Mutant: no row waits for the file that is still at its destination.
ReadyAtStartUnordered == Index

ReadyAtStart == {i \in Index : plan[i].destination \notin Sources}

BuildDependencies ==
  /\ pc = "Build"
  /\ pc' = IF UniqueSources THEN "Loop" ELSE "Invalid"
  /\ pending' = Index
  /\ ready' = ReadyAtStart
  /\ reserved' = Sources \cup Destinations
  /\ UNCHANGED <<plan, busy, pivot, freed, probes, schedule>>

Released(i) == {Predecessor(i)} \cap (pending \ {i})

TakeReady ==
  /\ pc = "Loop" /\ ready # {}
  /\ LET i == Least(ready) IN
     IF i \notin pending
     THEN pc' = "Invalid" /\ UNCHANGED <<pending, ready, schedule>>
     ELSE /\ schedule' = Append(schedule, direct_step(i))
          /\ pending' = pending \ {i}
          /\ ready' = (ready \ {i}) \cup Released(i)
          /\ UNCHANGED pc
  /\ UNCHANGED <<plan, busy, reserved, pivot, freed, probes>>

ChoosePivot ==
  /\ pc = "Loop" /\ ready = {} /\ pending # {}
  /\ pivot' = Least(pending)
  /\ probes' = 0
  /\ pc' = "Probe"
  /\ UNCHANGED <<plan, busy, pending, ready, reserved, freed, schedule>>

(***************************************************************************)
(* unique_temporary_path: a name that is reserved or in use is skipped.    *)
(***************************************************************************)
ProbesLeft == probes < MAX_TEMP_CANDIDATES

NextProbe == probes + 1

Available(k) == k \notin reserved /\ k \notin busy

ProbeTemporary(k) ==
  /\ pc = "Probe" /\ ProbesLeft
  /\ probes' = NextProbe
  /\ IF ~Available(k)
     THEN UNCHANGED <<pc, reserved, freed, schedule>>
     ELSE /\ reserved' = reserved \cup {k}
          /\ schedule' = Append(schedule,
               ScheduleStep(pivot, plan[pivot].source, k, "IntoTemporary"))
          /\ freed' = pivot
          /\ pc' = "Cycle"
  /\ UNCHANGED <<plan, busy, pending, ready, pivot>>

TemporaryExhausted ==
  /\ pc = "Probe" /\ ~ProbesLeft
  /\ pc' = "TemporaryExhausted"
  /\ UNCHANGED <<plan, busy, pending, ready, reserved, pivot, freed, probes, schedule>>

CycleWalked == Predecessor(freed) \in {0, pivot}

FollowCycle ==
  /\ pc = "Cycle" /\ ~CycleWalked
  /\ LET i == Predecessor(freed) IN
     IF i \notin pending
     THEN pc' = "Invalid" /\ UNCHANGED <<pending, freed, schedule>>
     ELSE /\ schedule' = Append(schedule, direct_step(i))
          /\ pending' = pending \ {i}
          /\ freed' = i
          /\ UNCHANGED pc
  /\ UNCHANGED <<plan, busy, ready, reserved, pivot, probes>>

CloseCycle ==
  /\ pc = "Cycle" /\ CycleWalked
  /\ LET into == CHOOSE n \in DOMAIN schedule :
                   schedule[n].entry = pivot /\ schedule[n].phase = "IntoTemporary"
     IN  schedule' = Append(schedule,
           ScheduleStep(pivot, schedule[into].destination,
                        plan[pivot].destination, "FromTemporary"))
  /\ pending' = pending \ {pivot}
  /\ pivot' = 0
  /\ freed' = 0
  /\ pc' = "Loop"
  /\ UNCHANGED <<plan, busy, ready, reserved, probes>>

ReturnSchedule ==
  /\ pc = "Loop" /\ pending = {} /\ ready = {}
  /\ pc' = "Ok"
  /\ UNCHANGED <<plan, busy, pending, ready, reserved, pivot, freed, probes, schedule>>

(***************************************************************************)
(* Every loop polls for cancellation, and a probe may fail to observe the  *)
(* directory or find it replaced (Backend, StaleParent).                   *)
(***************************************************************************)
Returned == {"Ok", "Invalid", "TemporaryExhausted", "Cancelled", "Backend"}

Abandon ==
  /\ pc \notin Returned
  /\ \/ pc' = "Cancelled"
     \/ pc = "Probe" /\ pc' = "Backend"
  /\ UNCHANGED <<plan, busy, pending, ready, reserved, pivot, freed, probes, schedule>>

Iterate ==
  \/ BuildDependencies \/ TakeReady \/ ChoosePivot
  \/ \E k \in Keys : ProbeTemporary(k)
  \/ TemporaryExhausted \/ FollowCycle \/ CloseCycle \/ ReturnSchedule

Next == Iterate \/ Abandon

Spec == Init /\ [][Next]_vars

-----------------------------------------------------------------------------
TypeOK ==
  /\ pc \in {"Build", "Loop", "Probe", "Cycle"} \cup Returned
  /\ pending \subseteq Index /\ ready \subseteq Index
  /\ reserved \subseteq Keys
  /\ pivot \in {0} \cup Index /\ freed \in {0} \cup Index
  /\ probes \in 0..MAX_TEMP_CANDIDATES
  /\ schedule \in Seq([entry : Index, identity : Index, source : Keys, destination : Keys,
                       phase : {"None", "IntoTemporary", "FromTemporary"}])

(***************************************************************************)
(* What the keys hold before the first step and after each one, and the    *)
(* manifest the steps make, as the transaction assumes it.                 *)
(***************************************************************************)
Owner(keyOf, k) == CHOOSE i \in Index : keyOf[i] = k

SourceOf == [i \in Index |-> plan[i].source]

DestinationOf == [i \in Index |-> plan[i].destination]

Holding(keyOf) ==
  [k \in Keys |-> IF k \in busy THEN Foreign
                  ELSE IF \E i \in Index : keyOf[i] = k THEN Owner(keyOf, k)
                  ELSE None]

After ==
  LET occ[n \in 0..Len(schedule)] ==
        IF n = 0 THEN Holding(SourceOf)
        ELSE [occ[n - 1] EXCEPT ![schedule[n].source] = None,
                                ![schedule[n].destination] = schedule[n].identity]
  IN  occ

Manifest == INSTANCE Journal WITH
  Entries <- Index, Identities <- Index, RowCount <- Len(plan),
  Rows <- [i \in Index |-> [entry |-> i, identity |-> i, source |-> plan[i].source,
                            destination |-> plan[i].destination]],
  StepCount <- Len(schedule), Steps <- schedule,
  Occ <- [n \in 0..Len(schedule) |->
            [k \in Keys |-> IF After[n][k] = Foreign THEN None ELSE After[n][k]]]

(***************************************************************************)
(* A schedule that was returned is one the journal and recovery can rely   *)
(* on: every step finds its file at its source and its destination free,   *)
(* the first steps alone tell where every file was before, and every row   *)
(* is at its source, under way or at its destination as its steps say.     *)
(***************************************************************************)
ScheduleIsExecutable ==
  pc = "Ok" => Manifest!ValidSteps /\ Manifest!ValidOcc /\ Manifest!ValidRows

(***************************************************************************)
(* Running all of it puts every row at its destination, empties every      *)
(* other key of the plan, leaves no temporary behind and leaves the files  *)
(* of others alone.                                                        *)
(***************************************************************************)
ScheduleRealisesPlan ==
  pc = "Ok" => After[Len(schedule)] = Holding(DestinationOf)

(***************************************************************************)
(* A cycle of the plan is a smallest set of rows whose destinations are    *)
(* exactly their sources.  The schedule spends one temporary name and one  *)
(* extra step on each, and none on a chain, however chains and cycles mix. *)
(***************************************************************************)
Rotates(C) ==
  C # {} /\ {plan[i].destination : i \in C} = {plan[i].source : i \in C}

Cycles ==
  {C \in SUBSET Index : Rotates(C) /\ \A D \in SUBSET C : Rotates(D) => D = C}

OneTemporaryPerCycle ==
  pc = "Ok" =>
    /\ Len(schedule) = Len(plan) + Cardinality(Cycles)
    /\ \A C \in Cycles : \E i \in C :
         {n \in DOMAIN schedule : schedule[n].phase = "IntoTemporary"
                                  /\ schedule[n].entry \in C}
         = {n \in DOMAIN schedule : schedule[n].phase = "IntoTemporary"
                                  /\ schedule[n].entry = i}

(***************************************************************************)
(* The Invalid results inside the loops are never met: a plan is refused   *)
(* as Invalid exactly when two of its rows name one source.                *)
(***************************************************************************)
InvalidOnlyForSharedSource ==
  /\ pc = "Invalid" => ~UniqueSources
  /\ pc = "Ok" => UniqueSources

-----------------------------------------------------------------------------
(***************************************************************************)
(* What the user is told before a plan is confirmed                        *)
(* (ApplyConfirmationSummary in lib.rs): the planning worker schedules the *)
(* plan and counts its rows, and the dialog is filled from the counts.     *)
(*                                                                         *)
(* A key is a pair of a parent and a leaf.  A row's destination may spell  *)
(* the name of either differently; the source is spelled as it is stored.  *)
(* The schedule goes by keys alone, so the spelling is chosen at its end.  *)
(***************************************************************************)
VARIABLES
  spelling,   \* spelling[i]: how row i's destination spells its parent and its leaf
  summary     \* the result of from_plan

confirmVars == <<vars, spelling, summary>>

Pending == [state |-> "Pending"]
Refused == [state |-> "Refused"]

Parent(k) == k[1]
Leaf(k)   == k[2]

\* A row of a plan changes something: its key, or the spelling of its path.
Changes(i, s) == plan[i].source # plan[i].destination \/ s.parent # 0 \/ s.leaf # 0

ConfirmInit ==
  /\ Init
  /\ spelling = << >>
  /\ summary = Pending

-----------------------------------------------------------------------------
\* from_plan: the parents are compared by key, the leaves by their text.
Moved(i) == Parent(plan[i].source) # Parent(plan[i].destination)

Renamed(i, s) ==
  \/ Leaf(plan[i].source) # Leaf(plan[i].destination)
  \/ s[i].leaf # 0

CaseOnly(i) == plan[i].source = plan[i].destination

\* The text of a destination's parent.
DestinationParent(i, s) == <<Parent(plan[i].destination), s[i].parent>>

\* Empty when the rows go to differently written parents.
CommonParent(s) ==
  IF \A i \in Index : DestinationParent(i, s) = DestinationParent(1, s)
  THEN <<DestinationParent(1, s)>>
  ELSE << >>

Count(S) == Cardinality(S)

TemporaryGroups(steps, changed) == steps - changed

\* from_counts refuses counts that contradict each other.
from_counts(rename, move, both, parent, caseOnly, steps) ==
  LET changed == rename + move + both
  IN  IF caseOnly > changed \/ steps < changed THEN Refused
      ELSE [state |-> "Ready",
            logical_changed |-> changed,
            rename_only |-> rename, move_only |-> move, move_and_rename |-> both,
            common_destination_parent |-> parent,
            case_only |-> caseOnly,
            temporary_groups |-> TemporaryGroups(steps, changed),
            primitive_steps |-> steps]

NothingChanged(i, s) == ~Moved(i) /\ ~Renamed(i, s)

from_plan(s) ==
  IF \E i \in Index : NothingChanged(i, s) THEN Refused
  ELSE from_counts(Count({i \in Index : ~Moved(i) /\ Renamed(i, s)}),
                   Count({i \in Index : Moved(i) /\ ~Renamed(i, s)}),
                   Count({i \in Index : Moved(i) /\ Renamed(i, s)}),
                   CommonParent(s),
                   Count({i \in Index : CaseOnly(i)}),
                   Len(schedule))

\* The planning worker summarises the plan once its preflight has succeeded.
Summarise ==
  /\ pc = "Ok" /\ summary = Pending
  /\ spelling' \in {s \in [Index -> [parent : 0..1, leaf : 0..1]] :
                       \A i \in Index : Changes(i, s[i])}
  /\ summary' = from_plan(spelling')
  /\ UNCHANGED vars

ConfirmNext ==
  \/ Next /\ UNCHANGED <<spelling, summary>>
  \/ Summarise

ConfirmSpec == ConfirmInit /\ [][ConfirmNext]_confirmVars

-----------------------------------------------------------------------------
\* ApplyConfirmationSummary::cycle_groups.
cycle_groups(s) ==
  IF s.temporary_groups > s.case_only THEN s.temporary_groups - s.case_only ELSE 0

\* apply_confirmation_primary: the headline, its breakdown and the folder.
Headline(s) ==
  CASE s.rename_only = s.logical_changed -> "rename"
    [] s.move_only = s.logical_changed -> "move"
    [] s.move_and_rename = s.logical_changed -> "move and rename"
    [] OTHER -> "change"

Breakdown(s) ==
  LET counts == <<s.rename_only, s.move_only, s.move_and_rename>>
  IN  IF Count({k \in 1..3 : counts[k] # 0}) > 1 THEN counts ELSE <<0, 0, 0>>

FolderLine(s) ==
  CASE s.move_only = 0 /\ s.move_and_rename = 0 -> <<"none">>
    [] s.common_destination_parent # << >> -> <<"folder", s.common_destination_parent[1]>>
    [] OTHER -> <<"check each">>

\* apply_confirmation_detail: its optional lines.
Detail(s) ==
  [case_only |-> s.case_only,
   cycle_groups |-> cycle_groups(s),
   filesystem_steps |-> IF s.primitive_steps = s.logical_changed THEN 0 ELSE s.primitive_steps]

-----------------------------------------------------------------------------
Ready == summary.state = "Ready"

(***************************************************************************)
(* The cycles the details report are the cycles of the plan that involve   *)
(* several files, and the case-only changes those that involve one,        *)
(* although the summary only sees how many steps the schedule has.         *)
(***************************************************************************)
CyclesAreCounted ==
  Ready =>
    /\ Detail(summary).cycle_groups = Count({C \in Cycles : Count(C) > 1})
    /\ Detail(summary).case_only = Count({C \in Cycles : Count(C) = 1})

(***************************************************************************)
(* A plan that could be scheduled is refused a confirmation only when one  *)
(* of its rows does nothing but respell its folder.                        *)
(***************************************************************************)
RefusedOnlyForFolderSpelling ==
  summary = Refused <=>
    /\ summary # Pending
    /\ \E i \in Index : /\ plan[i].source = plan[i].destination
                        /\ spelling[i].leaf = 0

(***************************************************************************)
(* A headline that names one kind of change is true of every row, and      *)
(* otherwise the breakdown adds up to all of them.                         *)
(***************************************************************************)
HeadlineTrueOfEveryRow ==
  Ready =>
    LET b == Breakdown(summary)
    IN  CASE Headline(summary) = "rename" -> \A i \in Index : ~Moved(i)
          [] Headline(summary) = "move" -> \A i \in Index : Moved(i) /\ ~Renamed(i, spelling)
          [] Headline(summary) = "move and rename" -> \A i \in Index : Moved(i) /\ Renamed(i, spelling)
          [] OTHER -> b[1] + b[2] + b[3] = Len(plan)

(***************************************************************************)
(* A folder shown as the destination is where every single row goes, in    *)
(* that spelling; it is left open only when the rows really differ.        *)
(***************************************************************************)
FolderIsEveryRows ==
  Ready =>
    CASE FolderLine(summary)[1] = "none" -> \A i \in Index : ~Moved(i)
      [] FolderLine(summary)[1] = "folder" ->
           \A i \in Index : DestinationParent(i, spelling) = FolderLine(summary)[2]
      [] OTHER -> Count({DestinationParent(i, spelling) : i \in Index}) > 1
=============================================================================
