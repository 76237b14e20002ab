------------------------------- MODULE Planner -------------------------------
(***************************************************************************)
(* RenamePlanner::plan_cancellable: from the rows of the list to a plan of *)
(* observed entries, or to the blockers that forbid one.                   *)
(*                                                                         *)
(* A step is one pure pass over the rows, or one row's call of the         *)
(* backend: other processes may change the disk between two calls, a call  *)
(* may fail, and the user may cancel before any of them.                   *)
(***************************************************************************)
EXTENDS Namespace

CONSTANTS
  Requests,             \* the lists a plan may be asked for
  Worlds,               \* the disks they may be asked on
  InvalidNames,         \* leaf names Windows refuses
  MAX_PLAN_PATH_DEPTH,
  MaxFaults,            \* bound on failing backend calls
  MaxDisturbances       \* bound on the changes of other processes

VARIABLES
  world, request,
  pc,           \* the pass that runs next
  k,            \* the row (or endpoint) that pass is at
  issues,       \* blockers found so far: pairs of row and kind
  source,       \* the resolved source of the row being observed
  rows,         \* the plan's rows
  seen,         \* snapshots of the unchanged rows
  outcome,      \* "None", "Planned", "Refused" or "Cancelled"
  cancel, faults, disturbances

vars == <<world, request, pc, k, issues, source, rows, seen, outcome, cancel, faults,
          disturbances>>

Destination(i) == Append(i.parent, i.name)
Changed        == SelectSeq(request, LAMBDA i : i.source # Destination(i))
Unchanged      == SelectSeq(request, LAMBDA i : i.source = Destination(i))
Elements(s)    == {s[n] : n \in 1..Len(s)}

\* The movement the list asks for: between directories as soon as one row moves.
Scope ==
  IF \E i \in Elements(request) : i.parent # Parent(i.source)
  THEN "SameVolumeFilesOnly" ELSE "SameParent"

Init ==
  /\ world \in Worlds
  /\ request \in Requests
  /\ pc = "Validate"
  /\ k = 1
  /\ issues = {}
  /\ source = <<>>
  /\ rows = <<>>
  /\ seen = <<>>
  /\ outcome = "None"
  /\ cancel = FALSE
  /\ faults = 0
  /\ disturbances = 0

(***************************************************************************)
(* A pass that found a blocker ends the planning at its end, not before.   *)
(***************************************************************************)
Leave(next, found) ==
  /\ issues' = found
  /\ k' = 1
  /\ IF found = {} THEN pc' = next /\ UNCHANGED outcome
                   ELSE pc' = "Done" /\ outcome' = "Refused"

Advance(last, next, found) ==
  IF k < last
  THEN k' = k + 1 /\ pc' = pc /\ issues' = found /\ UNCHANGED outcome
  ELSE Leave(next, found)

At(pass) == pc = pass /\ ~cancel /\ UNCHANGED <<request, cancel, world, disturbances>>

(***************************************************************************)
(* A backend call answers what the disk holds, or fails.                   *)
(***************************************************************************)
Answers(truth) == {truth} \cup (IF faults < MaxFaults THEN {Failed("Io")} ELSE {})

Spend(answer) == faults' = IF answer = Failed("Io") THEN faults + 1 ELSE faults

\* An error other than "not found".
Bad(s) == s.err \notin {"None", "NotFound"}

(***************************************************************************)
(* Blockers of the texts alone.                                            *)
(***************************************************************************)
validate_source_path(i) ==
  (IF path_component_depth(i.source) > MAX_PLAN_PATH_DEPTH
   THEN {<<i.id, "PathTooDeep">>} ELSE {})
  \cup (IF is_absolute_windows_path(i.source) THEN {} ELSE {<<i.id, "RelativeSource">>})

validate_intent(i) ==
  validate_source_path(i)
  \cup (IF path_component_depth(i.parent) > MAX_PLAN_PATH_DEPTH
        THEN {<<i.id, "PathTooDeep">>} ELSE {})
  \cup (IF is_absolute_windows_path(i.parent)
        THEN {} ELSE {<<i.id, "RelativeDestinationParent">>})
  \cup (IF i.name \in InvalidNames THEN {<<i.id, "InvalidDestinationName">>} ELSE {})

Validate ==
  /\ At("Validate")
  /\ Leave(IF Changed = <<>> THEN "Finish" ELSE "Environment",
           UNION {validate_intent(i) : i \in Elements(Changed)}
           \cup IF Changed = <<>> THEN {}
                ELSE UNION {validate_source_path(i) : i \in Elements(Unchanged)})
  /\ UNCHANGED <<source, rows, seen, faults>>

(***************************************************************************)
(* The parents of both ends of every changed row must be directories that  *)
(* safe v1 supports.                                                       *)
(***************************************************************************)
path_environment_issue(err) ==
  CASE err = "CaseSensitive"         -> "UnsupportedCaseSensitiveParent"
    [] err = "UnsupportedPath"       -> "UnsupportedWindowsPath"
    [] err = "UnsupportedFilesystem" -> "UnsupportedFilesystem"
    [] OTHER                         -> "BackendFailure"

Environment ==
  /\ At("Environment")
  /\ LET i == Changed[k]
         truth(path) == [err |-> validate_path_environment(world, path)]
     IN  \E s \in Answers(truth(i.source)), d \in Answers(truth(Destination(i))) :
           /\ ~(s = Failed("Io") /\ d = Failed("Io"))
           /\ faults' = IF Failed("Io") \in {s, d} THEN faults + 1 ELSE faults
           /\ Advance(Len(Changed), "Keys",
                      issues \cup {<<i.id, path_environment_issue(a.err)>> :
                                     a \in {b \in {s, d} : b.err # "None"}})
  /\ UNCHANGED <<source, rows, seen>>

(***************************************************************************)
(* Rows that share a source, an identifier or a destination by their text, *)
(* and changed sources that lie below one another by their text.           *)
(***************************************************************************)
append_duplicate_issues(s, keys, kind) ==
  {<<s[m].id, kind>> : m \in {p \in 1..Len(s) :
      \E q \in 1..Len(s) : q # p /\ keys[q] = keys[p]}}

SourceOverlap ==
  UNION {{<<i.id, "SourceOverlap">>, <<j.id, "SourceOverlap">>} :
           <<i, j>> \in {<<i, j>> \in Elements(Changed) \X Elements(Changed) :
             path_key(j.source) \in {path_key(a) : a \in visit_direct_ancestors(i.source)}}}

Keys ==
  /\ At("Keys")
  /\ Leave("Resolve",
        append_duplicate_issues(Changed, [n \in 1..Len(Changed) |-> path_key(Changed[n].source)],
                                "DuplicateSource")
        \cup append_duplicate_issues(Changed, [n \in 1..Len(Changed) |-> Changed[n].id],
                                     "DuplicateEntryId")
        \cup append_duplicate_issues(Changed, [n \in 1..Len(Changed) |-> path_key(Destination(Changed[n]))],
                                     "DuplicateDestination")
        \cup SourceOverlap)
  /\ UNCHANGED <<source, rows, seen, faults>>

(***************************************************************************)
(* Resolve the source of row k: it must exist, be of the listed kind and   *)
(* not be a reparse point.                                                 *)
(***************************************************************************)
SourceIssue(i, s) ==
  CASE s.err # "None"                            -> "BackendFailure"
    [] s.node = {}                               -> "MissingSource"
    [] Nodes[CHOOSE x \in s.node : TRUE].kind # i.kind -> "SourceKindChanged"
    [] path_component_depth(s.path) > MAX_PLAN_PATH_DEPTH -> "Backend"
    [] planned_entry_key(s.parent, Leaf(s.path)) # s.key  -> "Backend"
    [] Nodes[CHOOSE x \in s.node : TRUE].reparse -> "ReparseSource"
    [] OTHER                                     -> "None"

Resolve ==
  /\ At("Resolve")
  /\ \E s \in Answers(resolve_source(world, Changed[k].source)) :
       /\ Spend(s)
       /\ LET issue == SourceIssue(Changed[k], s)
          IN  IF issue = "None"
              THEN source' = s /\ pc' = "Observe" /\ UNCHANGED <<k, issues, outcome>>
              ELSE source' = <<>> /\
                   Advance(Len(Changed), "DestinationKeys", issues \cup {<<Changed[k].id, issue>>})
  /\ UNCHANGED <<rows, seen>>

(***************************************************************************)
(* Observe its destination: the same parent, or for files another parent   *)
(* of the same volume when the list moves rows.                            *)
(***************************************************************************)
MoveIssues(i, s, d) ==
  LET x == CHOOSE x \in s.node : TRUE
  IN  (IF s.parent # d.parent /\ Scope = "SameParent" THEN {"CrossParent"} ELSE {})
      \cup (IF s.parent # d.parent /\ Scope = "SameVolumeFilesOnly"
               /\ Nodes[x].kind = "Directory"
            THEN {"DirectoryMoveUnsupported"} ELSE {})
      \cup (IF Cardinality({Nodes[x].volume, Nodes[s.parent].volume, Nodes[d.parent].volume}) > 1
            THEN {"CrossVolume"} ELSE {})

PlanRow(i, s, d) ==
  [id |-> i.id, source |-> s.path, destination |-> Destination(i), kind |-> i.kind,
   sourceSnapshot |-> s, destinationSnapshot |-> d,
   sourceKey |-> s.key, destinationKey |-> planned_entry_key(d.parent, i.name)]

Observe ==
  /\ pc = "Observe" /\ ~cancel
  /\ LET i == Changed[k]
     IN  \E d \in Answers(observe(world, Destination(i))) :
           LET found == IF d.err # "None" THEN {"BackendFailure"} ELSE MoveIssues(i, source, d)
               next  == issues \cup {<<i.id, x>> : x \in found}
           IN  /\ Spend(d)
               /\ rows' = IF found = {} THEN Append(rows, PlanRow(i, source, d)) ELSE rows
               /\ IF k < Len(Changed)
                  THEN k' = k + 1 /\ pc' = "Resolve" /\ issues' = next /\ UNCHANGED outcome
                  ELSE Leave("DestinationKeys", next)
  /\ source' = <<>>
  /\ UNCHANGED <<seen, request, cancel, world, disturbances>>

DestinationKeys ==
  /\ At("DestinationKeys")
  /\ Leave(IF Unchanged = <<>> THEN "Candidates" ELSE "Unchanged",
           append_duplicate_issues(rows, [n \in 1..Len(rows) |-> rows[n].destinationKey], "DuplicateDestination"))
  /\ UNCHANGED <<source, rows, seen, faults>>

(***************************************************************************)
(* Rows that share a source entry, by what was observed of them: a row     *)
(* that stays counts too.  Rows are first grouped by the identities of     *)
(* parent and entry; only inside a group are the entry keys compared.      *)
(***************************************************************************)
ObserveUnchanged ==
  /\ At("Unchanged")
  /\ LET i == Unchanged[k]
     IN  \E s \in Answers(observe(world, i.source)) :
           /\ Spend(s)
           /\ seen' = Append(seen, s)
           /\ Advance(Len(Unchanged), "Candidates",
                      issues \cup IF Bad(s) THEN {<<i.id, "BackendFailure">>} ELSE {})
  /\ UNCHANGED <<source, rows>>

\* A candidate: row, identity group, and the path to resolve again if it stays.
Candidates ==
  {[id |-> r.id, group |-> <<r.sourceSnapshot.parent, r.sourceSnapshot.node>>,
    changed |-> TRUE, key |-> r.sourceKey] : r \in Elements(rows)}
  \cup {[id |-> Unchanged[m].id, group |-> <<seen[m].parent, seen[m].node>>,
         changed |-> FALSE, key |-> Unchanged[m].source] :
          m \in {n \in 1..Len(seen) : seen[n].err = "None" /\ seen[n].node # {}}}

Contested(candidates) ==
  {a \in candidates : /\ \E b \in candidates : b # a /\ b.group = a.group
                      /\ \E b \in candidates : b.group = a.group /\ b.changed}

\* What the source of each contested row that stays resolves to now.
Resolved(contested, failed) ==
  [a \in {x \in contested : ~x.changed} |->
     IF a.id \in failed THEN Failed("Io") ELSE resolve_source(world, a.key)]

CandidateKeys(contested, resolved) ==
  {[a EXCEPT !.key = IF a.changed THEN @
                     ELSE IF resolved[a].err # "None" THEN <<>> ELSE resolved[a].key] :
     a \in contested}

Owners(keyed, a) == {b \in keyed : b.key # <<>> /\ b.group = a.group /\ b.key = a.key}

append_actual_duplicate_source_issues(keyed, resolved) ==
  {<<a.id, "DuplicateSource">> :
     a \in {x \in keyed : /\ Cardinality(Owners(keyed, x)) > 1
                          /\ \E b \in Owners(keyed, x) : b.changed}}
  \cup {<<a.id, "BackendFailure">> : a \in {x \in DOMAIN resolved : Bad(resolved[x])}}

ChangedDirectories == {r \in Elements(rows) : r.kind = "Directory"}

DuplicateSources ==
  /\ At("Candidates")
  /\ \E contested \in {Contested(Candidates)} :
     \E failed \in SUBSET {a.id : a \in {x \in contested : ~x.changed}} :
     \E resolved \in {Resolved(contested, failed)} :
       /\ faults + Cardinality(failed) <= MaxFaults
       /\ faults' = faults + Cardinality(failed)
       /\ Leave(IF ChangedDirectories = {} THEN "Finish" ELSE "Inspect",
                append_actual_duplicate_source_issues(CandidateKeys(contested, resolved), resolved))
  /\ UNCHANGED <<source, rows, seen>>

(***************************************************************************)
(* With a changed directory in the plan, no end of a row may lie in it, by *)
(* identity: neither a listed source, changed or not, nor a destination.   *)
(***************************************************************************)
record_identity_overlap(node, candidate, exclude) ==
  LET owners == {r.id : r \in {x \in ChangedDirectories : node \in x.sourceSnapshot.node}}
  IN  IF owners = {} \/ (exclude /\ owners = {candidate}) THEN {}
      ELSE owners \cup {candidate}

Overlaps(s, candidate, compare, exclude) ==
  UNION {record_identity_overlap(x, candidate, exclude) :
           x \in {y \in s.node : compare /\ Nodes[y].kind = "Directory"}}
  \cup record_identity_overlap(s.parent, candidate, FALSE)

\* The walk up from an endpoint ends at the first directory that matches or fails.
Seen(path) == [n \in 2..(Len(path) - 1) |-> observe(world, SubSeq(path, 1, n))]

Hit(s, candidate) == IF s.err # "None" THEN {} ELSE Overlaps(s, candidate, TRUE, FALSE)

FirstUp(ends) == CHOOSE n \in ends : \A m \in ends : m <= n

EndOf(s, candidate) ==
  IF Bad(s) THEN {<<candidate, "BackendFailure">>}
  ELSE {<<x, "SourceOverlap">> : x \in Hit(s, candidate)}

WalkUp(at, ends, candidate) ==
  IF ends = {} THEN {} ELSE EndOf(at[FirstUp(ends)], candidate)

Ends(at, candidate) == {n \in DOMAIN at : Bad(at[n]) \/ Hit(at[n], candidate) # {}}

AncestorOverlaps(at, candidate) == WalkUp(at, Ends(at, candidate), candidate)

Inspected(path, candidate, s, compare) ==
  LET here == IF s.err # "None" THEN {} ELSE Overlaps(s, candidate, compare, TRUE)
  IN  IF Bad(s) THEN {<<candidate, "BackendFailure">>}
      ELSE IF here # {} THEN {<<x, "SourceOverlap">> : x \in here}
      ELSE AncestorOverlaps(Seen(path), candidate)

Snapshot(i) == CHOOSE r \in Elements(rows) : r.id = i.id

Inspect ==
  /\ At("Inspect")
  /\ LET n == Len(request)
         i == IF k <= n THEN request[k] ELSE Changed[k - n]
     IN  \E s \in IF k > n THEN {Snapshot(i).destinationSnapshot}
                  ELSE IF i.source # Destination(i) THEN {Snapshot(i).sourceSnapshot}
                  ELSE Answers(observe(world, i.source)) :
           /\ Spend(s)
           /\ Advance(n + Len(Changed), "Finish",
                issues \cup Inspected(IF k > n THEN Destination(i) ELSE i.source,
                                      i.id, s, k <= n))
  /\ UNCHANGED <<source, rows, seen>>

(***************************************************************************)
(* An occupied destination must be the source of another row of the plan.  *)
(***************************************************************************)
DestinationOccupied ==
  {<<r.id, "DestinationOccupied">> :
     r \in {x \in Elements(rows) :
              x.destinationSnapshot.node # {} /\
              x.destinationKey \notin {y.sourceKey : y \in Elements(rows)}}}

Finish ==
  /\ At("Finish")
  /\ issues' = DestinationOccupied
  /\ pc' = "Done"
  /\ outcome' = IF DestinationOccupied = {} THEN "Planned" ELSE "Refused"
  /\ UNCHANGED <<k, source, rows, seen, faults>>

(***************************************************************************)
(* The user cancels; the planner notices at its next poll.                 *)
(***************************************************************************)
Cancel ==
  /\ pc # "Done" /\ ~cancel
  /\ cancel' = TRUE
  /\ UNCHANGED <<world, request, pc, k, issues, source, rows, seen, outcome, faults,
                 disturbances>>

check_cancelled ==
  /\ pc # "Done" /\ cancel
  /\ pc' = "Done"
  /\ outcome' = "Cancelled"
  /\ UNCHANGED <<world, request, k, issues, source, rows, seen, cancel, faults, disturbances>>

(***************************************************************************)
(* Another process removes an entry, or lets an entry name another node.   *)
(***************************************************************************)
Disturb ==
  /\ pc # "Done" /\ disturbances < MaxDisturbances
  /\ \E e \in world.entries :
       \/ world' = [world EXCEPT !.entries = @ \ {e}]
       \/ \E x \in DOMAIN Nodes \ (Drives \cup {e.node}) :
            /\ Nodes[x].kind = "File"
            /\ world' = [world EXCEPT !.entries = (@ \ {e}) \cup {[e EXCEPT !.node = x]}]
  /\ disturbances' = disturbances + 1
  /\ UNCHANGED <<request, pc, k, issues, source, rows, seen, outcome, cancel, faults>>

PlannerStep ==
  \/ Validate \/ Environment \/ Keys \/ Resolve \/ Observe \/ DestinationKeys
  \/ ObserveUnchanged \/ DuplicateSources \/ Inspect \/ Finish \/ check_cancelled

Next == PlannerStep \/ Cancel \/ Disturb \/ (pc = "Done" /\ UNCHANGED vars)

Spec == Init /\ [][Next]_vars
-----------------------------------------------------------------------------
(***************************************************************************)
(* What a request means on the disk, without the planner's passes: the     *)
(* entry each row names, and the directories on the way to it.             *)
(***************************************************************************)
EntryAt(path)  == open_entry(world, OpenParent(world, Parent(path)).node, Leaf(path)).entry
Exists(path)   == LET o == observe(world, path) IN o.err = "None" /\ o.node # {}
Above(path)    ==
  {OpenParent(world, SubSeq(path, 1, n)).node :
     n \in {m \in 1..(Len(path) - 1) : OpenParent(world, SubSeq(path, 1, m)).err = "None"}}
IsChanged(i)   == i.source # Destination(i)
Departing      == {EntryAt(i.source) : i \in Elements(Changed)}
Target(i)      == OpenParent(world, i.parent).node

TextsAreSound ==
  \A i \in Elements(request) :
    /\ is_absolute_windows_path(i.source)
    /\ path_component_depth(i.source) <= MAX_PLAN_PATH_DEPTH
    /\ IsChanged(i) => /\ is_absolute_windows_path(i.parent)
                       /\ path_component_depth(i.parent) <= MAX_PLAN_PATH_DEPTH
                       /\ i.name \notin InvalidNames

SourcesAreThere ==
  /\ \A i \in Elements(Changed) :
       /\ Exists(i.source)
       /\ Nodes[EntryAt(i.source).node].kind = i.kind
       /\ ~Nodes[EntryAt(i.source).node].reparse
       /\ OpenParent(world, i.parent).err = "None"
  /\ \A i \in Elements(Unchanged) : ~Bad(observe(world, i.source))

OneRowPerEntry ==
  \A m, n \in 1..Len(request) :
    m # n /\ IsChanged(request[m]) =>
      /\ IsChanged(request[n]) => request[m].id # request[n].id
      /\ Exists(request[n].source) => EntryAt(request[m].source) # EntryAt(request[n].source)

MovesAreAllowed ==
  \A i \in Elements(Changed) :
    /\ Nodes[EntryAt(i.source).dir].volume = Nodes[Target(i)].volume
    /\ EntryAt(i.source).dir = Target(i) \/ (i.kind = "File" /\ Scope = "SameVolumeFilesOnly")

\* Once every changed entry has left its place, every destination is free: and a
\* destination that only an alias occupies counts as taken.
DestinationsAreFree ==
  /\ \A m, n \in 1..Len(Changed) : m # n =>
       <<Target(Changed[m]), Fold[Changed[m].name]>> # <<Target(Changed[n]), Fold[Changed[n].name]>>
  /\ \A i \in Elements(Changed) : \A e \in Entries(world, Target(i), i.name) :
       \E x \in Departing : x.dir = e.dir /\ Fold[x.spelling] = Fold[i.name]

NothingInsideADepartingDirectory ==
  \A i \in Elements(Changed) : i.kind = "Directory" =>
    /\ \A j \in Elements(request) : EntryAt(i.source).node \notin Above(j.source)
    /\ \A j \in Elements(Changed) : EntryAt(i.source).node \notin Above(Destination(j))

Executable ==
  \/ Changed = <<>>
  \/ /\ TextsAreSound /\ SourcesAreThere
     /\ OneRowPerEntry /\ MovesAreAllowed /\ DestinationsAreFree
     /\ NothingInsideADepartingDirectory

(***************************************************************************)
(* The plan's rows are the request's changed rows, in order, once it is    *)
(* accepted.                                                               *)
(***************************************************************************)
TypeOK ==
  /\ pc \in {"Validate", "Environment", "Keys", "Resolve", "Observe", "DestinationKeys",
             "Unchanged", "Candidates", "Inspect", "Finish", "Done"}
  /\ outcome \in {"None", "Planned", "Refused", "Cancelled"}
  /\ issues \subseteq {i.id : i \in Elements(request)} \X STRING
  /\ outcome = "Planned" => [n \in 1..Len(rows) |-> rows[n].id] = [n \in 1..Len(Changed) |-> Changed[n].id]
  /\ Len(seen) <= Len(Unchanged)
  /\ faults <= MaxFaults /\ disturbances <= MaxDisturbances

(***************************************************************************)
(* On a disk nobody else changes, an accepted plan can be carried out: all *)
(* its entries exist, no two rows name one entry however they are spelled, *)
(* every destination is free once the plan's own entries have left, and no *)
(* end of a row lies inside a directory that the plan renames.             *)
(***************************************************************************)
AcceptedIsExecutable ==
  outcome = "Planned" /\ disturbances = 0 => Executable

(***************************************************************************)
(* Without a failing call, a list that can be carried out is never refused:*)
(* the text passes, the key passes and the identity passes together do not *)
(* blame a row that is sound.                                              *)
(***************************************************************************)
RefusalIsJustified ==
  outcome = "Refused" /\ disturbances = 0 /\ faults = 0 => ~Executable

(***************************************************************************)
(* Whatever other processes do meanwhile, rows that reach the schedule     *)
(* with one source key were observed as different files: the disk changed  *)
(* under the planner and the executor's own checks will see it.            *)
(***************************************************************************)
SharedSourceMeansDisturbed ==
  outcome = "Planned" =>
    \A m, n \in 1..Len(rows) :
      m # n /\ rows[m].sourceKey = rows[n].sourceKey =>
        disturbances > 0 /\ rows[m].sourceSnapshot.node # rows[n].sourceSnapshot.node

(***************************************************************************)
(* A cancelled planning hands out no plan, wherever in its passes the user *)
(* cancelled it.                                                           *)
(***************************************************************************)
CancelledHandsOutNothing == cancel => outcome # "Planned"
=============================================================================
