---------------------------- MODULE ListRefresh -----------------------------
(***************************************************************************)
(* What the list on the screen shows of the list in memory. A command      *)
(* changes the model, then the rows it changed are written, cell by cell,  *)
(* into the native ListView; every native call can fail. rendered is the   *)
(* program's record of what it has written. A failed patch falls back to   *)
(* a full refresh, a failed full refresh to a rebuild, and a failed        *)
(* rebuild leaves the preview marked as failed, which forbids Apply.       *)
(*                                                                         *)
(* A cell is a value, a row four of them: name, proposed name, destination *)
(* folder, status; the columns that never differ for one file are the      *)
(* name's. Icons are IconPipeline's, column widths are Columns'.           *)
(***************************************************************************)
EXTENDS Integers, Sequences, FiniteSets, SequencesExt

-----------------------------------------------------------------------------
(***************************************************************************)
(* The caches behind the preview: how many rows change, and which issue    *)
(* each row has. Both are rebuilt from the list, or patched for one edited *)
(* row from what they hold. A name is reduced to what the issues depend    *)
(* on: its case-folded key, whether Windows accepts it and whether it has  *)
(* a stem.                                                                 *)
(***************************************************************************)
CONSTANTS
  Names,          \* leaf names
  KeyOf,          \* name -> what the file system compares
  BadNames,       \* names validate_windows_leaf_name refuses
  NoStem          \* names of a file that are all extension

PreviewCacheAssumption ==
  DOMAIN KeyOf = Names /\ BadNames \subseteq Names /\ NoStem \subseteq Names

Blank == ""
Issue == {"None", "EmptyStem", "InvalidName", "DuplicateDestination"}
Kind == {"None", "Rename", "Move", "MoveAndRename"}

\* An item: [name, home, proposed, parent, size]; home is the folder it is in.
planned_change_kind(item) ==
  LET moved == item.parent # item.home
      renamed == item.name # item.proposed
  IN  CASE moved /\ renamed -> "MoveAndRename"
        [] moved -> "Move"
        [] renamed -> "Rename"
        [] OTHER -> "None"

is_changed(kind) == kind # "None"
renames(kind) == kind \in {"Rename", "MoveAndRename"}
moves(kind) == kind \in {"Move", "MoveAndRename"}

preview_destination_key(item) == <<item.parent, KeyOf[item.proposed]>>

preview_base_issue(item) ==
  CASE ~renames(planned_change_kind(item)) -> "None"
    [] item.proposed \in BadNames -> "InvalidName"
    [] item.proposed \in NoStem -> "EmptyStem"
    [] OTHER -> "None"

resolved_preview_issue(base, kind, colliding) ==
  IF base # "InvalidName" /\ is_changed(kind) /\ colliding THEN "DuplicateDestination" ELSE base

preview_status_label(issue, kind) ==
  IF issue # "None" THEN issue ELSE IF is_changed(kind) THEN kind ELSE Blank

-----------------------------------------------------------------------------
(***************************************************************************)
(* PreviewCountCache                                                       *)
(***************************************************************************)
NoCounts == [total |-> 0, changed |-> 0]

CountsRefreshed(model) ==
  [total |-> Len(model),
   changed |-> Cardinality({r \in 1..Len(model) : is_changed(planned_change_kind(model[r]))})]

\* refresh_one: false when the cache cannot be of this list.
MayCountOne(counts, length, before, now) ==
  LET changed == counts.changed + (IF now THEN 1 ELSE 0) - (IF before THEN 1 ELSE 0)
  IN  counts.total = length /\ changed \in 0..counts.total

CountedOne(counts, before, now) ==
  [counts EXCEPT !.changed = @ + (IF now THEN 1 ELSE 0) - (IF before THEN 1 ELSE 0)]

-----------------------------------------------------------------------------
(***************************************************************************)
(* PreviewIssueCache: rows of [key, base, issue, kind] and, per kind of    *)
(* issue, how many rows have it. Its map from keys to rows is kept beside  *)
(* the rows, as groups.                                                    *)
(***************************************************************************)
NoIssues ==
  [initialized |-> FALSE, rows |-> <<>>, groups |-> <<>>, tally |-> [i \in Issue |-> 0]]

CachedPreviewRow(item) ==
  [key |-> preview_destination_key(item), base |-> preview_base_issue(item),
   issue |-> preview_base_issue(item), kind |-> planned_change_kind(item)]

Group(groups, key) == IF key \in DOMAIN groups THEN groups[key] ELSE {}

Colliding(groups, row) == Cardinality(Group(groups, row.key)) > 1

Resolved(row, groups) ==
  [row EXCEPT !.issue = resolved_preview_issue(row.base, row.kind, Colliding(groups, row))]

Grouped(base) ==
  [k \in {base[r].key : r \in DOMAIN base} |-> {r \in DOMAIN base : base[r].key = k}]

Tallied(rows, groups) ==
  [initialized |-> TRUE, rows |-> rows, groups |-> groups,
   tally |-> [i \in Issue |->
               IF i = "None" THEN 0 ELSE Cardinality({r \in DOMAIN rows : rows[r].issue = i})]]

ResolvedIn(base, groups) == Tallied([r \in DOMAIN base |-> Resolved(base[r], groups)], groups)

CacheOf(base) == ResolvedIn(base, Grouped(base))

refresh_by(model) == CacheOf([r \in 1..Len(model) |-> CachedPreviewRow(model[r])])

\* The conditions under which refresh_one_by answers at all.
MayRefreshOne(cache, length, row) ==
  /\ cache.initialized /\ Len(cache.rows) = length /\ row \in 1..length
  /\ row \in Group(cache.groups, cache.rows[row].key)

\* Moves a row between groups; a group left empty is removed.
Regrouped(groups, row, old, new) ==
  LET left == [k \in {k \in DOMAIN groups : k # old \/ groups[k] # {row}} |->
                 IF k = old THEN groups[k] \ {row} ELSE groups[k]]
  IN  IF old = new THEN groups
      ELSE [k \in DOMAIN left \union {new} |-> Group(left, k) \union (IF k = new THEN {row} ELSE {})]

\* Mutant: the group the row joins keeps its old issues.
AffectedRowsLeft(cache, row, item) == cache.groups[cache.rows[row].key]

\* The rows whose issue one edit can change: the old group and the new one.
AffectedRows(cache, row, item) ==
  LET old == cache.rows[row].key
      new == preview_destination_key(item)
      moved == Regrouped(cache.groups, row, old, new)
  IN  cache.groups[old] \union (IF old = new THEN {} ELSE moved[new])

\* replace_issue: the tally follows each row that changes its issue.
Retallied(tally, before, after, rows) ==
  [i \in Issue |->
    IF i = "None" THEN 0
    ELSE tally[i] + Cardinality({r \in rows : after[r].issue = i /\ before[r].issue # i})
                  - Cardinality({r \in rows : before[r].issue = i /\ after[r].issue # i})]

Replaced(cache, rows, groups, affected) ==
  [cache EXCEPT !.rows = rows, !.groups = groups,
                !.tally = Retallied(cache.tally, cache.rows, rows, affected)]

ResolvedAgain(cache, edited, groups, affected) ==
  Replaced(cache,
           [r \in DOMAIN edited |-> IF r \in affected THEN Resolved(edited[r], groups) ELSE edited[r]],
           groups, affected)

refresh_one_by(cache, row, item) ==
  ResolvedAgain(cache,
    [cache.rows EXCEPT ![row] = [CachedPreviewRow(item) EXCEPT !.issue = cache.rows[row].issue]],
    Regrouped(cache.groups, row, cache.rows[row].key, preview_destination_key(item)),
    AffectedRows(cache, row, item))

issue(cache, row) == IF row \in DOMAIN cache.rows THEN cache.rows[row].issue ELSE "None"

has_blocker(cache) == cache.tally["InvalidName"] + cache.tally["DuplicateDestination"] # 0

blocker_rows(cache) ==
  {r \in DOMAIN cache.rows : cache.rows[r].issue \in {"InvalidName", "DuplicateDestination"}}

notice(cache) == [i \in Issue |-> IF i = "None" THEN 0 ELSE cache.tally[i]]

-----------------------------------------------------------------------------
CONSTANTS
  Pool,           \* what can be added: items with their own name and folder
  Parents,        \* folders the user can choose
  MaxRows,        \* bound on rows
  MaxOps,         \* bound on commands
  MaxFaults       \* bound on failing native calls

ListRefreshAssumption == MaxRows \in Nat /\ MaxOps \in Nat /\ MaxFaults \in Nat

VARIABLES
  model,          \* LegacyList.items
  view,           \* [issues, counts, rendered, native, sync, selected, focused, status]
  shown,          \* what update_controls last put on the controls
  planned,        \* the model the last Apply was started with
  busy,           \* a plan or Apply worker holds the list
  last,           \* the last command: [op, faults, picked, focus]
  ops, faults

vars == <<model, view, shown, planned, busy, last, ops, faults>>

Status == 4
NoRow == 0
Sync == {"Pending", "Synchronized", "Failed"}

rendered_row(item, is) ==
  <<item.name, item.proposed, item.parent, preview_status_label(is, planned_change_kind(item))>>

RowsOf(m, issues) == [r \in 1..Len(m) |-> rendered_row(m[r], issue(issues, r))]

mark_preview_synchronized(v) == [v EXCEPT !.sync = "Synchronized", !.status.failed = FALSE]
mark_preview_sync_failed(v) == [v EXCEPT !.sync = "Failed", !.status.failed = TRUE]

WithIssues(v, issues) == [v EXCEPT !.issues = issues, !.status.notice = notice(issues)]

refresh_preview_count_cache(v, m) ==
  WithIssues([v EXCEPT !.counts = CountsRefreshed(m)], refresh_by(m))

-----------------------------------------------------------------------------
(***************************************************************************)
(* Native calls. A refresh is a sequence of calls; it stops at the first   *)
(* that fails. What the program records between two calls is part of the   *)
(* sequence, and never fails.                                              *)
(***************************************************************************)
Call(op, row, column, value) == [op |-> op, row |-> row, column |-> column, value |-> value]
Fallible(call) == call.op \notin {"Truncate", "Commit", "Install"}

Performed(v, call) ==
  CASE call.op = "Set" -> [v EXCEPT !.native[call.row][call.column] = call.value]
    [] call.op = "Insert" -> [v EXCEPT !.native = Append(@, <<call.value, Blank, Blank, Blank>>)]
    [] call.op = "Delete" ->
         [v EXCEPT !.native = SubSeq(@, 1, call.row - 1), !.selected = @ \ {call.row},
                   !.focused = IF @ = call.row THEN NoRow ELSE @]
    [] call.op = "DeleteAll" -> [v EXCEPT !.native = <<>>, !.selected = {}, !.focused = NoRow]
    [] call.op = "Truncate" -> [v EXCEPT !.rendered = IF call.row < Len(@) THEN SubSeq(@, 1, call.row) ELSE @]
    [] call.op = "Commit" ->
         [v EXCEPT !.rendered = IF call.row <= Len(@) THEN [@ EXCEPT ![call.row] = call.value]
                                ELSE Append(@, call.value)]
    [] call.op = "Install" -> [v EXCEPT !.rendered = call.value]

\* A cell of a row the list does not have cannot be set.
Possible(v, call) == call.op = "Set" => call.row <= Len(v.native)

\* The ways a sequence of calls can go with the faults that are left:
\* [view, done, faults].
RECURSIVE Attempts(_, _, _)
Attempts(v, calls, left) ==
  IF calls = <<>> THEN {[view |-> v, done |-> TRUE, faults |-> 0]}
  ELSE IF ~Possible(v, calls[1]) THEN {[view |-> v, done |-> FALSE, faults |-> 0]}
  ELSE Attempts(Performed(v, calls[1]), Tail(calls), left)
       \union {[view |-> v, done |-> FALSE, faults |-> 1] :
                 c \in {c \in {calls[1]} : Fallible(c) /\ left > 0}}

\* apply_rendered_row: the cells that differ, from the first column to the last
RowCalls(r, old, new) ==
  LET differs == SelectSeq(<<1, 2, 3, 4>>, LAMBDA c : old[c] # new[c])
  IN  [i \in 1..Len(differs) |-> Call("Set", r, differs[i], new[differs[i]])]

insert_native_row(r, new) ==
  <<Call("Insert", r, 1, new[1])>> \o [i \in 1..3 |-> Call("Set", r, i + 1, new[i + 1])]

\* The rows the list no longer has go from the last one up.
DeleteCalls(old, new) ==
  [i \in 1..(IF old > new THEN old - new ELSE 0) |-> Call("Delete", old + 1 - i, 1, Blank)]

PatchCalls(old, rows) ==
  FlattenSeq([r \in 1..Len(rows) |->
    (IF r <= Len(old) THEN RowCalls(r, old[r], rows[r]) ELSE insert_native_row(r, rows[r]))
    \o <<Call("Commit", r, 1, rows[r])>>])

apply_incremental_rows(v, m) ==
  IF m = <<>> /\ v.rendered # <<>>
  THEN <<Call("DeleteAll", 0, 1, Blank), Call("Truncate", 0, 1, Blank)>>
  ELSE DeleteCalls(Len(v.rendered), Len(m)) \o <<Call("Truncate", Len(m), 1, Blank)>>
       \o PatchCalls(v.rendered, RowsOf(m, v.issues))

RebuildCalls(rows) ==
  <<Call("DeleteAll", 0, 1, Blank)>>
  \o FlattenSeq([r \in 1..Len(rows) |-> insert_native_row(r, rows[r])])
  \o <<Call("Install", 0, 1, rows)>>

rebuild_rows_from_model(v, m) == RebuildCalls(RowsOf(m, v.issues))

-----------------------------------------------------------------------------
(***************************************************************************)
(* The refreshes. Each is the set of ways it can go: [view, faults].       *)
(***************************************************************************)
restore_refresh_selection(v, before, m) ==
  [v EXCEPT !.selected = before.selected \intersect (1..Len(m)),
            !.focused = IF before.focused <= Len(m) THEN before.focused ELSE NoRow]

AllRowsDone(v, before, m) == restore_refresh_selection(mark_preview_synchronized(v), before, m)

\* A list that is in step is patched; any other counts as a patch given up.
Patched(v, cached, m, left) ==
  IF v.sync = "Synchronized" /\ Len(v.native) = Len(v.rendered)
  THEN Attempts(cached, apply_incremental_rows(cached, m), left)
  ELSE {[view |-> cached, done |-> FALSE, faults |-> 0]}

Rebuilt(given_up, m, left) ==
  {[a EXCEPT !.faults = @ + given_up.faults] :
     a \in Attempts(mark_preview_sync_failed(given_up.view),
                    rebuild_rows_from_model(given_up.view, m), left - given_up.faults)}

OrRebuilt(attempts, m, left) == UNION {IF a.done THEN {a} ELSE Rebuilt(a, m, left) : a \in attempts}

refresh_all_rows(v, m, left) ==
  {[view |-> IF a.done THEN AllRowsDone(a.view, v, m) ELSE mark_preview_sync_failed(a.view),
    faults |-> a.faults] :
     a \in OrRebuilt(Patched(v, refresh_preview_count_cache(v, m), m, left), m, left)}

\* What follows a failed patch: the preview is marked, then refreshed as a whole.
FallBack(attempts, m, left) ==
  {[view |-> a.view, faults |-> a.faults] : a \in {a \in attempts : a.done}}
  \union UNION {{[o EXCEPT !.faults = @ + a.faults] :
                  o \in refresh_all_rows(mark_preview_sync_failed(a.view), m, left - a.faults)} :
                a \in {a \in attempts : ~a.done}}

\* update_status_rows over the rows in ascending order
Labels(v, m) ==
  [r \in 1..Len(m) |-> preview_status_label(issue(v.issues, r), planned_change_kind(m[r]))]

CellCalls(rendered, r, column, value) ==
  IF rendered[column] = value THEN <<>>
  ELSE <<Call("Set", r, column, value), Call("Commit", r, 1, [rendered EXCEPT ![column] = value])>>

ColumnCalls(v, rows, column, values) ==
  FlattenSeq([r \in 1..Len(values) |->
    IF r \in rows THEN CellCalls(v.rendered[r], r, column, values[r]) ELSE <<>>])

StatusCalls(v, m, rows) == ColumnCalls(v, rows, Status, Labels(v, m))

status_delta_rows(v, m) == {r \in 1..Len(m) : v.rendered[r][Status] # Labels(v, m)[r]}

\* The status rows are computed before the patch, the cells compared after it.
WithStatus(attempts, m, rows, left) ==
  UNION {IF a.done THEN {[s EXCEPT !.faults = @ + a.faults] :
                           s \in Attempts(a.view, StatusCalls(a.view, m, rows), left - a.faults)}
         ELSE {a} : a \in attempts}

ChangedCalls(rendered, rows, changed) ==
  FlattenSeq([r \in 1..Len(rows) |->
    IF r \in changed
    THEN RowCalls(r, rendered[r], rows[r]) \o <<Call("Commit", r, 1, rows[r])>>
    ELSE <<>>])

ChangedPatched(cached, m, changed, left) ==
  WithStatus(Attempts(cached, ChangedCalls(cached.rendered, RowsOf(m, cached.issues), changed), left),
             m, status_delta_rows(cached, m), left)

refresh_changed_rows(v, m, changed, left) ==
  IF Len(v.rendered) # Len(m) THEN refresh_all_rows(v, m, left)
  ELSE FallBack(ChangedPatched(refresh_preview_count_cache(v, m), m, changed, left), m, left)

\* The caches after one edited row: patched when they can be, and the rows
\* whose status may differ.
ProposalCached(v, m, row) ==
  WithIssues([v EXCEPT !.counts = CountedOne(@, is_changed(v.issues.rows[row].kind),
                                                is_changed(planned_change_kind(m[row])))],
             refresh_one_by(v.issues, row, m[row]))

\* The proposed names go to the native cell first, then to the record.
ProposalCalls(v, m, changed) ==
  ColumnCalls(v, changed, 2, [r \in 1..Len(m) |-> m[r].proposed])

\* proposal_refresh_plan answers only for rows that are all there.
PlanOk(v, m, changed) == Len(v.rendered) = Len(m) /\ changed \subseteq 1..Len(m)

MayPatchOne(v, m, row) ==
  /\ MayRefreshOne(v.issues, Len(m), row)
  /\ MayCountOne(v.counts, Len(m), is_changed(v.issues.rows[row].kind),
                 is_changed(planned_change_kind(m[row])))

TheRow(changed) == CHOOSE r \in changed : TRUE
Single(changed) == Cardinality(changed) = 1

ProposalStatusRows(v, cached, m, changed) ==
  IF Single(changed) THEN AffectedRows(v.issues, TheRow(changed), m[TheRow(changed)])
  ELSE status_delta_rows(cached, m)

ProposalPatched(v, cached, m, changed, left) ==
  WithStatus(Attempts(cached, ProposalCalls(cached, m, changed), left), m,
             ProposalStatusRows(v, cached, m, changed), left)

refresh_proposal_rows(v, m, changed, left) ==
  IF \/ ~PlanOk(v, m, changed)
     \/ Single(changed) /\ ~MayPatchOne(v, m, TheRow(changed))
  THEN refresh_all_rows(v, m, left)
  ELSE FallBack(ProposalPatched(v, IF Single(changed) THEN ProposalCached(v, m, TheRow(changed))
                                   ELSE refresh_preview_count_cache(v, m), m, changed, left),
                m, left)

-----------------------------------------------------------------------------
(***************************************************************************)
(* The controls.                                                           *)
(***************************************************************************)
\* UiPresentation::derive with the locks of AppState::presentation
ApplyPresentation(v, worker) ==
  CASE worker -> "Working"
    [] ~worker /\ v.counts.changed = 0 -> "NoChanges"
    [] ~worker /\ v.counts.changed # 0 /\ (has_blocker(v.issues) \/ v.sync # "Synchronized") -> "Blocked"
    [] OTHER -> "Ready"

EmptyPresentation(v, worker) ==
  IF v.counts.total # 0 THEN "Hidden" ELSE IF worker THEN "Unavailable" ELSE "ReadyToAdd"

\* While a worker runs, mutation_locked disables every command but VERSION.
CommandStates(v, m, worker) ==
  LET unlocked == ~worker
  IN  [apply |-> ApplyPresentation(v, worker) = "Ready",
       manual_change |-> unlocked /\ Cardinality(v.selected) = 1,
       move_up |-> unlocked /\ v.selected # {} /\ 1 \notin v.selected,
       move_down |-> unlocked /\ v.selected # {} /\ \A r \in v.selected : r < Len(m),
       reset |-> unlocked /\ \E r \in 1..Len(m) : renames(planned_change_kind(m[r])),
       reset_path |-> unlocked /\ \E r \in 1..Len(m) : moves(planned_change_kind(m[r])),
       delete |-> unlocked /\ v.selected # {}]

update_controls(v, m, worker) ==
  [total |-> v.counts.total, changed |-> v.counts.changed, selected |-> Cardinality(v.selected),
   apply |-> ApplyPresentation(v, worker), empty |-> EmptyPresentation(v, worker),
   commands |-> CommandStates(v, m, worker)]

-----------------------------------------------------------------------------
(***************************************************************************)
(* Selections.                                                             *)
(***************************************************************************)
Source(item) == <<item.home, item.name>>

\* SelectionSnapshot: a row is named by its source path and its occurrence.
Token(m, r) == <<Source(m[r]), Cardinality({q \in 1..r - 1 : Source(m[q]) = Source(m[r])})>>

Tokens(m, rows) == {Token(m, r) : r \in rows \intersect (1..Len(m))}

\* SelectionRowIndex
RowsNamed(m, tokens) == {r \in 1..Len(m) : Token(m, r) \in tokens}

clear_selection(v) == [v EXCEPT !.selected = {}, !.focused = NoRow]

\* Focus goes to a row only as one of the selected rows.
select_rows_with_focus(v, rows, focus) ==
  [v EXCEPT !.selected = @ \union rows, !.focused = IF focus \in rows THEN focus ELSE @]

restore_selection(v, rows, focus) ==
  IF v.sync # "Synchronized" THEN v ELSE select_rows_with_focus(clear_selection(v), rows, focus)

-----------------------------------------------------------------------------
NoShown == update_controls([counts |-> NoCounts, selected |-> {}, issues |-> NoIssues, sync |-> "Pending"],
                           <<>>, FALSE)

Init ==
  /\ model = <<>>
  /\ view = [issues |-> NoIssues, counts |-> NoCounts, rendered |-> <<>>, native |-> <<>>,
             sync |-> "Pending", selected |-> {}, focused |-> NoRow,
             status |-> [failed |-> FALSE, notice |-> notice(NoIssues)]]
  /\ shown = NoShown
  /\ planned = <<>> /\ busy = FALSE
  /\ last = [op |-> "None", faults |-> 0, picked |-> {}]
  /\ ops = 0 /\ faults = 0

Step == ops < MaxOps /\ ops' = ops + 1

\* One way the refresh of a command went, and the controls after it.
Report(op, m, outcome, worker, picked) ==
  /\ model' = m /\ busy' = worker
  /\ view' = outcome.view
  /\ shown' = update_controls(outcome.view, m, worker)
  /\ faults' = faults + outcome.faults
  /\ last' = [op |-> op, faults |-> outcome.faults, picked |-> picked]

Left == MaxFaults - faults

\* UiEffect::ProposalRowsChanged
ProposalsChanged(op, m) ==
  LET changed == {r \in 1..Len(m) : m[r] # model[r]}
  IN  /\ Step /\ ~busy /\ changed # {}
      /\ \E o \in refresh_proposal_rows(view, m, changed, Left) : Report(op, m, o, FALSE, {})
      /\ UNCHANGED planned

\* Names typed, imported or computed: the rows of S get a new proposal.
EditProposals(S, n) ==
  ProposalsChanged("Edit", [r \in 1..Len(model) |->
                              IF r \in S THEN [model[r] EXCEPT !.proposed = n] ELSE model[r]])

Reset == ProposalsChanged("Edit", [r \in 1..Len(model) |-> [model[r] EXCEPT !.proposed = model[r].name]])

\* UiEffect::AllRowsChanged; select is a SelectionRestore, {} for none
AllRowsChanged(op, m, select, picked) ==
  LET from == IF select = {} THEN view ELSE clear_selection(view)
  IN  /\ Step /\ ~busy /\ m # model
      /\ \E o \in refresh_all_rows(from, m, Left) :
           Report(op, m, [o EXCEPT !.view = IF select = {} THEN @
                                            ELSE LET s == CHOOSE s \in select : TRUE
                                                 IN  restore_selection(@, s.rows, s.focus)], FALSE, picked)
      /\ UNCHANGED planned

ClearList == AllRowsChanged("All", <<>>, {}, {})
UnifyPath(p) ==
  AllRowsChanged("All", [r \in 1..Len(model) |-> [model[r] EXCEPT !.parent = p]], {}, {})
ResetPath ==
  AllRowsChanged("All", [r \in 1..Len(model) |-> [model[r] EXCEPT !.parent = model[r].home]], {}, {})

DeleteSelected ==
  AllRowsChanged("All",
                 LET kept == SetToSortSeq({r \in 1..Len(model) : r \notin view.selected}, <)
                 IN  [i \in 1..Len(kept) |-> model[kept[i]]],
                 {[rows |-> {}, focus |-> NoRow]}, {})

\* finish_sort_command, by size in either direction
Sort(ascending) ==
  LET m == SortSeq(model, LAMBDA a, b : IF ascending THEN a.size < b.size ELSE a.size > b.size)
      tokens == Tokens(model, view.selected)
      focus == RowsNamed(m, Tokens(model, {view.focused}))
  IN  AllRowsChanged("Pick", m,
        {[rows |-> RowsNamed(m, tokens),
          focus |-> IF focus = {} THEN NoRow ELSE CHOOSE r \in focus : TRUE]}, tokens)

\* An admission's rows are appended; refresh covers the list and the controls.
AddFiles(items) ==
  LET new == SetToSortSeq({p \in items : \A r \in 1..Len(model) : Source(model[r]) # Source(p)},
                          LAMBDA a, b : a.size < b.size)
      m == model \o new
  IN  /\ Step /\ ~busy /\ Len(m) <= MaxRows
      /\ \E o \in refresh_all_rows(view, m, Left) : Report("All", m, o, FALSE, {})
      /\ UNCHANGED planned

\* move_rows_earlier_changed and move_rows_later_changed: nothing moves when
\* the first (last) selected row has nowhere to go.
Swapped(m, r, q) == [m EXCEPT ![r] = m[q], ![q] = m[r]]
Shifted(m, rows, by) ==
  LET order == IF by < 0 THEN SetToSortSeq(rows, <) ELSE SetToSortSeq(rows, >)
  IN  FoldLeft(LAMBDA acc, r : Swapped(acc, r, r + by), m, order)

MoveRows(by) ==
  LET rows == view.selected \intersect (1..Len(model))
      moved == {r + by : r \in rows}
      m == Shifted(model, rows, by)
      focus == IF view.focused \in rows THEN view.focused + by ELSE NoRow
  IN  /\ Step /\ ~busy /\ rows # {} /\ moved \subseteq 1..Len(model)
      /\ \E o \in refresh_changed_rows(view, m, rows \union moved, Left) :
           Report("Pick", m, [o EXCEPT !.view = restore_selection(@, moved, focus)], FALSE,
                  Tokens(model, rows))
      /\ UNCHANGED planned

\* The user selects rows; LVN_ITEMCHANGED updates the controls.
UserSelect(rows, focus) ==
  LET v == [view EXCEPT !.selected = rows, !.focused = focus]
  IN  /\ Step /\ rows # view.selected
      /\ Report("Select", model, [view |-> v, faults |-> 0], busy, {})
      /\ UNCHANGED planned

\* apply_changes: an unsynchronized preview is only reported.
ApplyRefused ==
  LET rows == blocker_rows(view.issues)
      first == CHOOSE r \in rows : \A q \in rows : r <= q
  IN  /\ Step /\ ~busy /\ view.sync = "Synchronized" /\ has_blocker(view.issues)
      /\ Report("Refused", model,
                [view |-> select_rows_with_focus(clear_selection(view), rows, first), faults |-> 0],
                FALSE, {})
      /\ UNCHANGED planned

\* Mutant: Apply looks at the issues only.
preview_is_ready_for_applyUnsynced == ~has_blocker(view.issues)

preview_is_ready_for_apply == view.sync = "Synchronized" /\ ~has_blocker(view.issues)

ApplyStarts ==
  /\ Step /\ ~busy /\ preview_is_ready_for_apply
  /\ planned' = model
  /\ Report("Apply", model, [view |-> view, faults |-> 0], TRUE, {})

\* The names are on disk: the sources are the planned paths.
ApplyCompletes ==
  LET m == [r \in 1..Len(model) |-> [model[r] EXCEPT !.name = model[r].proposed, !.home = model[r].parent]]
  IN  /\ Step /\ busy
      /\ \E o \in refresh_all_rows(view, m, Left) : Report("All", m, o, FALSE, {})
      /\ UNCHANGED planned

ApplyFails ==
  /\ Step /\ busy
  /\ Report("Failed", model, [view |-> view, faults |-> 0], FALSE, {})
  /\ UNCHANGED planned

Next ==
  \/ \E S \in SUBSET (1..Len(model)), n \in Names : EditProposals(S, n)
  \/ Reset
  \/ ClearList
  \/ \E p \in Parents : UnifyPath(p)
  \/ ResetPath
  \/ DeleteSelected
  \/ \E ascending \in BOOLEAN : Sort(ascending)
  \/ \E items \in SUBSET Pool : AddFiles(items)
  \/ \E by \in {-1, 1} : MoveRows(by)
  \/ \E rows \in SUBSET (1..Len(view.native)) : \E focus \in rows \union {NoRow} : UserSelect(rows, focus)
  \/ ApplyRefused
  \/ ApplyStarts
  \/ ApplyCompletes
  \/ ApplyFails

Spec == Init /\ [][Next]_vars

-----------------------------------------------------------------------------
(***************************************************************************)
(* Properties.                                                             *)
(***************************************************************************)
Item == [name : Names, home : Parents, proposed : Names, parent : Parents, size : Nat]

TypeOK ==
  /\ model \in Seq(Item) /\ Len(model) <= MaxRows
  /\ view.sync \in Sync /\ view.selected \subseteq 1..Len(view.native)
  /\ view.focused \in 0..Len(view.native)
  /\ Len(view.rendered) <= MaxRows /\ Len(view.native) <= MaxRows
  /\ busy \in BOOLEAN /\ ops \in 0..MaxOps /\ faults \in 0..MaxFaults

\* A row's issue, from the list alone.
TrueIssue(m, r) ==
  LET renamed == m[r].name # m[r].proposed
      changed == renamed \/ m[r].home # m[r].parent
      clash == \E q \in 1..Len(m) \ {r} : m[q].parent = m[r].parent /\ KeyOf[m[q].proposed] = KeyOf[m[r].proposed]
  IN  CASE renamed /\ m[r].proposed \in BadNames -> "InvalidName"
        [] changed /\ clash /\ ~(renamed /\ m[r].proposed \in BadNames) -> "DuplicateDestination"
        [] renamed /\ m[r].proposed \in NoStem /\ ~clash /\ m[r].proposed \notin BadNames -> "EmptyStem"
        [] OTHER -> "None"

TrueStatus(m, r) ==
  LET renamed == m[r].name # m[r].proposed
      moved == m[r].home # m[r].parent
  IN  CASE TrueIssue(m, r) # "None" -> TrueIssue(m, r)
        [] TrueIssue(m, r) = "None" /\ renamed /\ moved -> "MoveAndRename"
        [] TrueIssue(m, r) = "None" /\ renamed /\ ~moved -> "Rename"
        [] TrueIssue(m, r) = "None" /\ ~renamed /\ moved -> "Move"
        [] OTHER -> Blank

TrueRows(m) == [r \in 1..Len(m) |-> <<m[r].name, m[r].proposed, m[r].parent, TrueStatus(m, r)>>]

\* A preview that counts as synchronized shows the list in memory: every row,
\* name, proposal, folder and status, whichever refresh or fallback wrote it,
\* and the program's record of the cells is what the control holds.
SynchronizedShowsModel ==
  view.sync = "Synchronized" => view.native = TrueRows(model) /\ view.rendered = view.native

\* After every command the caches are those of the list, although most
\* commands only patch them: counts, issues and the issue tally.
CachesAreExact ==
  view.issues.initialized =>
    /\ view.counts = [total |-> Len(model),
                      changed |-> Cardinality({r \in 1..Len(model) :
                        model[r].name # model[r].proposed \/ model[r].home # model[r].parent})]
    /\ \A r \in 1..Len(model) : issue(view.issues, r) = TrueIssue(model, r)
    /\ \A i \in Issue \ {"None"} :
         view.status.notice[i] = Cardinality({r \in 1..Len(model) : TrueIssue(model, r) = i})

\* Apply is offered exactly when there is something to apply, nothing blocks it
\* and the list on the screen is the list in memory; the other commands are
\* enabled for the rows that are selected now.
ControlsAreTrue ==
  LET changed == \E r \in 1..Len(model) : TrueStatus(model, r) # Blank
      blocked == \E r \in 1..Len(model) : TrueIssue(model, r) \in {"InvalidName", "DuplicateDestination"}
  IN  /\ shown.commands.apply = (~busy /\ changed /\ ~blocked /\ view.sync = "Synchronized")
      /\ shown.selected = Cardinality(view.selected)
      /\ shown.total = (IF view.issues.initialized THEN Len(model) ELSE 0)
      /\ shown.commands.move_down => \A r \in view.selected : r + 1 <= Len(model)
      /\ shown.commands.delete => view.selected # {} /\ ~busy

\* Apply plans the list the user sees: at its start the screen shows every
\* proposal of the list and no row the preview marks as blocked.
ApplyIsWhatIsShown ==
  (busy' /\ ~busy) =>
     /\ view.native = TrueRows(planned')
     /\ \A r \in 1..Len(planned') : TrueIssue(planned', r) \notin {"InvalidName", "DuplicateDestination"}

\* Sorting and moving rows keeps the same files selected, unless the preview failed.
SelectionFollowsFiles ==
  last.op = "Pick" /\ view.sync = "Synchronized" =>
    {Source(model[r]) : r \in view.selected} = {t[1] : t \in last.picked}

\* A refresh of all rows in which no native call fails ends synchronized,
\* whatever an earlier failure left in the control.
FullRefreshRecovers == last.op = "All" /\ last.faults = 0 => view.sync = "Synchronized"
=============================================================================
