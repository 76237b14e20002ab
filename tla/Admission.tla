----------------------------- MODULE Admission ------------------------------
(***************************************************************************)
(* The admission worker: how dropped, picked or imported paths become list *)
(* rows. A first pass looks for a folder, whose handling only the user can *)
(* choose; the collection then walks the paths depth first within a row    *)
(* capacity and a byte budget, polling the cancellation flag. The window   *)
(* reads the progress from one atomic word. The file system does not       *)
(* change during one admission.                                            *)
(***************************************************************************)
EXTENDS Integers, Sequences, FiniteSets, SequencesExt

CONSTANTS
  Path,       \* paths, numbered in the order compare_windows gives them
  Kind,       \* Path -> "File", "Directory", "Reparse", "Invalid", "Unreadable", "Relative",
              \* or "BadName": a listed leaf that is not a valid Windows name
  Identity,   \* Path -> the directory identity behind it
  Child,      \* Path -> the paths of the children the directory lists
  Bytes,      \* Path -> encoded bytes of the path
  Unlistable, \* directories whose enumeration fails
  Requests,   \* [roots, mode, capacity, budget] of start_admission_worker
  MaxDepth,   \* MAX_ADMISSION_DEPTH
  WordBits    \* usize::BITS

AdmissionAssumption ==
  /\ Path \subseteq Nat
  /\ \A r \in Requests : r.capacity < 2 ^ (WordBits - 1) /\ Len(r.roots) < 2 ^ (WordBits - 1)

VARIABLES
  request,
  pc,         \* "Select", "Start", "Pop", "Inspect" or the worker's result
  mode,       \* AdmissionMode once it is known
  index,      \* roots the first pass looked at
  stack,      \* <<path, depth>> still to inspect, the next one last
  current,    \* the entry being inspected
  seen,       \* seen_directories
  inspected,
  remaining,  \* PathBudget
  items,      \* admitted paths, in order
  issues,     \* <<path, AdmissionIssueKind>>
  expanded,   \* identities of the directories that were read
  cancel,     \* the worker's cancellation flag
  word,       \* AdmissionProgress.snapshot
  rendered    \* last_rendered_progress

walkVars == <<stack, current, seen, inspected, remaining, items, issues, expanded>>
vars == <<request, pc, mode, index, walkVars, cancel, word, rendered>>

Results == {"NeedsDirectoryMode", "Finished", "Cancelled"}
None == "None"

TypeOK ==
  /\ request \in Requests
  /\ pc \in {"Select", "Start", "Pop", "Inspect"} \cup Results
  /\ mode \in {None, "Direct", "Recurse"}
  /\ index \in 0..Len(request.roots)
  /\ stack \in Seq(Path \X (0..MaxDepth + 1))
  /\ inspected \in 0..request.capacity
  /\ remaining \in 0..request.budget
  /\ items \in Seq(Path)
  /\ cancel \in BOOLEAN
  /\ word \in 0..(2 ^ WordBits - 1) /\ rendered \in -1..(2 ^ WordBits - 1)

-----------------------------------------------------------------------------
(***************************************************************************)
(* AdmissionProgress: a phase bit above the count, in one word.            *)
(***************************************************************************)
CollectingFlag == 2 ^ (WordBits - 1)

encode(phase, count) ==
  (count % CollectingFlag) + (IF phase = "Collecting" THEN CollectingFlag ELSE 0)

decode(w) ==
  [phase |-> IF w >= CollectingFlag THEN "Collecting" ELSE "SelectingMode",
   inspected |-> w % CollectingFlag]

-----------------------------------------------------------------------------
(***************************************************************************)
(* sort_paths_cancellable: bottom-up merge passes over an index vector.    *)
(***************************************************************************)
Merge(left, right) ==
  LET taken[n \in 0..Len(left) + Len(right)] ==
        IF n = 0 THEN [out |-> <<>>, i |-> 1, j |-> 1]
        ELSE LET t == taken[n - 1]
             IN  IF t.j > Len(right) \/ (t.i <= Len(left) /\ left[t.i] <= right[t.j])
                 THEN [t EXCEPT !.out = Append(@, left[t.i]), !.i = @ + 1]
                 ELSE [t EXCEPT !.out = Append(@, right[t.j]), !.j = @ + 1]
  IN  taken[Len(left) + Len(right)].out

Clip(i, n) == IF i > n THEN n ELSE i

MergePass(s, width) ==
  LET pass[start \in 0..Len(s)] ==
        IF start = Len(s) THEN <<>>
        ELSE LET middle == Clip(start + width, Len(s))
                 end == Clip(middle + width, Len(s))
             IN  Merge(SubSeq(s, start + 1, middle), SubSeq(s, middle + 1, end)) \o pass[end]
  IN  pass[0]

sort_paths(s) ==
  LET passes[k \in 0..Len(s)] ==
        IF k = 0 THEN s
        ELSE IF 2 ^ (k - 1) < Len(s) THEN MergePass(passes[k - 1], 2 ^ (k - 1))
        ELSE passes[k - 1]
  IN  passes[Len(s)]

-----------------------------------------------------------------------------
Truncate(s, n) == SubSeq(s, 1, Clip(n, Len(s)))

PathBytes(entries) == FoldFunction(LAMBDA e, sum : sum + Bytes[e[1]], 0, entries)

\* The longest prefix of the children whose bytes fit.
Affordable(s, limit) ==
  LET fits(n) == PathBytes([i \in 1..n |-> <<s[i], 0>>]) <= limit
  IN  CHOOSE n \in 0..Len(s) : fits(n) /\ (n = Len(s) \/ ~fits(n + 1))

\* Entries pushed so that the first of s is on top.
Pushed(s, depth) == Reverse([i \in 1..Len(s) |-> <<s[i], depth>>])

Issue(p, kind) == issues' = issues \cup {<<p, kind>>}

Init ==
  /\ request \in Requests
  /\ mode = request.mode
  /\ pc = IF mode = None THEN "Select" ELSE "Start"
  /\ index = 0
  /\ stack = <<>> /\ current = <<>> /\ seen = {} /\ inspected = 0
  /\ remaining = request.budget
  /\ items = <<>> /\ issues = {} /\ expanded = <<>>
  /\ cancel = FALSE
  /\ word = encode(IF mode = None THEN "SelectingMode" ELSE "Collecting", 0)
  /\ rendered = -1

\* Every poll of the flag ends the worker with no report.
Cancelled ==
  /\ pc \notin Results
  /\ cancel
  /\ pc' = "Cancelled"
  /\ UNCHANGED <<request, mode, index, walkVars, cancel, word, rendered>>

-----------------------------------------------------------------------------
SelectionBound == Clip(request.capacity, Len(request.roots))

\* The first pass looks at one more root.
SelectMode ==
  /\ pc = "Select" /\ ~cancel /\ index < SelectionBound
  /\ index' = index + 1
  /\ word' = encode("SelectingMode", index + 1)
  /\ pc' = IF Kind[request.roots[index + 1]] = "Directory" THEN "NeedsDirectoryMode" ELSE pc
  /\ UNCHANGED <<request, mode, walkVars, cancel, rendered>>

\* No root is a folder: the rows are taken as they are.
ModeKnown ==
  /\ pc = "Select" /\ index >= SelectionBound
  /\ mode' = "Direct"
  /\ word' = encode("Collecting", 0)
  /\ pc' = "Start"
  /\ UNCHANGED <<request, index, walkVars, cancel, rendered>>

\* The roots beyond the capacity are dropped, the others sorted and stacked.
Start ==
  /\ pc = "Start" /\ ~cancel
  /\ LET roots == request.roots
         cap == request.capacity
     IN  /\ stack' = Pushed(sort_paths(Truncate(roots, cap)), 0)
         /\ issues' = IF Len(roots) > cap THEN {<<roots[cap + 1], "LimitReached">>} ELSE {}
  /\ pc' = "Pop"
  /\ UNCHANGED <<request, mode, index, current, seen, inspected, remaining, items, expanded,
                 cancel, word, rendered>>

\* The next entry; it counts as inspected from here on.
Pop ==
  /\ pc = "Pop" /\ ~cancel /\ stack # <<>>
  /\ stack' = Front(stack) /\ current' = Last(stack)
  /\ IF inspected >= request.capacity
     THEN /\ Issue(Last(stack)[1], "LimitReached") /\ pc' = "Finished"
          /\ UNCHANGED <<inspected, word>>
     ELSE /\ inspected' = inspected + 1 /\ word' = encode("Collecting", inspected + 1)
          /\ pc' = "Inspect"
          /\ UNCHANGED issues
  /\ UNCHANGED <<request, mode, index, seen, remaining, items, expanded, cancel, rendered>>

Finish ==
  /\ pc = "Pop" /\ stack = <<>>
  /\ pc' = "Finished"
  /\ UNCHANGED <<request, mode, index, walkVars, cancel, word, rendered>>

-----------------------------------------------------------------------------
Inspecting == pc = "Inspect" /\ UNCHANGED <<request, mode, index, current, inspected, cancel, word, rendered>>
P == current[1]
Depth == current[2]

Refusal ==
  [k \in {"Relative", "Invalid", "Unreadable", "Reparse"} |->
     CASE k = "Relative" -> "RelativePath"
       [] k = "Reparse" -> "ReparsePoint"
       [] OTHER -> "Metadata"]

\* A relative, invalid, unreadable or reparse path is reported and skipped.
Refuse ==
  /\ Inspecting
  /\ Kind[P] \in DOMAIN Refusal
  /\ Issue(P, Refusal[Kind[P]])
  /\ pc' = "Pop"
  /\ UNCHANGED <<stack, seen, remaining, items, expanded>>

Repeated == Identity[P] \in seen

RefuseRepeated ==
  /\ Inspecting
  /\ Kind[P] = "Directory" /\ Repeated
  /\ Issue(P, "RepeatedDirectory")
  /\ pc' = "Pop"
  /\ UNCHANGED <<stack, seen, remaining, items, expanded>>

IsFolder == Inspecting /\ Kind[P] = "Directory" /\ ~Repeated /\ mode = "Recurse"
See == seen' = IF Kind[P] = "Directory" THEN seen \cup {Identity[P]} ELSE seen

TooDeep ==
  /\ IsFolder /\ Depth >= MaxDepth
  /\ See
  /\ Issue(P, "DepthExceeded")
  /\ pc' = "Pop"
  /\ UNCHANGED <<stack, remaining, items, expanded>>

FreeRows == request.capacity - inspected - Len(stack)

FreeBytes == IF remaining > PathBytes(stack) THEN remaining - PathBytes(stack) ELSE 0

NoRoom ==
  /\ IsFolder /\ Depth < MaxDepth /\ FreeRows <= 0
  /\ See
  /\ Issue(P, "LimitReached")
  /\ pc' = "Finished"
  /\ UNCHANGED <<stack, remaining, items, expanded>>

\* Mutant: a cut enumeration is not reported.
ExpandQuietly ==
  /\ IsFolder /\ Depth < MaxDepth /\ FreeRows > 0 /\ P \notin Unlistable /\ ~cancel
  /\ See
  /\ \E listed \in SetToSeqs(Child[P]) :
       LET within == Truncate(listed, FreeRows)
           named == SelectSeq(Truncate(within, Affordable(within, FreeBytes)),
                              LAMBDA p : Kind[p] # "BadName")
       IN  stack' = stack \o Pushed(sort_paths(named), Depth + 1)
  /\ expanded' = Append(expanded, Identity[P])
  /\ pc' = "Pop"
  /\ UNCHANGED <<remaining, items, issues>>

\* Children come in any order the directory lists them; what is too much in
\* number or in bytes is cut off before they are sorted and stacked.
Expand ==
  /\ IsFolder /\ Depth < MaxDepth /\ FreeRows > 0 /\ P \notin Unlistable /\ ~cancel
  /\ See
  /\ \E listed \in SetToSeqs(Child[P]) :
       LET within == Truncate(listed, FreeRows)
           fit == Affordable(within, FreeBytes)
           named == SelectSeq(Truncate(within, fit), LAMBDA p : Kind[p] # "BadName")
       IN  /\ stack' = stack \o Pushed(sort_paths(named), Depth + 1)
           /\ issues' = issues
                \cup (IF Len(named) < fit THEN {<<P, "ReadDirectory">>} ELSE {})
                \cup (IF Len(listed) > FreeRows THEN {<<P, "LimitReached">>} ELSE {})
                \cup (IF fit < Len(within) THEN {<<P, "PathBudgetExceeded">>} ELSE {})
  /\ expanded' = Append(expanded, Identity[P])
  /\ pc' = "Pop"
  /\ UNCHANGED <<remaining, items>>

\* The enumeration fails.
ReadFails ==
  /\ IsFolder /\ Depth < MaxDepth /\ FreeRows > 0 /\ P \in Unlistable
  /\ See
  /\ Issue(P, "ReadDirectory")
  /\ pc' = "Pop"
  /\ UNCHANGED <<stack, remaining, items, expanded>>

\* A file, or a folder taken as a row: its bytes are reserved.
Admit ==
  /\ Inspecting
  /\ Kind[P] = "File" \/ (Kind[P] = "Directory" /\ ~Repeated /\ mode = "Direct")
  /\ See
  /\ UNCHANGED <<stack, expanded>>
  /\ IF Bytes[P] > remaining
     THEN /\ remaining' = 0 /\ Issue(P, "PathBudgetExceeded")
          /\ pc' = "Finished" /\ UNCHANGED items
     ELSE /\ remaining' = remaining - Bytes[P] /\ items' = Append(items, P)
          /\ pc' = "Pop" /\ UNCHANGED issues

Worker == \/ Cancelled \/ SelectMode \/ ModeKnown \/ Start \/ Pop \/ Finish
          \/ Refuse \/ RefuseRepeated \/ TooDeep \/ NoRoom \/ Expand \/ ReadFails \/ Admit

-----------------------------------------------------------------------------
(***************************************************************************)
(* The window.                                                             *)
(***************************************************************************)
RequestCancel ==
  /\ ~cancel /\ pc \notin Results
  /\ cancel' = TRUE
  /\ UNCHANGED <<request, pc, mode, index, walkVars, word, rendered>>

\* handle_admission_progress on the poll timer
Render ==
  /\ ~cancel /\ pc \notin Results
  /\ rendered # word
  /\ rendered' = word
  /\ UNCHANGED <<request, pc, mode, index, walkVars, cancel, word>>

Over == pc \in Results /\ UNCHANGED vars

Next == Worker \/ RequestCancel \/ Render \/ Over

Spec == Init /\ [][Next]_vars

-----------------------------------------------------------------------------
(***************************************************************************)
(* The reference: what the walk admits when nothing limits it.             *)
(***************************************************************************)
Ordered(S) == SetToSortSeq(S, <)

Leaves[d \in 0..MaxDepth] ==
  [p \in Path |->
     IF Kind[p] = "File" THEN <<p>>
     ELSE IF Kind[p] = "Directory" /\ d < MaxDepth
       THEN LET below == Ordered(Child[p])
            IN  FlattenSeq([i \in 1..Len(below) |-> Leaves[d + 1][below[i]]])
     ELSE <<>>]

Expected ==
  LET roots == SortSeq(request.roots, <)
  IN  IF mode = "Recurse" THEN FlattenSeq([i \in 1..Len(roots) |-> Leaves[0][roots[i]]])
      ELSE roots

\* s is t with some entries left out.
Within(s, t) ==
  LET matched[n \in 0..Len(t)] ==
        IF n = 0 THEN 0
        ELSE IF matched[n - 1] < Len(s) /\ s[matched[n - 1] + 1] = t[n] THEN matched[n - 1] + 1
        ELSE matched[n - 1]
  IN  matched[Len(t)] = Len(s)

(***************************************************************************)
(* A report without an issue admits exactly the files of the complete walk *)
(* in path order: whatever is cut off by the capacity, the byte budget,    *)
(* the depth or a failure leaves an issue behind.                          *)
(***************************************************************************)
SilentMeansComplete == pc = "Finished" /\ issues = {} => items = Expected

(***************************************************************************)
(* Rows are admitted in the order of the complete walk, whatever was       *)
(* refused in between.                                                     *)
(***************************************************************************)
ItemsInOrder == Within(items, Expected)

(***************************************************************************)
(* The entries inspected and the entries waiting never exceed the capacity *)
(* together, so the walk is bounded whatever the directories contain.      *)
(***************************************************************************)
BoundedWork == inspected + Len(stack) <= request.capacity

(***************************************************************************)
(* Once a child of a folder waits on the stack, every waiting path can be  *)
(* paid for: only the user's own selection can run into the byte budget.   *)
(***************************************************************************)
ChildrenArePaidFor ==
  (\E i \in 1..Len(stack) : stack[i][2] > 0) => PathBytes(stack) <= remaining

(***************************************************************************)
(* No directory is read twice, under whatever path it is met again.        *)
(***************************************************************************)
NoDirectoryTwice ==
  \A i, j \in 1..Len(expanded) : expanded[i] = expanded[j] => i = j

(***************************************************************************)
(* A folder never becomes a row without the user having chosen how folders *)
(* are added: the first pass and the collection look at the same roots.    *)
(***************************************************************************)
FoldersNeedAnAnswer ==
  request.mode = None /\ pc = "Finished" => \A p \in Range(items) : Kind[p] # "Directory"

(***************************************************************************)
(* The progress the window decodes never goes from collecting back to the  *)
(* first pass and never counts down within a phase.                        *)
(***************************************************************************)
RenderedNeverGoesBack ==
  rendered >= 0 =>
     LET old == decode(rendered)
         new == decode(rendered')
     IN  \/ old.phase = "SelectingMode" /\ new.phase = "Collecting"
         \/ old.phase = new.phase /\ old.inspected <= new.inspected
=============================================================================
