----------------------------- MODULE ListModel -----------------------------
(***************************************************************************)
(* LegacyList and its append index: the ordered rows with their proposed   *)
(* names and destination parents, the two running unit counters that guard *)
(* the budgets, every command that edits proposals, and the chunked index  *)
(* of source paths that appends consult. The transforms stage all rows     *)
(* before they touch one; allocation can fail wherever the code reserves.  *)
(***************************************************************************)
EXTENDS Integers, Sequences, FiniteSets

-----------------------------------------------------------------------------
(***************************************************************************)
(* Texts as sequences of UTF-16 units, and the name algorithms of          *)
(* darknamer-core: path splitting, planned paths, stems and extensions,    *)
(* replacement, digit runs, import lines, the checks on a Windows leaf     *)
(* name. A unit is a one-character string; a budget counts units.          *)
(***************************************************************************)
Sep == {"\\", "/"}
Digit == {"0", "1", "2", "3", "4", "5", "6", "7", "8", "9"}
Trim == {" ", "\r"}

\* position and rposition, counted from 1; 0 is none
At(s, units) == {i \in 1..Len(s) : s[i] \in units}
First(s, units) == IF At(s, units) = {} THEN 0 ELSE CHOOSE i \in At(s, units) : \A j \in At(s, units) : i <= j
Last(s, units) == IF At(s, units) = {} THEN 0 ELSE CHOOSE i \in At(s, units) : \A j \in At(s, units) : j <= i
Units(s) == {s[i] : i \in 1..Len(s)}
From(s, i) == SubSeq(s, i, Len(s))
UpTo(s, i) == SubSeq(s, 1, i)

-----------------------------------------------------------------------------
(***************************************************************************)
(* Paths.                                                                  *)
(***************************************************************************)
source_parent(path) ==
  LET cut == Last(path, {"\\"})
  IN  IF cut = 0 THEN <<>>
      ELSE UpTo(path, IF cut = 1 \/ path[cut - 1] = ":" THEN cut ELSE cut - 1)

path_name(path) == From(path, Last(path, {"\\"}) + 1)

destination_separator_units(parent) ==
  IF parent # <<>> /\ parent[Len(parent)] \in Sep THEN 0 ELSE 1

planned_path(parent, name) ==
  parent \o (IF destination_separator_units(parent) = 0 THEN <<>> ELSE <<"\\">>) \o name

planned_path_units(parent, name_units) ==
  Len(parent) + destination_separator_units(parent) + name_units

LastName(parent) == LET i == At(parent, Units(parent) \ Sep)
                    IN  IF i = {} THEN 0 ELSE CHOOSE k \in i : \A j \in i : j <= k

\* Every trailing separator goes; a drive or the root keeps one.
normalized_destination_parent(parent) ==
  LET kept == LastName(parent)
  IN  IF kept = Len(parent) THEN parent
      ELSE UpTo(parent, kept) \o (IF kept = 0 \/ parent[kept] = ":" THEN <<"\\">> ELSE <<>>)

StartsWith(s, p) == Len(p) <= Len(s) /\ UpTo(s, Len(p)) = p

planned_path_matches_source(source, parent, name) ==
  /\ Len(source) = planned_path_units(parent, Len(name))
  /\ StartsWith(source, parent)
  /\ destination_separator_units(parent) = 0 \/ source[Len(parent) + 1] = "\\"
  /\ From(source, Len(parent) + destination_separator_units(parent) + 1) = name

planned_change_kind(source, name, parent, proposed) ==
  LET renamed == name # proposed
      moved == source_parent(source) # parent
  IN  IF planned_path_matches_source(source, parent, proposed) THEN "None"
      ELSE IF renamed THEN IF moved THEN "MoveAndRename" ELSE "Rename"
      ELSE "Move"

\* The last component of the destination parent, <<>> when there is none.
parent_folder(parent) ==
  LET cut == Last(parent, {"\\"}) IN IF cut = 0 THEN <<>> ELSE From(parent, cut + 1)

-----------------------------------------------------------------------------
(***************************************************************************)
(* Names. A directory has no extension; a dot before the last backslash    *)
(* leaves an empty stem and an extension that reaches back to the dot.     *)
(***************************************************************************)
stem_extension(name, is_directory) ==
  LET start == Last(name, {"\\"})
      dot == IF is_directory THEN 0 ELSE Last(name, {"."})
  IN  IF dot = 0 THEN [stem |-> From(name, start + 1), extension |-> <<>>]
      ELSE [stem |-> SubSeq(name, start + 1, dot - 1), extension |-> From(name, dot)]

\* What a fallible transform hands on: the text, and the units it asked for
\* before it built the text.
Built(text, requested) == [text |-> text, requested |-> requested]

\* The size pass of replaced_units.
ReplacedUnits(source, needle, replacement) ==
  LET size[i \in 1..Len(source) + Len(needle)] ==
        IF i > Len(source) THEN 0
        ELSE IF StartsWith(From(source, i), needle) THEN Len(replacement) + size[i + Len(needle)]
        ELSE 1 + size[i + 1]
  IN  size[1]

\* Its second pass, the text.
ReplacedText(source, needle, replacement) ==
  LET text[i \in 1..Len(source) + Len(needle)] ==
        IF i > Len(source) THEN <<>>
        ELSE IF StartsWith(From(source, i), needle) THEN replacement \o text[i + Len(needle)]
        ELSE <<source[i]>> \o text[i + 1]
  IN  text[1]

replaced_units(source, needle, replacement) ==
  IF needle = <<>> \/ Len(needle) > Len(source) THEN Built(source, Len(source))
  ELSE Built(ReplacedText(source, needle, replacement), ReplacedUnits(source, needle, replacement))

delete_front_range(stem, start, end) ==
  LET from == IF start = 0 THEN 1 ELSE start
      last == IF end > 0 /\ end < Len(stem) THEN end ELSE Len(stem)
  IN  IF from <= Len(stem) THEN UpTo(stem, from - 1) \o From(stem, last + 1) ELSE stem

delete_last(stem, count) == UpTo(stem, IF count > Len(stem) THEN 0 ELSE Len(stem) - count)

delete_first_delimited(stem, start, end) ==
  LET open == First(stem, {start})
      close == open + First(From(stem, open + 1), {end})
  IN  IF open = 0 \/ close = open THEN stem ELSE UpTo(stem, open - 1) \o From(stem, close + 1)

keep_ascii_digits(stem) == SelectSeq(stem, LAMBDA u : u \in Digit)

\* <<first, last>> of the run, <<>> when there is none
last_digit_run(stem) ==
  LET end == Last(stem, Digit)
      before == UpTo(stem, end)
  IN  IF end = 0 THEN <<>> ELSE <<Last(before, Units(before) \ Digit) + 1, end>>

\* A run that reaches the end of the stem is not found.
first_digit_run(stem) ==
  LET start == First(stem, Digit)
      rest == From(stem, start)
      stop == First(rest, Units(rest) \ Digit)
  IN  IF start = 0 \/ stop = 0 THEN <<>> ELSE <<start, start + stop - 2>>

Zeros(n) == [i \in 1..n |-> "0"]

padded_digit_run(parts, width, run) ==
  IF run = <<>> THEN Built(parts.stem \o parts.extension, Len(parts.stem) + Len(parts.extension))
  ELSE LET length == run[2] - run[1] + 1
           padding == IF width > length THEN width - length ELSE 0
       IN  Built(UpTo(parts.stem, run[1] - 1) \o Zeros(padding) \o From(parts.stem, run[1]) \o parts.extension,
                 Len(parts.stem) + padding + Len(parts.extension))

DigitText == <<"0", "1", "2", "3", "4", "5", "6", "7", "8", "9">>

\* to_string of a number of at most two digits
NumberText(n) ==
  LET m == IF n < 0 THEN -n ELSE n
      digits == IF m < 10 THEN <<DigitText[m + 1]>>
                ELSE <<DigitText[(m \div 10) + 1], DigitText[(m % 10) + 1]>>
  IN  IF n < 0 THEN <<"-">> \o digits ELSE digits

normalized_extension(extension) ==
  IF extension[1] = "." THEN extension ELSE <<".">> \o extension

\* parse_import_lines: split at LF, trim, skip the blank.
Trimmed(line) ==
  LET ink == At(line, Units(line) \ Trim)
  IN  IF ink = {} THEN <<>>
      ELSE SubSeq(line, First(line, Units(line) \ Trim), Last(line, Units(line) \ Trim))

import_lines(text) ==
  LET lines[i \in 0..Len(text)] ==
        IF i = 0 THEN <<<<>>>>
        ELSE IF text[i] = "\n" THEN Append(lines[i - 1], <<>>)
        ELSE [lines[i - 1] EXCEPT ![Len(lines[i - 1])] = Append(@, text[i])]
      all == lines[Len(text)]
  IN  SelectSeq([k \in 1..Len(all) |-> Trimmed(all[k])], LAMBDA line : line # <<>>)

\* export_names and export_paths: a CR LF after every line
export_lines(lines) ==
  LET text[i \in 0..Len(lines)] ==
        IF i = 0 THEN <<>> ELSE text[i - 1] \o lines[i] \o <<"\r", "\n">>
  IN  text[Len(lines)]

-----------------------------------------------------------------------------
\* CompareStringEx stands behind this in the program; here: case is ignored,
\* units are ordered by an arbitrary rank, a prefix comes first.
Rank(u) ==
  CASE u \in {"a", "A"} -> 1 [] u = "b" -> 2 [] u = "\\" -> 3 [] u = "." -> 4
    [] u = ":" -> 5 [] u \in Digit -> 6 [] OTHER -> 7

Less(s, t) ==
  \E i \in 1..Len(t) :
    /\ \A j \in 1..i - 1 : j <= Len(s) /\ Rank(s[j]) = Rank(t[j])
    /\ i > Len(s) \/ Rank(s[i]) < Rank(t[i])

Same(s, t) == Len(s) = Len(t) /\ \A i \in 1..Len(s) : Rank(s[i]) = Rank(t[i])

-----------------------------------------------------------------------------
Forbidden == {"<", ">", ":", "\"", "|", "?", "*"}

\* The stems DOS reserves; one stands for all of them.
is_reserved_device_name(name) ==
  UpTo(name, IF First(name, {"."}) = 0 THEN Len(name) ELSE First(name, {"."}) - 1) \in {<<"n", "u", "l">>, <<"N", "U", "L">>}

validate_windows_leaf_name(name, max_units) ==
  IF name = <<>> THEN "Empty"
  ELSE IF Len(name) > max_units THEN "TooLong"
  ELSE IF name \in {<<".">>, <<".", ".">>} THEN "DotComponent"
  ELSE IF Units(name) \cap Sep # {} THEN "ContainsSeparator"
  ELSE IF Units(name) \cap (Forbidden \cup {"\r", "\n"}) # {} THEN "InvalidCharacter"
  ELSE IF name[Len(name)] \in {".", " "} THEN "TrailingDotOrSpace"
  ELSE IF is_reserved_device_name(name) THEN "ReservedDeviceName"
  ELSE "Ok"

-----------------------------------------------------------------------------
CONSTANTS
  Pool,           \* what can be added: [source, dir, size]
  Texts,          \* texts the user can type
  Parents,        \* destination parents the user can choose
  Imports,        \* import files
  MaxRows,        \* bound on rows
  MaxName,        \* MAX_PROPOSED_NAME_UTF16_UNITS
  MaxNames,       \* MAX_TOTAL_PROPOSED_NAME_UTF16_UNITS
  MaxParent,      \* MAX_DESTINATION_PARENT_UTF16_UNITS
  MaxPlanned,     \* MAX_TOTAL_PLANNED_PATH_UTF16_UNITS
  ChunkCapacity,  \* APPEND_INDEX_CHUNK_CAPACITY
  MaxRevision,    \* where source_revision.checked_add fails
  I32Max,         \* i32::MAX
  MaxOps          \* bound on commands

ListModelAssumption ==
  /\ {MaxRows, MaxName, MaxNames, MaxParent, MaxPlanned, MaxRevision, I32Max, MaxOps} \subseteq Nat
  /\ ChunkCapacity \in Nat \ {0, 1}

VARIABLES
  items,          \* LegacyList.items
  name_units,     \* proposed_name_utf16_units
  path_units,     \* planned_path_utf16_units
  revision,       \* source_revision
  identity,       \* the identity Arc: a number, a new one after an overflow
  index,          \* LegacyAppendIndex: [identity, revision, chunks]
  last,           \* the last command: [op, error, rows, exact]
  ops

vars == <<items, name_units, path_units, revision, identity, index, last, ops>>
sourceVars == <<revision, identity, index>>

RowsOf(list) == 1..Len(list)
Unbound == [identity |-> 0, revision |-> 0, chunks |-> <<>>]

\* LegacyListItem::new
NewItem(p) ==
  [source |-> p.source, name |-> path_name(p.source), proposed |-> path_name(p.source),
   parent |-> source_parent(p.source), dir |-> p.dir, size |-> p.size]

Kind(item) == planned_change_kind(item.source, item.name, item.parent, item.proposed)
PathUnits(item) == planned_path_units(item.parent, Len(item.proposed))

Sum(list, F(_)) ==
  LET total[i \in 0..Len(list)] == IF i = 0 THEN 0 ELSE total[i - 1] + F(list[i])
  IN  total[Len(list)]

NameSum(list) == Sum(list, LAMBDA item : Len(item.proposed))
PathSum(list) == Sum(list, PathUnits)

TypeOK ==
  /\ \A r \in RowsOf(items) : Len(items[r].proposed) <= MaxName /\ Len(items[r].parent) <= MaxParent
  /\ name_units \in 0..MaxNames /\ path_units \in 0..MaxPlanned
  /\ revision \in 0..MaxRevision /\ identity \in Nat
  /\ \A c \in 1..Len(index.chunks) : Len(index.chunks[c]) \in 1..ChunkCapacity
  /\ ops \in 0..MaxOps

Init ==
  /\ items = <<>> /\ name_units = 0 /\ path_units = 0
  /\ revision = 0 /\ identity = 1 /\ index = Unbound
  /\ last = [op |-> "new", error |-> "None", rows |-> <<>>, exact |-> TRUE]
  /\ ops = 0

Step == ops < MaxOps /\ ops' = ops + 1

\* rows: for the commands that move rows, where each selected row went; for
\* those that shorten names, the changed rows
Report(op, error, rows, exact) ==
  last' = [op |-> op, error |-> error, rows |-> rows, exact |-> exact]

\* An error: the list keeps its rows and its counters.
Refuse(op, error) ==
  /\ Report(op, error, <<>>, TRUE)
  /\ UNCHANGED <<items, name_units, path_units>>

-----------------------------------------------------------------------------
(***************************************************************************)
(* The append index.                                                       *)
(***************************************************************************)
invalidate_source_index ==
  IF revision < MaxRevision THEN revision' = revision + 1 /\ UNCHANGED identity
  ELSE revision' = 0 /\ identity' = identity + 1

is_current_for == index.identity = identity /\ index.revision = revision

\* partition_point over the chunks' last sources
ChunkIndex(chunks, source) ==
  Cardinality({c \in 1..Len(chunks) : Less(chunks[c][Len(chunks[c])], source)})

source_chunks_contain(chunks, source) ==
  LET c == ChunkIndex(chunks, source) + 1
  IN  c <= Len(chunks) /\ \E i \in 1..Len(chunks[c]) : Same(chunks[c][i], source)

InsertAt(s, i, e) == UpTo(s, i) \o <<e>> \o From(s, i + 1)

\* Sorted insertion: sort_unstable_by with the comparator
SortedSources(list) ==
  LET sorted[i \in 0..Len(list)] ==
        IF i = 0 THEN <<>>
        ELSE LET s == sorted[i - 1]
                 at == Cardinality({k \in 1..Len(s) : Less(s[k], list[i].source)})
             IN  InsertAt(s, at, list[i].source)
  IN  sorted[Len(list)]

try_chunk_sorted_sources(sources) ==
  LET count == (Len(sources) + ChunkCapacity - 1) \div ChunkCapacity
      end(c) == IF c * ChunkCapacity < Len(sources) THEN c * ChunkCapacity ELSE Len(sources)
  IN  [c \in 1..count |-> SubSeq(sources, (c - 1) * ChunkCapacity + 1, end(c))]

\* insertion_location and try_insert_source: a full chunk is split in two.
try_insert_source(chunks, source) ==
  LET c == ChunkIndex(chunks, source) + 1
      half == ChunkCapacity \div 2
      at == IF c > Len(chunks) THEN 0
            ELSE Cardinality({i \in 1..Len(chunks[c]) : Less(chunks[c][i], source)})
      full == chunks[Len(chunks)]
  IN  IF chunks = <<>> \/ (c > Len(chunks) /\ Len(full) = ChunkCapacity)
      THEN Append(chunks, <<source>>)
      ELSE IF c > Len(chunks) THEN [chunks EXCEPT ![Len(chunks)] = Append(@, source)]
      ELSE IF Len(chunks[c]) < ChunkCapacity THEN [chunks EXCEPT ![c] = InsertAt(@, at, source)]
      ELSE LET left == UpTo(chunks[c], half)
               right == From(chunks[c], half + 1)
           IN  IF at < half
               THEN InsertAt([chunks EXCEPT ![c] = InsertAt(left, at, source)], c, right)
               ELSE InsertAt([chunks EXCEPT ![c] = left], c, InsertAt(right, at - half, source))

Inserted(chunks, list) ==
  LET next[i \in 0..Len(list)] ==
        IF i = 0 THEN chunks ELSE try_insert_source(next[i - 1], list[i].source)
  IN  next[Len(list)]

\* The batch sorted by path; equal paths in reverse order of arrival.
Accepted(batch) ==
  LET sorted[i \in 0..Len(batch)] ==
        IF i = 0 THEN <<>>
        ELSE LET s == sorted[i - 1]
                 at == Cardinality({k \in 1..Len(s) : Less(s[k].source, batch[i].source)})
             IN  InsertAt(s, at, batch[i])
  IN  sorted[Len(batch)]

OverBudget(list) ==
  \/ \E r \in RowsOf(list) : Len(list[r].proposed) > MaxName
  \/ NameSum(list) > MaxNames
  \/ PathSum(list) > MaxPlanned

\* append_batch_indexed. The index is rebuilt when it does not follow this
\* list; only sources of the list, not of the batch, count as duplicates.
AppendBatch ==
  /\ Step
  /\ \E p, q \in Pool : \E two, fails \in BOOLEAN :
       LET batch == IF two THEN <<NewItem(p), NewItem(q)>> ELSE <<NewItem(p)>>
           chunks == IF is_current_for THEN index.chunks
                     ELSE try_chunk_sorted_sources(SortedSources(items))
           new == Accepted(SelectSeq(batch, LAMBDA i : ~source_chunks_contain(chunks, i.source)))
           list == items \o new
       IN  /\ Len(list) <= MaxRows
           /\ IF new = <<>>
              THEN /\ Refuse("append", IF fails /\ ~is_current_for THEN "AllocationFailed" ELSE "None")
                   /\ index' = IF fails /\ ~is_current_for THEN index
                               ELSE [identity |-> identity, revision |-> revision, chunks |-> chunks]
                   /\ UNCHANGED <<revision, identity>>
              ELSE IF OverBudget(list)
              THEN Refuse("append", "Budget") /\ UNCHANGED sourceVars
              ELSE IF fails
              THEN \* while staging, or while the index takes the new sources
                   /\ Refuse("append", "AllocationFailed")
                   /\ index' \in {index, Unbound}
                   /\ UNCHANGED <<revision, identity>>
              ELSE /\ items' = list
                   /\ name_units' = name_units + NameSum(new)
                   /\ path_units' = path_units + PathSum(new)
                   /\ invalidate_source_index
                   /\ index' = [identity |-> identity', revision |-> revision',
                                chunks |-> Inserted(chunks, new)]
                   /\ Report("append", "None", <<>>, TRUE)

-----------------------------------------------------------------------------
(***************************************************************************)
(* Rows.                                                                   *)
(***************************************************************************)
Clear ==
  /\ Step
  /\ items' = <<>> /\ name_units' = 0 /\ path_units' = 0
  /\ IF items # <<>> THEN invalidate_source_index ELSE UNCHANGED <<revision, identity>>
  /\ Report("clear", "None", <<>>, TRUE)
  /\ UNCHANGED index

Others(list, rows) ==
  LET left == RowsOf(list) \ rows
  IN  [i \in 1..Cardinality(left) |-> list[CHOOSE r \in left : Cardinality({q \in left : q < r}) = i - 1]]

RemoveRows ==
  /\ Step
  /\ \E selected \in SUBSET RowsOf(items) \ {{}} :
       LET removed == Others(items, RowsOf(items) \ selected)
       IN  /\ items' = Others(items, selected)
           /\ name_units' = name_units - NameSum(removed)
           /\ path_units' = path_units - PathSum(removed)
  /\ invalidate_source_index
  /\ Report("remove", "None", <<>>, TRUE)
  /\ UNCHANGED index

Swap(list, i, j) == [list EXCEPT ![i] = list[j], ![j] = list[i]]

SwappedEarlier(list, selected) ==
  LET done[i \in 0..Len(list)] ==
        IF i = 0 THEN list
        ELSE IF i \in selected THEN Swap(done[i - 1], i - 1, i) ELSE done[i - 1]
  IN  done[Len(list)]

SwappedLater(list, selected) ==
  LET done[i \in 1..Len(list) + 1] ==
        IF i = Len(list) + 1 THEN list
        ELSE IF i \in selected THEN Swap(done[i + 1], i, i + 1) ELSE done[i + 1]
  IN  done[1]

\* A selection that touches the end does not move at all.
MoveRowsEarlier ==
  /\ Step
  /\ \E selected \in SUBSET RowsOf(items) :
       LET stuck == 1 \in selected
       IN  /\ items' = IF stuck THEN items ELSE SwappedEarlier(items, selected)
           /\ Report("earlier", "None", [r \in selected |-> IF stuck THEN r ELSE r - 1], TRUE)
  /\ UNCHANGED <<name_units, path_units, sourceVars>>

MoveRowsLater ==
  /\ Step
  /\ \E selected \in SUBSET RowsOf(items) :
       LET stuck == Len(items) \in selected
       IN  /\ items' = IF stuck THEN items ELSE SwappedLater(items, selected)
           /\ Report("later", "None", [r \in selected |-> IF stuck THEN r ELSE r + 1], TRUE)
  /\ UNCHANGED <<name_units, path_units, sourceVars>>

\* compare_items of the modes; the time modes compare a number like the size.
Before(mode, x, y) ==
  CASE mode = "NameAscending" -> Less(x.name, y.name)
    [] mode = "NameDescending" -> Less(y.name, x.name)
    [] mode = "FullPathAscending" -> Less(x.source, y.source)
    [] mode = "FullPathDescending" -> Less(y.source, x.source)
    [] mode = "SizeAscending" -> x.size < y.size
    [] mode = "SizeDescending" -> y.size < x.size

Modes == {"NameAscending", "NameDescending", "FullPathAscending", "FullPathDescending",
          "SizeAscending", "SizeDescending"}

\* order.sort_by: row r goes after every smaller row and every equal one that
\* came first.
Order(list, mode) ==
  [k \in RowsOf(list) |->
     CHOOSE r \in RowsOf(list) :
       k - 1 = Cardinality({q \in RowsOf(list) :
                 Before(mode, list[q], list[r]) \/ (q < r /\ ~Before(mode, list[r], list[q]))})]

\* Every cycle of the permutation is followed with swaps; a position that
\* holds its final row is marked by the identity.
Permuted(list, order) ==
  LET run[i \in 0..2 * Len(list)] ==
        IF i = 0 THEN [list |-> list, order |-> order, start |-> 1, current |-> 1]
        ELSE LET s == run[i - 1]
                 next == s.order[s.current]
             IN  IF s.start > Len(list) THEN s
                 ELSE IF next = s.current THEN [s EXCEPT !.start = @ + 1, !.current = s.start + 1]
                 ELSE IF next = s.start
                 THEN [s EXCEPT !.order[s.current] = s.current, !.start = @ + 1, !.current = s.start + 1]
                 ELSE [s EXCEPT !.order[s.current] = s.current,
                                !.list = Swap(@, s.current, next), !.current = next]
  IN  run[2 * Len(list)].list

Sort ==
  /\ Step
  /\ \E mode \in Modes :
       /\ items' = Permuted(items, Order(items, mode))
       /\ Report(mode, "None", <<>>, TRUE)
  /\ UNCHANGED <<name_units, path_units, sourceVars>>

-----------------------------------------------------------------------------
(***************************************************************************)
(* Proposals. Proposed(f) is the list with the texts f in place.           *)
(***************************************************************************)
Proposed(texts) == [r \in RowsOf(items) |-> [items[r] EXCEPT !.proposed = texts[r]]]
Parts(r) == stem_extension(items[r].proposed, items[r].dir)

\* changed_proposals: no failure, the counters go down by what was removed.
changed_proposals(op, texts) ==
  LET list == Proposed(texts)
      removed == name_units - NameSum(list)
  IN  /\ items' = list
      /\ name_units' = NameSum(list)
      /\ path_units' = path_units - (IF removed > 0 THEN removed ELSE 0)
      /\ Report(op, "None", [r \in {q \in RowsOf(items) : list[q] # items[q]} |-> r], TRUE)

\* try_changed_proposals: all rows are staged and counted, then applied.
try_changed_proposals(op, next) ==
  LET list == Proposed([r \in RowsOf(items) |-> next[r].text])
      over == OverBudget(list) \/ \E r \in RowsOf(items) : next[r].requested > MaxName
  IN  \/ over /\ Refuse(op, "Budget")
      \/ ~over /\ items # <<>> /\ Refuse(op, "AllocationFailed")
      \/ /\ ~over
         /\ items' = list
         /\ name_units' = NameSum(list) /\ path_units' = PathSum(list)
         /\ Report(op, "None", <<>>, \A r \in RowsOf(items) : next[r].requested = Len(next[r].text))

Plain(text) == Built(text, Len(text))

ResetProposals == try_changed_proposals("reset", [r \in RowsOf(items) |-> Plain(items[r].name)])

ReplaceComplete(from, to) ==
  try_changed_proposals("replace", [r \in RowsOf(items) |-> replaced_units(items[r].proposed, from, to)])

PrefixComplete(prefix) ==
  IF prefix = <<>> THEN Refuse("prefix", "None")
  ELSE try_changed_proposals("prefix", [r \in RowsOf(items) |->
         Built(prefix \o items[r].proposed, Len(prefix) + Len(items[r].proposed))])

SuffixBeforeExtension(suffix) ==
  IF suffix = <<>> THEN Refuse("suffix", "None")
  ELSE try_changed_proposals("suffix", [r \in RowsOf(items) |->
         Built(Parts(r).stem \o suffix \o Parts(r).extension,
               Len(Parts(r).stem) + Len(suffix) + Len(Parts(r).extension))])

ClearName == changed_proposals("clear_name", [r \in RowsOf(items) |-> Parts(r).extension])

DeleteFrontRange(start, end) ==
  IF start = 0 /\ end = 0 THEN Refuse("delete_front", "None")
  ELSE IF end > 0 /\ start > end THEN Refuse("delete_front", "InvalidInput")
  ELSE changed_proposals("delete_front", [r \in RowsOf(items) |->
         delete_front_range(Parts(r).stem, start, end) \o Parts(r).extension])

DeleteLast(count) ==
  IF count = 0 THEN Refuse("delete_last", "None")
  ELSE changed_proposals("delete_last", [r \in RowsOf(items) |-> delete_last(Parts(r).stem, count) \o Parts(r).extension])

DeleteFirstDelimited(start, end) ==
  IF start = <<>> \/ end = <<>> THEN Refuse("delete_delimited", "InvalidInput")
  ELSE changed_proposals("delete_delimited", [r \in RowsOf(items) |->
         delete_first_delimited(Parts(r).stem, start[1], end[1]) \o Parts(r).extension])

KeepAsciiDigits ==
  changed_proposals("keep_digits", [r \in RowsOf(items) |-> keep_ascii_digits(Parts(r).stem) \o Parts(r).extension])

BadWidth(width) == IF width = 0 THEN "InvalidInput" ELSE IF width > MaxName THEN "Budget" ELSE "None"

PadLastDigitRun(width) ==
  IF BadWidth(width) # "None" THEN Refuse("pad", BadWidth(width))
  ELSE try_changed_proposals("pad", [r \in RowsOf(items) |->
         padded_digit_run(Parts(r), width, last_digit_run(Parts(r).stem))])

PadFirstDigitRun(width) ==
  IF BadWidth(width) # "None" THEN Refuse("pad", BadWidth(width))
  ELSE try_changed_proposals("pad", [r \in RowsOf(items) |->
         padded_digit_run(Parts(r), width, first_digit_run(Parts(r).stem))])

WrappingNext(n) == IF n = I32Max THEN -(I32Max + 1) ELSE n + 1

\* The number of row r: it restarts where the folder changes.
SequenceNumber(start, restart) ==
  LET number[r \in RowsOf(items)] ==
        IF r = 1 \/ (restart /\ ~Same(items[r - 1].parent, items[r].parent)) THEN start
        ELSE WrappingNext(number[r - 1])
  IN  number

AddSequence(width, first, append, restart) ==
  LET start == IF first < 0 THEN 0 ELSE first
      number == SequenceNumber(start, restart)
      units(r) == IF width > Len(NumberText(number[r])) THEN width ELSE Len(NumberText(number[r]))
      text(r) == Zeros(units(r) - Len(NumberText(number[r]))) \o NumberText(number[r])
  IN  IF BadWidth(width) # "None" THEN Refuse("sequence", BadWidth(width))
      ELSE try_changed_proposals("sequence", [r \in RowsOf(items) |->
             Built((IF append THEN Parts(r).stem \o text(r) ELSE text(r) \o Parts(r).stem) \o Parts(r).extension,
                   Len(Parts(r).stem) + units(r) + Len(Parts(r).extension))])

DeleteExtension == changed_proposals("delete_extension", [r \in RowsOf(items) |-> Parts(r).stem])

BadExtension(extension) ==
  IF extension = <<>> THEN "None"
  ELSE IF Len(normalized_extension(extension)) > MaxName THEN "Budget" ELSE "Ok"

AddExtension(extension) ==
  IF BadExtension(extension) # "Ok" THEN Refuse("extension", BadExtension(extension))
  ELSE try_changed_proposals("extension", [r \in RowsOf(items) |->
         Plain(items[r].proposed \o normalized_extension(extension))])

ReplaceExtension(extension) ==
  IF BadExtension(extension) # "Ok" THEN Refuse("extension", BadExtension(extension))
  ELSE try_changed_proposals("extension", [r \in RowsOf(items) |->
         Plain(Parts(r).stem \o normalized_extension(extension))])

PrefixParentFolder ==
  try_changed_proposals("prefix_parent", [r \in RowsOf(items) |->
    LET folder == parent_folder(items[r].parent)
    IN  IF folder = <<>> THEN Plain(items[r].proposed)
        ELSE Built(folder \o <<"_">> \o items[r].proposed, Len(folder) + 1 + Len(items[r].proposed))])

SuffixParentFolder ==
  try_changed_proposals("suffix_parent", [r \in RowsOf(items) |->
    LET folder == parent_folder(items[r].parent)
    IN  IF folder = <<>> THEN Plain(items[r].proposed)
        ELSE Built(Parts(r).stem \o <<"_">> \o folder \o Parts(r).extension,
                   Len(Parts(r).stem) + 1 + Len(folder) + Len(Parts(r).extension))])

\* Lines beyond the last row are ignored, rows beyond the last line kept.
ImportNames(text) ==
  LET lines == import_lines(text)
  IN  try_changed_proposals("import", [r \in RowsOf(items) |->
        Plain(IF r <= Len(lines) THEN lines[r] ELSE items[r].proposed)])

ManualChange(r, text) ==
  LET list == [items EXCEPT ![r].proposed = text]
      names == name_units - Len(items[r].proposed) + Len(text)
      paths == path_units - PathUnits(items[r]) + PathUnits(list[r])
  IN  IF Len(text) > MaxName \/ names > MaxNames \/ paths > MaxPlanned
      THEN Refuse("manual", "Budget")
      ELSE /\ items' = list /\ name_units' = names /\ path_units' = paths
           /\ Report("manual", "None", <<>>, TRUE)

-----------------------------------------------------------------------------
(***************************************************************************)
(* Destination parents.                                                    *)
(***************************************************************************)
WithParents(parents) == [r \in RowsOf(items) |-> [items[r] EXCEPT !.parent = parents[r]]]

UnifyDestinationParent(parent) ==
  LET normal == normalized_destination_parent(parent)
      units == (Len(normal) + destination_separator_units(normal)) * Len(items) + name_units
  IN  IF Len(normal) > MaxParent \/ units > MaxPlanned THEN Refuse("unify", "Budget")
      ELSE \/ Refuse("unify", "AllocationFailed")
           \/ /\ items' = WithParents([r \in RowsOf(items) |-> normal])
              /\ path_units' = units
              /\ Report("unify", "None", <<>>, TRUE)
              /\ UNCHANGED name_units

\* Mutant: the counter is left as it was.
ResetDestinationParents_NoCount ==
  /\ items' = WithParents([r \in RowsOf(items) |-> source_parent(items[r].source)])
  /\ Report("reset_parents", "None", <<>>, TRUE)
  /\ UNCHANGED <<name_units, path_units>>

ResetDestinationParents ==
  LET list == WithParents([r \in RowsOf(items) |-> source_parent(items[r].source)])
      over == PathSum(list) > MaxPlanned \/ \E r \in RowsOf(list) : Len(list[r].parent) > MaxParent
  IN  IF over THEN Refuse("reset_parents", "Budget")
      ELSE \/ Refuse("reset_parents", "AllocationFailed")
           \/ /\ items' = list /\ path_units' = PathSum(list)
              /\ Report("reset_parents", "None", <<>>, TRUE)
              /\ UNCHANGED name_units

\* record_move_success: the planned path becomes the source.
Moved(item) ==
  LET path == planned_path(item.parent, item.proposed)
  IN  [item EXCEPT !.source = path, !.name = path_name(path), !.proposed = path_name(path),
                   !.parent = source_parent(path)]

\* The planner let the row through: its name is a Windows leaf name.
RecordMoveSuccess ==
  /\ Step
  /\ \E r \in RowsOf(items) :
       /\ validate_windows_leaf_name(items[r].proposed, MaxName) = "Ok"
       /\ items' = [items EXCEPT ![r] = Moved(@)]
       /\ name_units' = name_units - Len(items[r].proposed) + Len(items'[r].proposed)
       /\ Report("moved", "None", [q \in {r} |-> q], TRUE)
  /\ invalidate_source_index
  /\ UNCHANGED <<path_units, index>>

-----------------------------------------------------------------------------
Widths == {0, 1, 3, MaxName + 1}

\* The commands that keep the sources and their order.
Edit ==
  /\ Step
  /\ UNCHANGED sourceVars
  /\ \/ ResetProposals \/ ClearName \/ KeepAsciiDigits \/ DeleteExtension
     \/ PrefixParentFolder \/ SuffixParentFolder \/ ResetDestinationParents
     \/ \E s, t \in Texts : ReplaceComplete(s, t) \/ DeleteFirstDelimited(s, t)
     \/ \E t \in Texts : PrefixComplete(t) \/ SuffixBeforeExtension(t) \/ AddExtension(t) \/ ReplaceExtension(t)
     \/ \E i, j \in 0..2 : DeleteFrontRange(i, j)
     \/ \E n \in 0..2 : DeleteLast(n)
     \/ \E w \in Widths : PadLastDigitRun(w) \/ PadFirstDigitRun(w)
     \/ \E w \in Widths : \E n \in {-1, 0, I32Max} : \E append, restart \in BOOLEAN :
          AddSequence(w, n, append, restart)
     \/ \E text \in Imports : ImportNames(text)
     \/ \E r \in RowsOf(items) : \E t \in Texts : ManualChange(r, t)
     \/ \E p \in Parents : UnifyDestinationParent(p)

\* The commands that change the sources or their order.
RowsNext == \/ AppendBatch \/ Clear \/ RemoveRows \/ MoveRowsEarlier \/ MoveRowsLater \/ Sort
            \/ RecordMoveSuccess

Next == RowsNext \/ Edit

Spec == Init /\ [][Next]_vars

-----------------------------------------------------------------------------
(***************************************************************************)
(* The running counters that guard the budgets are exact: whatever the     *)
(* sequence of commands, they equal what the rows hold. Transforms that    *)
(* cannot fail rely on it and on never making a name longer.               *)
(***************************************************************************)
CountersExact == name_units = NameSum(items) /\ path_units = PathSum(items)

(***************************************************************************)
(* An index that claims to follow this list holds its sources: sorted over *)
(* all chunks, one entry per row. A stale one is never consulted.          *)
(***************************************************************************)
Flat(chunks) ==
  LET flat[c \in 0..Len(chunks)] == IF c = 0 THEN <<>> ELSE flat[c - 1] \o chunks[c]
  IN  flat[Len(chunks)]

IndexFollowsSources ==
  LET flat == Flat(index.chunks)
      count(s, path) == Cardinality({i \in 1..Len(s) : s[i] = path})
  IN  is_current_for =>
        /\ Len(flat) = Len(items)
        /\ \A i \in 1..Len(flat) - 1 : ~Less(flat[i + 1], flat[i])
        /\ \A r \in RowsOf(items) :
             count(flat, items[r].source) = count([q \in RowsOf(items) |-> items[q].source], items[r].source)

(***************************************************************************)
(* A command that reports an error has changed no row and no counter.      *)
(***************************************************************************)
RefusedChangesNothing ==
  last'.error # "None" => UNCHANGED <<items, name_units, path_units>>

(***************************************************************************)
(* The units a transform asks for before it builds a name are the units    *)
(* the name then has (the debug assertion in try_build_proposal).          *)
(***************************************************************************)
SizesForeseen == last.exact

(***************************************************************************)
(* The selection reported after moving rows selects the same rows as       *)
(* before, and the rows around them keep their order.                      *)
(***************************************************************************)
SelectionFollowsRows ==
  last'.op \in {"earlier", "later"} /\ ops' # ops =>
     LET rows == last'.rows
     IN  /\ \A r \in DOMAIN rows : items'[rows[r]] = items[r]
         /\ Others(items', {rows[r] : r \in DOMAIN rows}) = Others(items, DOMAIN rows)

(***************************************************************************)
(* The in-place sort leaves the rows in the mode's order, and rows that    *)
(* compare equal in the order they were in.                                *)
(***************************************************************************)
SortIsStable ==
  last'.op \in Modes /\ ops' # ops =>
     items' = [k \in RowsOf(items) |-> items[Order(items, last'.op)[k]]]

(***************************************************************************)
(* A row that was renamed is not a change any more: its planned path is    *)
(* its source, down to the separator.                                      *)
(***************************************************************************)
MovedIsSettled ==
  last.op = "moved" =>
    \A r \in DOMAIN last.rows : Kind(items[r]) = "None" /\ planned_path(items[r].parent, items[r].proposed) = items[r].source

(***************************************************************************)
(* A row counts as unchanged exactly when applying it would not move it.   *)
(***************************************************************************)
UnchangedMeansSamePath ==
  \A r \in RowsOf(items) :
    Kind(items[r]) = "None" <=> planned_path(items[r].parent, items[r].proposed) = items[r].source
=============================================================================
