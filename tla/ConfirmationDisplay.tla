------------------------- MODULE ConfirmationDisplay -------------------------
(***************************************************************************)
(* How a name before and after its change is shown (confirmation_display   *)
(* and apply_confirmation_examples): exact UTF-16 units, escaped where     *)
(* they could deceive, and clipped around the change when they are long.   *)
(*                                                                         *)
(* The units that matter are a plain one, the path separators, the         *)
(* brackets an escape is written with, the ellipsis, and the halves of a   *)
(* surrogate pair.  An escape [U+hhhh] is written with two digits here.    *)
(* A pair of names grows unit by unit, in common or on one side, until it  *)
(* is shown at some width.                                                 *)
(***************************************************************************)
EXTENDS Integers, Sequences, FiniteSets, SequencesExt

CONSTANTS
  Units,          \* units that occur in a name
  MaxUnits,       \* longest name
  MaxDifferent,   \* units one name has and the other has not
  Budgets,        \* compact widths tried
  DetailBudget    \* DETAIL_FIELD_UNITS

DisplayAssumption ==
  /\ Units \subseteq {"x", "\\", "/", ":", "[", "]", "~", "High", "Low"}
  /\ Budgets \subseteq Nat /\ DetailBudget \in Nat

VARIABLES
  before, after,   \* source and destination of a row
  different,
  compact,         \* the compact example shown, the empty sequence before
  full,            \* the full one
  infotip          \* the old path as an infotip

vars == <<before, after, different, compact, full, infotip>>

shownVars == <<compact, full, infotip>>

Init ==
  /\ before = << >> /\ after = << >> /\ different = 0
  /\ compact = << >> /\ full = << >> /\ infotip = << >>

Common(u) ==
  /\ compact = << >>
  /\ Len(before) < MaxUnits /\ Len(after) < MaxUnits
  /\ before' = Append(before, u) /\ after' = Append(after, u)
  /\ UNCHANGED <<different, shownVars>>

OnlyBefore(u) ==
  /\ compact = << >>
  /\ different < MaxDifferent /\ Len(before) < MaxUnits
  /\ before' = Append(before, u) /\ different' = different + 1
  /\ UNCHANGED <<after, shownVars>>

OnlyAfter(u) ==
  /\ compact = << >>
  /\ different < MaxDifferent /\ Len(after) < MaxUnits
  /\ after' = Append(after, u) /\ different' = different + 1
  /\ UNCHANGED <<before, shownVars>>

-----------------------------------------------------------------------------
Ellipsis == <<"~">>

escaped(u) == u \in {"[", "]", "~"}

Surrogate(u) == u \in {"High", "Low"}

Digits(u) ==
  CASE u = "[" -> <<"0", "0">> [] u = "]" -> <<"0", "1">> [] u = "~" -> <<"0", "2">>
    [] u = "High" -> <<"1", "0">> [] u = "Low" -> <<"1", "1">>

Escape(u) == <<"[">> \o Digits(u) \o <<"]">>

PairAt(s, i) == s[i] = "High" /\ i < Len(s) /\ s[i + 1] = "Low"

\* What the token that starts at unit i is shown as.
Glyph(s, i) ==
  CASE PairAt(s, i) -> SubSeq(s, i, i + 1)
    [] ~PairAt(s, i) /\ (escaped(s[i]) \/ Surrogate(s[i])) -> Escape(s[i])
    [] OTHER -> <<s[i]>>

\* The tokens of a name: first and last unit, and the text shown.
tokens(s) ==
  LET starts == SelectSeq([i \in 1..Len(s) |-> i], LAMBDA i : ~(i > 1 /\ PairAt(s, i - 1)))
  IN  [n \in 1..Len(starts) |->
         [start |-> starts[n],
          end |-> IF PairAt(s, starts[n]) THEN starts[n] + 1 ELSE starts[n],
          text |-> Glyph(s, starts[n])]]

\* The text of tokens a..b, and its width in UTF-16 units.
Text(t, a, b) ==
  LET upto[n \in Nat] == IF n < a THEN << >> ELSE upto[n - 1] \o t[n].text IN upto[b]

cost(t, a, b) ==
  LET upto[n \in Nat] == IF n < a THEN 0 ELSE upto[n - 1] + Len(t[n].text) IN upto[b]

MaxIn(S) == CHOOSE n \in S : \A m \in S : m <= n
MinIn(S) == CHOOSE n \in S : \A m \in S : n <= m

\* The furthest a loop gets that takes tokens leftwards from l, or rightwards from r.
Leftwards(t, l, room)  == MinIn({k \in 1..l : cost(t, k, l - 1) <= room})
Rightwards(t, r, room) == MaxIn({k \in r..Len(t) : cost(t, r + 1, k) <= room})

Dots(hidden) == IF hidden THEN Ellipsis ELSE << >>

\* The tokens that units first..last touch.
FocusStart(t, first) == 1 + Cardinality({n \in DOMAIN t : t[n].end < first})

FocusEnd(t, first, last) ==
  LET end == Cardinality({n \in DOMAIN t : t[n].start <= last})
  IN  IF end < FocusStart(t, first) - 1 THEN FocusStart(t, first) - 1 ELSE end

\* The whole change fits: context is added on the left, the right, the left again.
Around(t, s, e, budget) ==
  LET room   == budget - cost(t, s, e) - 2
      left   == Leftwards(t, s, room \div 2)
      room2  == room - cost(t, left, s - 1)
      right  == Rightwards(t, e, room2)
      left2  == Leftwards(t, left, room2 - cost(t, e + 1, right))
  IN  Dots(left2 # 1) \o Text(t, left2, right) \o Dots(right # Len(t))

InnerRoom(t, s, e, budget) ==
  LET outer == (IF s # 1 THEN 1 ELSE 0) + (IF e # Len(t) THEN 1 ELSE 0)
  IN  IF budget > outer + 1 THEN budget - outer - 1 ELSE 0

\* It does not: its beginning and its end are shown.
Within(t, s, e, budget) ==
  LET room  == InnerRoom(t, s, e, budget)
      head  == MaxIn({k \in (s - 1)..e : cost(t, s, k) <= room \div 2})
      tail  == MinIn({k \in (head + 1)..(e + 1) :
                        cost(t, s, head) + cost(t, k, e) <= room})
  IN  Dots(s # 1) \o Text(t, s, head) \o Ellipsis \o Text(t, tail, e) \o Dots(e # Len(t))

FocusFits(t, s, e, budget) == cost(t, s, e) + 2 <= budget

\* render: units first..last of the name are the change.
render(t, first, last, budget) ==
  LET s == FocusStart(t, first)
      e == FocusEnd(t, first, last)
  IN  CASE budget = 0 -> << >>
        [] budget # 0 /\ cost(t, 1, Len(t)) <= budget -> Text(t, 1, Len(t))
        [] budget \in 1..2 /\ cost(t, 1, Len(t)) > budget -> Ellipsis
        [] OTHER -> IF FocusFits(t, s, e, budget) THEN Around(t, s, e, budget)
                    ELSE Within(t, s, e, budget)

-----------------------------------------------------------------------------
Shorter(a, b) == IF Len(a) < Len(b) THEN Len(a) ELSE Len(b)

CommonPrefix(a, b) ==
  MaxIn({k \in 0..Shorter(a, b) : SubSeq(a, 1, k) = SubSeq(b, 1, k)})

CommonSuffix(a, b) ==
  MaxIn({k \in 0..(Shorter(a, b) - CommonPrefix(a, b)) :
           SubSeq(a, Len(a) - k + 1, Len(a)) = SubSeq(b, Len(b) - k + 1, Len(b))})

Elided(left, right, budget) ==
  cost(left, 1, Len(left)) > budget \/ cost(right, 1, Len(right)) > budget

pair(a, b, budget) ==
  LET first == CommonPrefix(a, b) + 1
      x == render(tokens(a), first, Len(a) - CommonSuffix(a, b), budget)
      y == render(tokens(b), first, Len(b) - CommonSuffix(a, b), budget)
  IN  [before |-> x, after |-> y,
       elided |-> Elided(tokens(a), tokens(b), budget),
       hidden |-> a # b /\ x = y]

\* difference_evidence: the first unit that differs, and what it is on each side.
difference_evidence(a, b) ==
  LET i == CommonPrefix(a, b) + 1
      value(s) == IF i <= Len(s) THEN s[i] ELSE "End"
  IN  [index |-> i, before |-> value(a), after |-> value(b)]

\* split_windows_path: a root keeps its separator.
split_windows_path(s) ==
  LET at  == {i \in DOMAIN s : s[i] \in {"\\", "/"}}
      i   == MaxIn(at)
      end == IF i > 1 /\ s[i - 1] = ":" THEN i ELSE i - 1
  IN  IF at = {} THEN <<<< >>, s>> ELSE <<SubSeq(s, 1, end), SubSeq(s, i + 1, Len(s))>>

\* Mutant: the leaves are compared whenever the parents agree.
CompactFieldsLeaves ==
  LET from == split_windows_path(before)
      to   == split_windows_path(after)
  IN  IF from[1] # to[1] THEN <<before, after>> ELSE <<from[2], to[2]>>

\* What a compact example compares: the paths, or the leaves of one folder.
CompactFields ==
  LET from == split_windows_path(before)
      to   == split_windows_path(after)
  IN  IF from[1] # to[1] \/ from[2] = to[2] THEN <<before, after>> ELSE <<from[2], to[2]>>

\* apply_confirmation_examples for one row.
CompactExample(budget) ==
  LET f == CompactFields
      p == pair(f[1], f[2], budget)
  IN  [shown |-> <<p.before, p.after>>,
       evidence |-> IF p.hidden THEN <<difference_evidence(f[1], f[2])>> ELSE << >>,
       notice |-> CASE p.hidden -> "CompareFull"
                    [] ~p.hidden /\ p.elided -> "LongElided"
                    [] OTHER -> "None"]

FullExample ==
  LET from  == split_windows_path(before)[2]
      to    == split_windows_path(after)[2]
      names == pair(from, to, DetailBudget)
      paths == pair(before, after, DetailBudget)
  IN  [shown |-> <<names.before, names.after, paths.before, paths.after>>,
       evidence |-> IF names.hidden \/ paths.hidden
                    THEN <<difference_evidence(before, after)>> ELSE << >>,
       notice |-> IF names.elided \/ paths.elided THEN "CopyElided" ELSE "None"]

-----------------------------------------------------------------------------
EscapeAt(s, i) ==
  s[i] = "[" /\ i + 3 <= Len(s) /\ s[i + 3] = "]"

\* clip_diagnostic takes an escape or a character at a time.
ChunkWidth(s, i) == IF EscapeAt(s, i) THEN 4 ELSE IF PairAt(s, i) THEN 2 ELSE 1

clip_diagnostic(s, budget) ==
  LET ends[n \in Nat] ==
        IF n = 0 THEN 0
        ELSE IF ends[n - 1] >= Len(s) THEN Len(s)
        ELSE ends[n - 1] + ChunkWidth(s, ends[n - 1] + 1)
      cuts == {ends[n] : n \in 0..Len(s)}
  IN  CASE Len(s) <= budget -> s
        [] Len(s) > budget /\ budget = 0 -> << >>
        [] OTHER -> SubSeq(s, 1, MaxIn({c \in cuts : c <= budget - 1})) \o Ellipsis

Whole(s) == Text(tokens(s), 1, Len(tokens(s)))

\* The confirmation is filled for a row that changes, at a width b.
Confirm(b) ==
  /\ compact = << >> /\ before # after
  /\ compact' = <<[width |-> b] @@ CompactExample(b)>>
  /\ full' = <<FullExample>>
  /\ infotip' = clip_diagnostic(Whole(before), b)
  /\ UNCHANGED <<before, after, different>>

Next ==
  \/ \E u \in Units : Common(u) \/ OnlyBefore(u) \/ OnlyAfter(u)
  \/ \E b \in Budgets : Confirm(b)

Spec == Init /\ [][Next]_vars

-----------------------------------------------------------------------------
(***************************************************************************)
(* Names that differ in any unit are written differently, whatever units   *)
(* they hold: a lone surrogate, an ellipsis, or brackets that look like an *)
(* escape.                                                                 *)
(***************************************************************************)
DiagnosticsInjective == Whole(before) = Whole(after) => before = after

Confirmed == compact # << >>

(***************************************************************************)
(* A shown name fits its width, for every width.                           *)
(***************************************************************************)
FitsBudget ==
  Confirmed =>
    /\ \A n \in 1..2 : Len(compact[1].shown[n]) <= compact[1].width
    /\ \A n \in 1..4 : Len(full[1].shown[n]) <= DetailBudget

Shows(s, part) ==
  \E i \in 1..(Len(s) - Len(part) + 1) : SubSeq(s, i, i + Len(part) - 1) = part

\* The text of a's tokens that hold units b has not, between what both have.
ChangedText(a, b) ==
  LET t       == tokens(a)
      touched == {n \in DOMAIN t : /\ t[n].end > CommonPrefix(a, b)
                                   /\ t[n].start <= Len(a) - CommonSuffix(a, b)}
  IN  IF touched = {} THEN << >> ELSE Text(t, MinIn(touched), MaxIn(touched))

ShowsChange(a, b, shown, width) ==
  Len(ChangedText(a, b)) + 2 <= width => Shows(shown, ChangedText(a, b))

(***************************************************************************)
(* When the changed part of a name or path fits the width, all of it is    *)
(* shown, in whole characters and escapes.                                 *)
(***************************************************************************)
ChangeIsShown ==
  Confirmed =>
    LET f == CompactFields
    IN  /\ ShowsChange(before, after, full[1].shown[3], DetailBudget)
        /\ ShowsChange(after, before, full[1].shown[4], DetailBudget)
        /\ ShowsChange(f[1], f[2], compact[1].shown[1], compact[1].width)
        /\ ShowsChange(f[2], f[1], compact[1].shown[2], compact[1].width)

(***************************************************************************)
(* A row never looks as if it changed nothing: its two sides differ on the *)
(* screen, or the first unit that differs is named.                        *)
(***************************************************************************)
Distinguishes(example, a, b) ==
  \/ example.shown[a] # example.shown[b]
  \/ example.evidence # << >> /\ example.evidence[1].before # example.evidence[1].after

ChangeIsVisible ==
  Confirmed => Distinguishes(full[1], 3, 4) /\ Distinguishes(compact[1], 1, 2)

(***************************************************************************)
(* Every elision is announced: dots in a shown name stand for missing text *)
(* and never appear without the notice that says so.                       *)
(***************************************************************************)
ElisionIsTold ==
  Confirmed =>
    \A example \in {compact[1], full[1]} :
      (\E n \in DOMAIN example.shown : "~" \in ToSet(example.shown[n]))
        => example.notice # "None"

(***************************************************************************)
(* An infotip cut to its width never ends in half a character or half an   *)
(* escape, and fits.                                                       *)
(***************************************************************************)
WellFormed(s) ==
  \A i \in DOMAIN s :
    /\ s[i] = "High" => PairAt(s, i)
    /\ s[i] = "Low" => i > 1 /\ PairAt(s, i - 1)
    /\ s[i] = "[" => EscapeAt(s, i)

ClippedWhole ==
  Confirmed => WellFormed(infotip) /\ Len(infotip) <= compact[1].width
=============================================================================
