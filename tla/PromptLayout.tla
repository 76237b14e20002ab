---------------------------- MODULE PromptLayout ----------------------------
(***************************************************************************)
(* Layout and place of the modal prompt (ui_layout.rs, windows/dialog.rs): *)
(* it is measured against the monitor's work area when it opens over its   *)
(* owner and again, in its own place, on WM_DPICHANGED, WM_SETTINGCHANGE   *)
(* and WM_FONTCHANGE.                                                      *)
(***************************************************************************)
EXTENDS MainLayout, FiniteSetsExt, FiniteSets

CONSTANTS
  Dpis, WorkAreas,
  Fonts,       \* [title_width, title_height, label_width, label_height, line_height] at 96 dpi
  Forms,       \* [value_one, value_two, choice, read_only] of the prompts
  Owners       \* rectangles of the owner window

PromptLayoutAssumption == Dpis \subseteq Nat \ {0}

VARIABLES form, dpi, font, work, win, layout

vars == <<form, dpi, font, work, win, layout>>

-----------------------------------------------------------------------------
SumOf(s) == FoldSet(LAMBDA i, sum : s[i] + sum, 0, DOMAIN s)

(***************************************************************************)
(* One pixel at a time to every section in turn until it has its height:   *)
(* all get their height up to the same level, and the first ones still     *)
(* below it share what is left.                                            *)
(***************************************************************************)
fit_prompt_section_heightsFirst(desired, available) ==   \* mutant: first come, first served
  [i \in DOMAIN desired |->
     Clamp(available - SumOf([j \in 1..(i - 1) |-> desired[j]]), 0, desired[i])]

fit_prompt_section_heights(desired, available) ==
  LET n      == Len(desired)
      upto(k) == [i \in 1..n |-> Smallest(desired[i], k)]
      level  == Max({k \in 0..Largest(available, 0) : SumOf(upto(k)) <= available})
      below  == {i \in 1..n : desired[i] > level}
      extra  == available - SumOf(upto(level))
      rank(i) == Cardinality({j \in below : j < i})
  IN  IF SumOf(desired) <= available THEN desired
      ELSE [i \in 1..n |-> upto(level)[i] + (IF i \in below /\ rank(i) < extra THEN 1 ELSE 0)]

Sections == <<"title", "one", "two", "choice", "separator", "buttons">>

Present(f) ==
  SelectSeq(Sections, LAMBDA s :
    CASE s = "one" -> f.value_one [] s = "two" -> f.value_two
      [] s = "choice" -> f.choice [] OTHER -> TRUE)

DesiredHeights(d, m, present) ==
  LET line == Largest(m.line_height, scale_dip(16, d))
  IN  [i \in DOMAIN present |->
         CASE present[i] = "title"     -> Largest(m.title_height, line)
           [] present[i] = "separator" -> Largest(scale_dip(2, d), 1)
           [] present[i] = "buttons"   -> line + scale_dip(14, d)
           [] OTHER                    -> Largest(line + scale_dip(8, d), m.label_height)]

LabelWidth(d, m) == Largest(Largest(m.label_width, 0) + scale_dip(8, d), scale_dip(70, d))

\* The columns: a label and its field share a row, the buttons end it.
PromptColumns(d, m, width, pad, inner) ==
  LET gap    == Largest(Smallest(scale_dip(8, d), (inner - 2) \div 4), 0)
      label  == Smallest(LabelWidth(d, m), Largest((inner - gap) \div 3, 1))
      gap_b  == Smallest(gap, Largest(inner - 2, 0) \div 3)
      button == Smallest(scale_dip(75, d), (inner - gap_b) \div 2)
  IN  [ whole  |-> [x |-> pad, width |-> inner],
        label  |-> [x |-> pad, width |-> label],
        edit   |-> [x |-> pad + label + gap, width |-> inner - gap - label],
        choice |-> [x |-> pad, width |-> Smallest(scale_dip(185, d), inner)],
        line   |-> [x |-> 0, width |-> width],
        cancel |-> [x |-> width - pad - button, width |-> button],
        ok     |-> [x |-> width - pad - 2 * button - gap_b, width |-> button] ]

\* The rows: where each section begins, from the heights they were given.
SectionTop(heights, pad, gap, i) == pad + SumOf([j \in 1..(i - 1) |-> heights[j] + gap])

PromptRow(present, heights, pad, gap, s, column) ==
  LET rows == {Rect(column.x, SectionTop(heights, pad, gap, i), column.width, heights[i]) :
                 i \in {k \in DOMAIN present : present[k] = s}}
  IN  IF rows = {} THEN NoRect ELSE CHOOSE r \in rows : TRUE

PromptParts(present, client, columns, heights, pad, gap) ==
  LET row(s, column) == PromptRow(present, heights, pad, gap, s, column)
  IN  [ client |-> client,
        title  |-> row("title", columns.whole),
        label_one |-> row("one", columns.label), edit_one |-> row("one", columns.edit),
        label_two |-> row("two", columns.label), edit_two |-> row("two", columns.edit),
        choice |-> row("choice", columns.choice),
        separator |-> row("separator", columns.line),
        cancel |-> row("buttons", columns.cancel),
        ok     |-> row("buttons", columns.ok) ]

\* Short of height, the margins shrink first, then the gaps, then the sections.
PromptInClient(d, m, present, desired, client) ==
  LET n     == Len(present)
      pad_x == Smallest(scale_dip(12, d), (client.width - 1) \div 2)
      pad_y == Smallest(scale_dip(12, d), Largest(client.height - n, 0) \div 2)
      inside == client.height - 2 * pad_y
      gap_y == Smallest(scale_dip(8, d), Largest(inside - n, 0) \div (n - 1))
  IN  PromptParts(present, client,
        PromptColumns(d, m, client.width, pad_x, Largest(client.width - 2 * pad_x, 1)),
        fit_prompt_section_heights(desired, inside - (n - 1) * gap_y), pad_y, gap_y)

PromptOf(d, m, maximum, present, desired) ==
  LET padding == scale_dip(12, d)
      gap     == scale_dip(8, d)
      content == Largest(Largest(scale_dip(356, d), m.title_width),
                         scale_dip(275, d) + gap + LabelWidth(d, m))
  IN  PromptInClient(d, m, present, desired,
        Rect(0, 0, Clamp(content + 2 * padding, 1, Largest(maximum.width, 1)),
             Clamp(SumOf(desired) + (Len(present) - 1) * gap + 2 * padding, 1,
                   Largest(maximum.height, 1))))

calculate_prompt_layout(d, m, f, maximum) ==
  LET present == Present(f)
  IN  PromptOf(d, m, maximum, present, DesiredHeights(d, m, present))

\* The details window: the text spans the width, and grows to twelve lines
\* when the monitor has the room.
OneField == [value_one |-> TRUE, value_two |-> FALSE, choice |-> FALSE]

ReadOnlyParts(d, line, maximum, l) ==
  LET grow   == Smallest(Largest(12 * line + scale_dip(8, d) - l.edit_one.height, 0),
                         Largest(maximum.height - l.client.height, 0))
      gap    == Smallest(scale_dip(8, d), Largest(l.title.width - 2, 0) \div 3)
      button == Largest(Smallest(7 * line + scale_dip(8, d), (l.title.width - gap) \div 2), 1)
      x      == right(l.title) - button
  IN  [l EXCEPT !.edit_one = Rect(l.title.x, @.y, l.title.width, @.height + grow),
                !.label_one = NoRect,
                !.separator.y = @ + grow,
                !.cancel = Rect(x, @.y + grow, button, @.height),
                !.ok = Rect(x - gap - button, @.y + grow, button, @.height),
                !.client.height = @ + grow]

calculate_read_only_prompt_layout(d, m, maximum) ==
  ReadOnlyParts(d, Largest(m.line_height, scale_dip(16, d)), maximum,
                calculate_prompt_layout(d, m, OneField, maximum))

-----------------------------------------------------------------------------
(***************************************************************************)
(* Frame, measurement and placement.                                       *)
(***************************************************************************)
FrameWidth(d)  == scale_dip(6, d)
FrameHeight(d) == scale_dip(29, d)

maximum_prompt_client(d, wk) ==
  Rect(0, 0, Largest(wk.width - FrameWidth(d), 1), Largest(wk.height - FrameHeight(d), 1))

\* Text is wrapped at the widths the prompt can give it.
measure_prompt_font(f, d, maximum) ==
  LET title_limit == Largest(Smallest(scale_dip(520, d), maximum.width - scale_dip(24, d)), 1)
      label_limit == Smallest(scale_dip(138, d), Largest(title_limit - scale_dip(8, d), 0) \div 3)
  IN  [ title_width  |-> Smallest(scale_dip(f.title_width, d), title_limit),
        title_height |-> scale_dip(f.title_height, d)
                           * ((scale_dip(f.title_width, d) + title_limit - 1) \div title_limit),
        label_width  |-> Smallest(scale_dip(f.label_width, d), label_limit),
        label_height |-> scale_dip(f.label_height, d),
        line_height  |-> scale_dip(f.line_height, d) ]

position_prompt(client, d, anchor, wk, old) ==
  LET width  == client.width + FrameWidth(d)
      height == client.height + FrameHeight(d)
  IN  IF width > wk.width \/ height > wk.height THEN old
      ELSE Rect(Clamp(anchor.x + anchor.width \div 2 - width \div 2, wk.x, right(wk) - width),
                Clamp(anchor.y + anchor.height \div 2 - height \div 2, wk.y, bottom(wk) - height),
                width, height)

LayoutFor(f, d, fnt, wk) ==
  LET maximum == maximum_prompt_client(d, wk)
      m       == measure_prompt_font(fnt, d, maximum)
  IN  IF f.read_only THEN calculate_read_only_prompt_layout(d, m, maximum)
      ELSE calculate_prompt_layout(d, m, f, maximum)

arrange_prompt(anchor) ==
  /\ layout' = LayoutFor(form', dpi', font', work')
  /\ win' = position_prompt(layout'.client, dpi', anchor, work', win)

-----------------------------------------------------------------------------
Init ==
  /\ form \in Forms /\ dpi \in Dpis /\ font \in Fonts /\ work \in WorkAreas
  /\ layout = LayoutFor(form, dpi, font, work)
  /\ \E owner \in Owners : win = position_prompt(layout.client, dpi, owner, work, NoRect)

DpiChanged ==
  /\ dpi' \in Dpis \ {dpi} /\ work' \in WorkAreas
  /\ UNCHANGED <<form, font>>
  /\ arrange_prompt(win)

SettingChange ==
  /\ font' \in Fonts /\ work' \in WorkAreas
  /\ UNCHANGED <<form, dpi>>
  /\ arrange_prompt(win)

Next == DpiChanged \/ SettingChange

Spec == Init /\ [][Next]_vars

-----------------------------------------------------------------------------
Parts == {layout.title, layout.label_one, layout.edit_one, layout.label_two, layout.edit_two,
          layout.choice, layout.separator, layout.ok, layout.cancel} \ {NoRect}

TypeOK ==
  /\ form \in Forms /\ dpi \in Dpis /\ font \in Fonts /\ work \in WorkAreas
  /\ \A r \in Parts : r.x >= 0 /\ r.y >= 0 /\ r.width > 0 /\ r.height >= 0

(***************************************************************************)
(* The prompt is always completely on its monitor, however small it is.    *)
(***************************************************************************)
PromptOnMonitor == Inside(win, work)

(***************************************************************************)
(* Its controls are inside it and do not cover each other, also when the   *)
(* monitor cannot give them their heights.                                 *)
(***************************************************************************)
PromptPartsApart ==
  /\ \A r \in Parts : Inside(r, layout.client)
  /\ \A r, s \in Parts : r # s => Disjoint(r, s)

(***************************************************************************)
(* Short of room, every section keeps its share: as long as there is a     *)
(* line per section none disappears, so the buttons can still be clicked.  *)
(***************************************************************************)
ButtonsReachable ==
  layout.client.height >= 6 => (layout.ok.height > 0 /\ layout.cancel.height > 0)

(***************************************************************************)
(* The room that is there is used: a prompt is cut only when its client    *)
(* fills the whole work area.                                              *)
(***************************************************************************)
CutOnlyWhenFull ==
  LET line == Largest(scale_dip(font.line_height, dpi), scale_dip(16, dpi))
  IN  layout.client.height < maximum_prompt_client(dpi, work).height =>
        /\ layout.ok.height >= line + scale_dip(14, dpi)
        /\ form.read_only => layout.edit_one.height >= 12 * line
=============================================================================
