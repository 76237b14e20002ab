-------------------------- MODULE AppearanceLayout --------------------------
(***************************************************************************)
(* Layout, place, scrolling and keyboard focus of the appearance window    *)
(* (ui_layout.rs, windows/appearance_dialog.rs).  Its footer with the      *)
(* three buttons is always shown; the options above it scroll when the     *)
(* monitor, the font or the resolution leave too little room.              *)
(***************************************************************************)
EXTENDS MainLayout

CONSTANTS
  Dpis, WorkAreas,
  Fonts,        \* [height, option, checkbox, button] at 96 dpi: text height and widest texts
  Owners,       \* rectangles of the owner window
  MaxEvents     \* bound on changes and user actions

AppearanceLayoutAssumption == Dpis \subseteq Nat \ {0} /\ MaxEvents \in Nat

VARIABLES
  dpi, font, forced, work,
  win,          \* the window, or NoRect before it is placed
  layout,       \* the last layout that was applied, or NoLayout
  scroll_y,
  arranged,     \* the last arrange_dialog succeeded
  focus,        \* the control with the keyboard focus, or "None"
  repairs,      \* posted WM_APP_APPEARANCE_RESTORE_FOCUS messages, by their flag
  wheeled,      \* the user scrolled since the focus last moved
  events

vars == <<dpi, font, forced, work, win, layout, scroll_y, arranged, focus, repairs, wheeled, events>>

Body   == <<"density_group", "density1", "density2", "density3", "density4",
            "emphasis_group", "emphasis1", "emphasis2", "emphasis3",
            "forced_explanation", "checkbox1", "checkbox2", "checkbox3", "separator">>
Footer == {"reset", "ok", "cancel"}

Stops == {"density1", "density2", "density3", "density4", "emphasis1", "emphasis2",
          "emphasis3", "checkbox1", "checkbox2", "checkbox3"} \cup Footer

InBody(c) == \E i \in 1..Len(Body) : Body[i] = c

-----------------------------------------------------------------------------
(***************************************************************************)
(* calculate_appearance_dialog_layout.                                     *)
(***************************************************************************)
ButtonWidth(d, m) == Largest(scale_dip(72, d), m.widest_button + scale_dip(24, d))

\* The row of three buttons with its margins.
ButtonRow(d, m) ==
  scale_dip(24, d) + Largest(scale_dip(124, d), ButtonWidth(d, m)) + 2 * ButtonWidth(d, m)
  + scale_dip(16, d)

horizontal_footer_minimum_width(d, button) == scale_dip(24, d) + 2 * button + scale_dip(8, d)

\* The rows of the body: where each group starts, and how high a row is.
Rows(d, m, explained) ==
  LET row      == Largest(Largest(scale_dip(20, d), m.text_height + scale_dip(6, d)),
                          m.wrapped_option + scale_dip(4, d))
      stride   == row + scale_dip(2, d)
      box      == Largest(Largest(scale_dip(22, d), m.text_height + scale_dip(6, d)),
                          m.wrapped_checkbox + scale_dip(4, d))
      explain  == IF explained
                  THEN Largest(Largest(scale_dip(40, d), 2 * m.text_height), m.wrapped_explanation)
                  ELSE 0
      density  == scale_dip(12, d)
      emphasis == density + scale_dip(22, d) + 4 * stride + scale_dip(6, d)
      content  == emphasis + scale_dip(22, d) + 3 * stride + scale_dip(6, d)
      boxes    == content + IF explained THEN explain + scale_dip(8, d) ELSE 0
      line     == boxes + 3 * (box + scale_dip(6, d)) + scale_dip(4, d)
  IN  [ row |-> row, stride |-> stride, box |-> box, box_stride |-> box + scale_dip(6, d),
        explain |-> explain, density |-> density, emphasis |-> emphasis, content |-> content,
        boxes |-> boxes, separator |-> line, height |-> line + scale_dip(1, d) + scale_dip(12, d) ]

\* Too narrow for one row, Reset gets a row of its own above the other two.
FooterOf(d, m, width) ==
  LET button    == Largest(scale_dip(30, d), m.button_text_height + scale_dip(12, d))
      available == width - 2 * scale_dip(12, d)
      compact   == available < ButtonRow(d, m) - scale_dip(24, d)
  IN  [ compact |-> compact, button |-> button, available |-> available,
        height |-> IF compact THEN 2 * button + scale_dip(26, d) ELSE button + scale_dip(18, d) ]

NoLayout == [client |-> NoRect, page |-> 0]

\* The options, in the scrolled area.
BodyParts(d, explained, rows, bounds) ==
  LET margin  == scale_dip(12, d)
      inner   == bounds.width - 2 * margin
      In(x, y, w, h)   == bounded_dialog_rect(x, y, w, h, bounds)
      Option(top, i)   == In(scale_dip(28, d), top + scale_dip(22, d) + rows.stride * i,
                             bounds.width - scale_dip(64, d), rows.row)
      Checkbox(i)      == In(scale_dip(20, d), rows.boxes + rows.box_stride * i,
                             bounds.width - scale_dip(40, d), rows.box)
  IN  <<In(margin, rows.density, inner, scale_dip(22, d) + 4 * rows.stride),
        Option(rows.density, 0), Option(rows.density, 1),
        Option(rows.density, 2), Option(rows.density, 3),
        In(margin, rows.emphasis, inner, scale_dip(22, d) + 3 * rows.stride),
        Option(rows.emphasis, 0), Option(rows.emphasis, 1), Option(rows.emphasis, 2),
        In(margin, rows.content, IF explained THEN inner ELSE 0, rows.explain),
        Checkbox(0), Checkbox(1), Checkbox(2),
        In(margin, rows.separator, inner, scale_dip(1, d))>>

\* The whole client: the page of options, and the footer below it.
DialogParts(d, explained, button, rows, foot, client) ==
  LET page    == client.height - foot.height
      margin  == scale_dip(12, d)
      each    == IF foot.compact THEN (foot.available - scale_dip(8, d)) \div 2 ELSE button
      cancel  == client.width - margin - each
      top     == page + IF foot.compact
                        THEN scale_dip(10, d) + foot.button + scale_dip(6, d) ELSE scale_dip(9, d)
  IN  [ client |-> client, page |-> page, content |-> rows.height,
        scroll_max |-> rows.height - page, compact |-> foot.compact,
        body |-> BodyParts(d, explained, rows,
                           Rect(0, 0, client.width - scale_dip(18, d), rows.height)),
        reset |-> IF foot.compact
                  THEN bounded_dialog_rect(margin, page + scale_dip(8, d), foot.available,
                                           foot.button, client)
                  ELSE bounded_dialog_rect(margin, top, Largest(scale_dip(124, d), button),
                                           foot.button, client),
        ok |-> bounded_dialog_rect(cancel - scale_dip(8, d) - each, top, each, foot.button, client),
        cancel |-> bounded_dialog_rect(cancel, top, each, foot.button, client) ]

DialogIn(d, maximum, explained, button, width, rows, foot) ==
  IF \/ maximum.width < Largest(scale_dip(240, d), horizontal_footer_minimum_width(d, button))
     \/ maximum.height < foot.height + scale_dip(48, d)
  THEN NoLayout
  ELSE DialogParts(d, explained, button, rows, foot,
         Rect(0, 0, width, Smallest(rows.height + foot.height, maximum.height)))

calculate_appearance_dialog_layout(d, maximum, explained, m) ==
  LET width == Smallest(maximum.width,
                 Largest(Largest(scale_dip(456, d), m.widest_option + scale_dip(64, d)),
                         Largest(m.widest_checkbox + scale_dip(48, d), ButtonRow(d, m))))
  IN  DialogIn(d, maximum, explained, ButtonWidth(d, m), width, Rows(d, m, explained),
               FooterOf(d, m, width))

clamp_appearance_dialog_scroll(l, y) == Clamp(y, 0, l.scroll_max)

-----------------------------------------------------------------------------
(***************************************************************************)
(* Measuring.  Wrapped text takes as many lines as its width asks for.     *)
(***************************************************************************)
measure_appearance_dialog(f, d) ==
  [ text_height |-> scale_dip(f.height, d), widest_option |-> scale_dip(f.option, d),
    widest_checkbox |-> scale_dip(f.checkbox, d), button_text_height |-> scale_dip(f.height, d),
    widest_button |-> scale_dip(f.button, d),
    wrapped_option |-> 0, wrapped_checkbox |-> 0, wrapped_explanation |-> 0 ]

measure_wrapped_text(text, height, width) ==
  IF width <= 0 THEN 0 ELSE height * ((text + width - 1) \div width)

measure_wrapped_appearance_dialog(d, m, l) ==
  [m EXCEPT
     !.wrapped_option = measure_wrapped_text(m.widest_option, m.text_height,
                                             l.body[2].width - scale_dip(22, d)),
     !.wrapped_checkbox = measure_wrapped_text(m.widest_checkbox, m.text_height,
                                               l.body[11].width - scale_dip(22, d)),
     !.wrapped_explanation = measure_wrapped_text(2 * m.widest_checkbox, m.text_height,
                                                  l.body[10].width)]

FrameWidth(d)  == scale_dip(6, d)
FrameHeight(d) == scale_dip(29, d)

\* Laid out once to learn the widths, measured, and laid out again.
MeasuredAgain(d, maximum, explained, m, first) ==
  IF first = NoLayout THEN NoLayout
  ELSE calculate_appearance_dialog_layout(d, maximum, explained,
         measure_wrapped_appearance_dialog(d, m, first))

Measured(d, f, wk, explained) ==
  LET maximum == Rect(0, 0, Largest(wk.width - FrameWidth(d), 1), Largest(wk.height - FrameHeight(d), 1))
      m       == measure_appearance_dialog(f, d)
  IN  MeasuredAgain(d, maximum, explained, m,
                    calculate_appearance_dialog_layout(d, maximum, explained, m))

Placed(l, d, anchor, wk) ==
  LET width  == Smallest(l.client.width + FrameWidth(d), wk.width)
      height == Smallest(l.client.height + FrameHeight(d), wk.height)
  IN  Rect(Clamp(anchor.x + (anchor.width - width) \div 2, wk.x, right(wk) - width),
           Clamp(anchor.y + (anchor.height - height) \div 2, wk.y, bottom(wk) - height),
           width, height)

\* arrange_dialog; a layout that does not fit leaves the old one in place.
arrange_dialog(d, f, wk, explained, anchor) == \E l \in {Measured(d, f, wk, explained)} :
  /\ arranged' = (l # NoLayout)
  /\ IF l = NoLayout THEN UNCHANGED <<win, layout, scroll_y>>
     ELSE /\ layout' = l
          /\ win' = Placed(l, d, anchor, wk)
          /\ scroll_y' = clamp_appearance_dialog_scroll(l, scroll_y)

-----------------------------------------------------------------------------
Enabled(c, f) == ~(f /\ c \in {"emphasis1", "emphasis2", "emphasis3", "checkbox2"})

RectOf(l, c) == l.body[CHOOSE i \in 1..Len(Body) : Body[i] = c]

\* ensure_appearance_control_visible: the position that shows control c.
ensure_appearance_control_visible(l, y, c) ==
  IF ~InBody(c) THEN y
  ELSE clamp_appearance_dialog_scroll(l,
         IF RectOf(l, c).y < y THEN RectOf(l, c).y
         ELSE IF bottom(RectOf(l, c)) > y + l.page THEN bottom(RectOf(l, c)) - l.page
         ELSE y)

\* WM_CREATE: a window that cannot be laid out is not created.
Init ==
  /\ dpi \in Dpis /\ font \in Fonts /\ forced \in BOOLEAN /\ work \in WorkAreas
  /\ layout = Measured(dpi, font, work, forced)
  /\ layout # NoLayout
  /\ win \in {Placed(layout, dpi, o, work) : o \in Owners}
  /\ scroll_y = 0
  /\ arranged = TRUE
  /\ focus = "None"
  /\ repairs = {TRUE}
  /\ wheeled = FALSE
  /\ events = 0

Event == events < MaxEvents /\ events' = events + 1

\* WM_DPICHANGED, with the system's suggestion around a point of the monitor.
DpiChanged(d, wk, at) ==
  /\ Event /\ d # dpi
  /\ dpi' = d /\ work' = wk
  /\ arrange_dialog(d, font, wk, forced, Rect(at, at, win.width, win.height))
  /\ repairs' = repairs \cup {FALSE}
  /\ wheeled' = FALSE
  /\ UNCHANGED <<font, forced, focus>>

\* WM_SETTINGCHANGE and WM_FONTCHANGE; the work area may have changed too.
SettingChange(f, wk) ==
  /\ Event /\ <<f, wk>> # <<font, work>>
  /\ font' = f /\ work' = wk
  /\ arrange_dialog(dpi, f, wk, forced, win)
  /\ repairs' = repairs \cup {FALSE}
  /\ wheeled' = FALSE
  /\ UNCHANGED <<dpi, forced, focus>>

\* WM_APP_APPEARANCE_ACCESSIBILITY: controls that forced colours disable
\* lose the focus, and a forced repair is posted for them.
Accessibility ==
  /\ Event
  /\ forced' = ~forced
  /\ arrange_dialog(dpi, font, work, ~forced, win)
  /\ focus' = IF Enabled(focus, ~forced) THEN focus ELSE "None"
  /\ repairs' = repairs \cup {~Enabled(focus, ~forced)}
  /\ wheeled' = FALSE
  /\ UNCHANGED <<dpi, font, work>>

\* WM_APP_APPEARANCE_RESTORE_FOCUS; a SetFocus ends in BN_SETFOCUS.
RestoreFocus(flag) ==
  /\ flag \in repairs
  /\ repairs' = repairs \ {flag}
  /\ LET target == IF InBody(focus) \/ ~flag THEN focus ELSE "density1"
     IN  /\ focus' = target
         /\ scroll_y' = ensure_appearance_control_visible(layout, scroll_y, target)
         /\ wheeled' = (wheeled /\ target = focus /\ ~InBody(focus))
  /\ UNCHANGED <<dpi, font, forced, work, win, layout, arranged, events>>

\* The user moves the focus: BN_SETFOCUS scrolls a control of the body into view.
MoveFocus(c) ==
  /\ Event /\ c # focus /\ Enabled(c, forced)
  /\ focus' = c
  /\ scroll_y' = ensure_appearance_control_visible(layout, scroll_y, c)
  /\ wheeled' = FALSE
  /\ UNCHANGED <<dpi, font, forced, work, win, layout, arranged, repairs>>

Line == Largest(scale_dip(24, dpi), scale_dip(font.height, dpi))
Page == Largest(layout.page - Line, Line)

\* WM_VSCROLL and WM_MOUSEWHEEL; the thumb can be dragged anywhere.
Scroll(to) ==
  /\ Event
  /\ scroll_y' = clamp_appearance_dialog_scroll(layout, to)
  /\ scroll_y' # scroll_y
  /\ wheeled' = TRUE
  /\ UNCHANGED <<dpi, font, forced, work, win, layout, arranged, focus, repairs>>

Next ==
  \/ \E d \in Dpis, wk \in WorkAreas, at \in {-100, 300} : DpiChanged(d, wk, at)
  \/ \E f \in Fonts, wk \in WorkAreas : SettingChange(f, wk)
  \/ Accessibility
  \/ \E flag \in BOOLEAN : RestoreFocus(flag)
  \/ \E c \in Stops : MoveFocus(c)
  \/ \E to \in {0, layout.content, scroll_y - Line, scroll_y + Line, scroll_y - Page,
                scroll_y + Page, scroll_y - 3 * Line, layout.content \div 2} : Scroll(to)

Spec == Init /\ [][Next]_vars

-----------------------------------------------------------------------------
TypeOK ==
  /\ dpi \in Dpis /\ font \in Fonts /\ work \in WorkAreas
  /\ focus \in Stops \cup {"None"}
  /\ repairs \subseteq BOOLEAN
  /\ scroll_y \in Nat /\ events \in 0..MaxEvents

\* The three buttons are inside the window, below the options, do not cover
\* each other, and show their whole text, at every size the window gets.
FooterComplete ==
  LET l == layout
      area == Rect(0, l.page, l.client.width, l.client.height - l.page)
  IN  /\ \A r \in {l.reset, l.ok, l.cancel} : Inside(r, area) /\ r.width > 0
      /\ Disjoint(l.reset, l.ok) /\ Disjoint(l.ok, l.cancel) /\ Disjoint(l.reset, l.cancel)
      /\ arranged => l.ok.width >= scale_dip(font.button, dpi)

\* The options keep their order without overlapping, those of a group stay
\* inside its frame, and all of them are inside the scrolled area.
BodyComplete ==
  LET l == layout IN
  /\ \A i \in 1..Len(Body) : bottom(l.body[i]) <= l.content
  /\ \A i, j \in (1..Len(Body)) \ {1, 6} : i < j => Disjoint(l.body[i], l.body[j])
  /\ \A i \in 2..5 : Inside(l.body[i], l.body[1])
  /\ \A i \in 7..9 : Inside(l.body[i], l.body[6])
  /\ Disjoint(l.body[1], l.body[6])

\* The scrolled area has no gap above or below.
ScrollInRange == scroll_y \in 0..layout.scroll_max

\* Once the posted repairs are handled, the focused option can be seen,
\* unless the user has scrolled away from it.
FocusIsVisible ==
  repairs = {} /\ ~wheeled /\ InBody(focus) /\ RectOf(layout, focus).height <= layout.page =>
    /\ scroll_y <= RectOf(layout, focus).y
    /\ bottom(RectOf(layout, focus)) <= scroll_y + layout.page

\* The focus is never on a control forced colours disabled, and once the
\* posted repairs are handled it is somewhere.
FocusIsUsable ==
  /\ focus # "None" => Enabled(focus, forced)
  /\ repairs = {} => focus # "None"

\* A window that could be arranged lies in the work area of its monitor.
PlacedOnMonitor == arranged => Inside(win, work)

=============================================================================
