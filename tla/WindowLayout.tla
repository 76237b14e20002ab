---------------------------- MODULE WindowLayout ----------------------------
(***************************************************************************)
(* The main window through the messages that change its size or its layout *)
(* (windows/application.rs, windows/menu.rs): the first placement, resizing*)
(* by the user, WM_DPICHANGED, WM_SETTINGCHANGE and WM_FONTCHANGE, the     *)
(* preview and the end of the appearance dialog, and the status strip,     *)
(* whose changes are laid out by a posted WM_APP_LAYOUT.                   *)
(***************************************************************************)
EXTENDS MainLayout, FiniteSets

CONSTANTS
  Dpis,        \* resolutions of the monitors
  Fonts,       \* font metrics at 96 dpi
  WorkAreas,   \* work areas of the monitors
  Growths,     \* what the user adds to the smallest size
  CountWidths, \* widths of the count in the status strip
  Appearances, \* [density, show_empty_safety] the user can choose
  MaxChanges   \* bound on the changes of size, surroundings, appearance and status

WindowLayoutAssumption ==
  /\ Dpis \subseteq Nat \ {0} /\ Growths \subseteq Nat /\ CountWidths \subseteq Nat
  /\ MaxChanges \in Nat
  /\ Appearances \subseteq [density : Preferences, show_empty_safety : BOOLEAN]

VARIABLES
  dpi, font, work, win,
  appearance,   \* [density, show_empty_safety] in use, previewed or not
  baseline,     \* the one to go back to while the dialog is open, or NoBaseline
  status,       \* [cancel_visible, count_width]
  layout,       \* what arrange last applied
  wraps,        \* whether the wrapped texts can be measured
  posted,       \* WM_APP_LAYOUT is in the queue
  placed,       \* who placed the window last: "Program", "User" or "System"
  changes       \* changes so far

vars == <<dpi, font, work, win, appearance, baseline, status, layout, wraps, posted, placed, changes>>

NoBaseline == [density |-> "None", show_empty_safety |-> FALSE]

-----------------------------------------------------------------------------
(***************************************************************************)
(* measure_font_metrics, and the frame around the client area.             *)
(***************************************************************************)
measure_font_metrics(f, d) == [k \in DOMAIN f |-> scale_dip(f[k], d)]

FrameWidth(d)  == scale_dip(16, d)
FrameHeight(d) == scale_dip(59, d)

ClientOf(w, d) == Rect(0, 0, Largest(w.width - FrameWidth(d), 0), Largest(w.height - FrameHeight(d), 0))

native_status_column_minimum_px(f, d) ==
  Largest(scale_dip(112, d), scale_dip(f.status_label_width, d) + scale_dip(24, d))

requested_minimum_track_size(f, d, a) ==
  LET m == measure_font_metrics(f, d)
  IN  [ width |-> Largest(scale_dip(464, d),
                    minimum_main_client_width(d, m, a.density, native_status_column_minimum_px(f, d))
                      + FrameWidth(d)),
        height |-> minimum_main_client_height(d, m, a.density, a.show_empty_safety) + FrameHeight(d) ]

effective_minimum_track_size(f, d, a, wk) ==
  constrain_minimum_track_size_to_work_area(requested_minimum_track_size(f, d, a), wk)

\* A window as large as the minimum stays where it is.
ensure_minimum_track_sizeMoved(w, f, d, a, wk) ==   \* mutant: the position is not corrected
  LET minimum == effective_minimum_track_size(f, d, a, wk)
  IN  [w EXCEPT !.width = Largest(@, minimum.width), !.height = Largest(@, minimum.height)]

ensure_minimum_track_size(w, f, d, a, wk) ==
  LET minimum == effective_minimum_track_size(f, d, a, wk)
      across  == fit_widened_window_to_work_area(w.x, wk, Largest(minimum.width, w.width))
      height  == Smallest(Largest(minimum.height, w.height), wk.height)
  IN  IF w.width >= minimum.width /\ w.height >= minimum.height THEN w
      ELSE Rect(across.x, Clamp(w.y, wk.y, bottom(wk) - height), across.width, height)

initial_dpi_placement(origin, f, d, a, wk) ==
  LET m == measure_font_metrics(f, d)
  IN  fit_window_to_work_area(origin,
        [ width |-> requested_minimum_track_size(f, d, a).width,
          height |-> Largest(scale_dip(408, d),
                       recommended_main_client_height(d, m, a.density, a.show_empty_safety)
                         + FrameHeight(d)) ], wk)

(***************************************************************************)
(* arrange: a first layout gives the width the texts wrap at, the second   *)
(* uses the heights measured there.                                        *)
(***************************************************************************)
LinesAt(width, available) == (width + available - 1) \div available

Measured(m, wrap, available) ==
  IF available <= 0 \/ ~wrap THEN [m EXCEPT !.wrap_width = available]
  ELSE [m EXCEPT !.wrap_width = available,
                 !.instruction_wrapped = m.instruction_height * LinesAt(m.instruction_width, available),
                 !.safety_wrapped = m.safety_height * LinesAt(m.safety_width, available)]

arrange(w, f, d, a, st, wrap) ==
  LET m     == measure_font_metrics(f, d)
      lay(x) == calculate_main_layout(ClientOf(w, d), d, x, a.density, a.show_empty_safety, st)
  IN  lay(Measured(m, wrap, lay(m).empty.instruction.width))

-----------------------------------------------------------------------------
Init ==
  /\ dpi \in Dpis /\ font \in Fonts /\ work \in WorkAreas
  /\ appearance \in Appearances
  /\ baseline = NoBaseline
  /\ status = [cancel_visible |-> FALSE, count_width |-> 0]
  /\ wraps \in BOOLEAN
  /\ win = initial_dpi_placement(Rect(0, 0, 0, 0), font, dpi, appearance, work)
  /\ layout = arrange(win, font, dpi, appearance, status, wraps)
  /\ posted = FALSE
  /\ placed = "Program"
  /\ changes = 0

Counted == changes < MaxChanges /\ changes' = changes + 1

\* The handlers end with arrange for the values they leave behind.
Arranged == layout' = arrange(win', font', dpi', appearance', status', wraps')

Place(w) ==   \* SetWindowPos of the program, if it has to move
  /\ win' = ensure_minimum_track_size(w, font', dpi', appearance', work')
  /\ placed' = IF win' = w THEN placed ELSE "Program"

UserResizes ==
  /\ Counted
  /\ baseline = NoBaseline
  /\ LET minimum == effective_minimum_track_size(font, dpi, appearance, work)
     IN  \E dw, dh \in Growths : \E corner \in {<<work.x, work.y>>, <<work.x - 40, work.y - 40>>} :
           win' = Rect(corner[1], corner[2], minimum.width + dw, minimum.height + dh)
  /\ placed' = "User"
  /\ UNCHANGED <<dpi, font, work, appearance, baseline, status, wraps, posted>>
  /\ Arranged

DpiChanged ==
  /\ Counted
  /\ \E d \in Dpis, wk \in WorkAreas :
       /\ d # dpi
       /\ dpi' = d /\ work' = wk
       /\ LET suggested == Rect(wk.x, wk.y, (win.width * d) \div dpi, (win.height * d) \div dpi)
          IN  /\ win' = ensure_minimum_track_size(suggested, font, d, appearance, wk)
              /\ placed' = IF win' = suggested THEN "System" ELSE "Program"
  /\ UNCHANGED <<font, appearance, baseline, status, wraps, posted>>
  /\ Arranged

refresh_system_fonts == \E f \in Fonts : font' = f

\* Also WM_THEMECHANGED and WM_SYSCOLORCHANGE; the work area may have changed.
SettingChange ==
  /\ Counted
  /\ refresh_system_fonts
  /\ work' \in WorkAreas
  /\ <<font, work>>' # <<font, work>>
  /\ UNCHANGED <<dpi, appearance, baseline, status, wraps, posted>>
  /\ Place(win)
  /\ Arranged

FontChange ==
  /\ Counted
  /\ refresh_system_fonts
  /\ UNCHANGED <<dpi, work, appearance, baseline, status, wraps, posted>>
  /\ Place(win)
  /\ Arranged

AppearancePreview ==
  /\ Counted
  /\ \E a \in Appearances : appearance' = a /\ a # appearance
  /\ baseline' = IF baseline = NoBaseline THEN appearance ELSE baseline
  /\ UNCHANGED <<dpi, font, work, win, status, wraps, posted, placed>>
  /\ Arranged

AppearanceFinish ==
  /\ Counted
  /\ baseline # NoBaseline
  /\ appearance' \in {appearance, baseline}
  /\ baseline' = NoBaseline
  /\ UNCHANGED <<dpi, font, work, status, wraps, posted>>
  /\ Place(win)
  /\ Arranged

\* update_controls: a changed status is laid out after this borrow ends.
StatusChanges ==
  /\ Counted
  /\ \E c \in BOOLEAN, n \in CountWidths : status' = [cancel_visible |-> c, count_width |-> n]
  /\ posted' = (posted \/ status' # status)
  /\ UNCHANGED <<dpi, font, work, win, appearance, baseline, layout, wraps, placed>>

LayoutMessage ==
  /\ posted
  /\ posted' = FALSE
  /\ UNCHANGED <<dpi, font, work, win, appearance, baseline, status, wraps, placed, changes>>
  /\ Arranged

Next ==
  \/ UserResizes \/ DpiChanged \/ SettingChange \/ FontChange
  \/ AppearancePreview \/ AppearanceFinish \/ StatusChanges \/ LayoutMessage

Spec == Init /\ [][Next]_vars

-----------------------------------------------------------------------------
TypeOK ==
  /\ dpi \in Dpis /\ font \in Fonts /\ work \in WorkAreas
  /\ win.width > 0 /\ win.height > 0
  /\ appearance \in Appearances /\ baseline \in Appearances \cup {NoBaseline}
  /\ layout.rail_mode \in {"Comfortable", "Compact", "MenuOnly"}
  /\ changes \in 0..MaxChanges
  /\ posted \in BOOLEAN /\ placed \in {"Program", "User", "System"}

Rects(seq) == {seq[i] : i \in DOMAIN seq}

(***************************************************************************)
(* Whatever the size, no control leaves the client area and none covers    *)
(* another: rails, dividers, list and status strip, the separators between *)
(* the buttons of a rail, and the three parts of the empty state, which    *)
(* stay below the header of the list.                                      *)
(***************************************************************************)
NothingOverlaps ==
  LET client == ClientOf(win, dpi)
      parts  == <<layout.list, layout.status_message, layout.status_count, layout.cancel>>
                  \o layout.left \o layout.right
      empty  == <<layout.empty.instruction, layout.empty.add, layout.empty.safety>>
      separators ==
        calculate_command_rail_separator_layout(LEFT_RAIL, layout.left, dpi)
          \cup calculate_command_rail_separator_layout(RIGHT_RAIL, layout.right, dpi)
      all    == parts \o empty \o <<layout.drop_overlay>>
  IN  /\ \A i \in DOMAIN all : Inside(all[i], client)
      /\ \A i, j \in DOMAIN parts : i < j => Disjoint(parts[i], parts[j])
      /\ \A r \in layout.dividers, i \in DOMAIN parts : Disjoint(r, parts[i])
      /\ \A r \in separators : \A b \in Rects(layout.left) \cup Rects(layout.right) : Disjoint(r, b)
      /\ \A i \in DOMAIN empty : Inside(empty[i], layout.list)
      /\ \A i, j \in DOMAIN empty : i < j => Disjoint(empty[i], empty[j])
      /\ Inside(layout.drop_overlay, layout.list)

(***************************************************************************)
(* Outside a preview, on a work area large enough for it, the rails the    *)
(* user chose are shown and the empty state is shown uncut.                *)
(***************************************************************************)
MinimumShowsEverything ==
  LET minimum == requested_minimum_track_size(font, dpi, appearance)
      m       == measure_font_metrics(font, dpi)
      lines(height, width) ==
        height * LinesAt(width, layout.empty.instruction.width)
  IN  (baseline = NoBaseline /\ minimum.width <= work.width /\ minimum.height <= work.height) =>
        /\ layout.rail_mode \in
             (CASE appearance.density = "MenuOnly"  -> {"MenuOnly"}
                [] appearance.density = "Automatic" -> {"Comfortable", "Compact"}
                [] OTHER -> {appearance.density})
        /\ layout.empty.instruction.height >= lines(m.instruction_height, m.instruction_width)
        /\ layout.empty.add.height >= m.add_height /\ layout.empty.add.width >= m.add_width
        /\ appearance.show_empty_safety =>
             layout.empty.safety.height >= lines(m.safety_height, m.safety_width)

(***************************************************************************)
(* What is on the screen is the layout of the current state, or a layout   *)
(* message that will make it so is in the queue.                           *)
(***************************************************************************)
LayoutIsCurrent == posted \/ layout = arrange(win, font, dpi, appearance, status, wraps)

(***************************************************************************)
(* A window the program itself placed lies in the monitor's work area.     *)
(***************************************************************************)
PlacedInWorkArea ==
  (placed' = "Program" /\ win' # win) => Inside(win', work')
=============================================================================
