----------------------------- MODULE MainLayout -----------------------------
(***************************************************************************)
(* The main window's layout (ui_layout.rs): command rails and their        *)
(* density, the list between them, the status strip, the empty state, and  *)
(* the smallest client size that shows all of it.  `m' is the measured     *)
(* font metrics record.                                                    *)
(***************************************************************************)
EXTENDS Integers, Sequences

-----------------------------------------------------------------------------
(***************************************************************************)
(* Rectangles and the scaling of logical coordinates (ui_layout.rs,        *)
(* window_placement.rs).  Sizes stay far below 2^31, so the saturating     *)
(* arithmetic of the source is plain arithmetic here.                      *)
(***************************************************************************)
BASE_DPI == 96

Largest(a, b)  == IF a >= b THEN a ELSE b
Smallest(a, b) == IF a <= b THEN a ELSE b
Clamp(x, lo, hi) == IF x < lo THEN lo ELSE IF x > hi THEN hi ELSE x

scale_dip(value, dpi) ==
  IF value < 0
  THEN -((-value * dpi + BASE_DPI \div 2) \div BASE_DPI)
  ELSE (value * dpi + BASE_DPI \div 2) \div BASE_DPI

unscale_px(value, dpi) ==
  IF dpi = 0 THEN value ELSE (value * BASE_DPI + dpi \div 2) \div dpi

-----------------------------------------------------------------------------
Rect(x, y, width, height) == [x |-> x, y |-> y, width |-> width, height |-> height]

NoRect == Rect(0, 0, 0, 0)

right(r)  == r.x + r.width
bottom(r) == r.y + r.height

Inside(r, s) ==
  /\ r.width >= 0 /\ r.height >= 0
  /\ s.x <= r.x /\ right(r) <= right(s)
  /\ s.y <= r.y /\ bottom(r) <= bottom(s)

Disjoint(r, s) ==
  \/ right(r) <= s.x \/ right(s) <= r.x
  \/ bottom(r) <= s.y \/ bottom(s) <= r.y
  \/ 0 \in {r.width, r.height, s.width, s.height}

bounded_dialog_rect(x, y, width, height, bounds) ==
  LET left == Clamp(x, 0, bounds.width)
      top  == Clamp(y, 0, bounds.height)
  IN  Rect(left, top, Clamp(width, 0, bounds.width - left), Clamp(height, 0, bounds.height - top))

-----------------------------------------------------------------------------
(***************************************************************************)
(* Placement in a monitor's work area.                                     *)
(***************************************************************************)
fit_window_to_work_area(origin, requested, work) ==
  LET width  == Smallest(requested.width, work.width)
      height == Smallest(requested.height, work.height)
  IN  Rect(Clamp(origin.x, work.x, right(work) - width),
           Clamp(origin.y, work.y, bottom(work) - height), width, height)

constrain_minimum_track_size_to_work_area(minimum, work) ==
  [ width |-> Smallest(minimum.width, work.width),
    height |-> Smallest(minimum.height, work.height) ]

fit_widened_window_to_work_area(current_x, work, minimum_width) ==
  LET width == Smallest(minimum_width, work.width)
  IN  [x |-> Clamp(current_x, work.x, right(work) - width), width |-> width]

-----------------------------------------------------------------------------
Preferences == {"Automatic", "Comfortable", "Compact", "MenuOnly"}

\* The groups of the commands of each rail, top to bottom.
LEFT_RAIL  == <<0, 1, 1, 1, 2, 2, 2, 3, 3, 3>>
RIGHT_RAIL == <<0, 1, 1, 1, 2, 2, 2, 3, 3>>

candidates(preference) ==
  CASE preference = "Automatic"   -> <<"Comfortable", "Compact">>
    [] preference = "Comfortable" -> <<"Comfortable">>
    [] preference = "Compact"     -> <<"Compact">>
    [] preference = "MenuOnly"    -> << >>

NoDensity == "None"

minimum_density(preference) ==
  CASE preference \in {"Automatic", "Compact"} -> "Compact"
    [] preference = "Comfortable"              -> "Comfortable"
    [] preference = "MenuOnly"                 -> NoDensity

recommended_density(preference) ==
  CASE preference \in {"Automatic", "Comfortable"} -> "Comfortable"
    [] preference = "Compact"                      -> "Compact"
    [] preference = "MenuOnly"                     -> NoDensity

metrics(density, dpi) ==
  [ bottom_padding |-> scale_dip(IF density = "Comfortable" THEN 4 ELSE 2, dpi),
    button_height  |-> scale_dip(IF density = "Comfortable" THEN 32 ELSE 28, dpi),
    group_gap      |-> scale_dip(IF density = "Comfortable" THEN 8 ELSE 4, dpi),
    rail_width     |-> scale_dip(52, dpi) ]

rail_metrics(m, density, dpi) ==
  LET base == metrics(density, dpi)
      pads == IF density = "Comfortable" THEN <<12, 10>> ELSE <<10, 6>>
  IN  [base EXCEPT !.rail_width = Largest(@, m.button_width + scale_dip(pads[1], dpi)),
                   !.button_height = Largest(@, m.button_height + scale_dip(pads[2], dpi))]

-----------------------------------------------------------------------------
(***************************************************************************)
(* One rail: buttons of one height, a gap wherever the group changes.      *)
(***************************************************************************)
GapsBefore(rail, i) ==
  Len(SelectSeq([j \in 1..(i - 1) |-> rail[j] # rail[j + 1]], LAMBDA changed : changed))

required_command_rail_height(rail, u) ==
  u.bottom_padding + u.button_height * Len(rail) + u.group_gap * GapsBefore(rail, Len(rail))

calculate_command_rail_layout(rail, u) ==
  [ i \in 1..Len(rail) |->
      Rect(0, (i - 1) * u.button_height + GapsBefore(rail, i) * u.group_gap,
           u.rail_width, u.button_height) ]

calculate_command_rail_separator_layout(rail, buttons, dpi) ==
  { LET top    == bottom(buttons[i])
        gap    == Largest(buttons[i + 1].y - top, 0)
        height == Smallest(Largest(scale_dip(2, dpi), 1), gap)
        inset  == Smallest(scale_dip(6, dpi), buttons[i].width \div 2)
    IN  Rect(buttons[i].x + inset, top + (gap - height) \div 2,
             buttons[i].width - 2 * inset, height) :
    i \in {j \in 1..(Len(buttons) - 1) : rail[j] # rail[j + 1]} }

Fits(density, rail_height, width, dpi, m) ==
  LET u == rail_metrics(m, density, dpi)
  IN  /\ 2 * u.rail_width + 2 < width
      /\ required_command_rail_height(LEFT_RAIL, u) <= rail_height
      /\ required_command_rail_height(RIGHT_RAIL, u) <= rail_height

\* The first candidate that fits, or MenuOnly.
RailMode(preference, rail_height, width, dpi, m) ==
  LET fitting == SelectSeq(candidates(preference),
                           LAMBDA density : Fits(density, rail_height, width, dpi, m))
  IN  IF fitting = << >> THEN "MenuOnly" ELSE Head(fitting)

-----------------------------------------------------------------------------
(***************************************************************************)
(* Status strip and empty state.                                           *)
(***************************************************************************)
status_height(m, dpi) ==
  Largest(scale_dip(18, dpi),
          Largest(m.status_height + scale_dip(4, dpi), m.cancel_height + scale_dip(6, dpi)))

empty_state_minimum_width(m, dpi) ==
  Largest(scale_dip(240, dpi),
          Largest(m.instruction_width, m.add_width) + scale_dip(24, dpi))

conservative_wrapped_text_height(unwrapped, line_height, available) ==
  IF available <= 0 THEN 0
  ELSE line_height * (Largest((unwrapped + available - 1) \div available, 1)
                        + (IF unwrapped > available THEN 1 ELSE 0))

\* A wrapped height measured at exactly this width replaces the estimate.
WrappedHeight(m, wrapped, width, line_height, available) ==
  IF m.wrap_width = available /\ wrapped > 0
  THEN wrapped
  ELSE conservative_wrapped_text_height(width, line_height, available)

empty_state_content_metrics(m, dpi, width, show_safety) ==
  LET available   == Largest(width, 0)
      line        == scale_dip(16, dpi)
      gap         == scale_dip(8, dpi)
      instruction == WrappedHeight(m, m.instruction_wrapped, m.instruction_width,
                                   Largest(m.instruction_height, line), available)
      safety      == IF show_safety
                     THEN WrappedHeight(m, m.safety_wrapped, m.safety_width,
                                        Largest(m.safety_height, line), available)
                     ELSE 0
      add         == Largest(Largest(m.add_height, line) + scale_dip(10, dpi), scale_dip(28, dpi))
  IN  [ instruction |-> instruction, safety |-> safety, safety_shown |-> show_safety,
        add_height |-> add,
        add_width |-> Smallest(Largest(m.add_width + scale_dip(24, dpi), scale_dip(112, dpi)),
                               available),
        total |-> instruction + gap + add + (IF show_safety THEN gap + safety ELSE 0) ]

\* A part of the empty state at y, and the place below it after a gap; both
\* are cut where the area ends.
cut(area, y, wanted) == Largest(Smallest(wanted, bottom(area) - y), 0)

Part(area, x, y, width, wanted) == Rect(x, y, width, cut(area, y, wanted))

Below(area, part, gap) == bottom(part) + cut(area, bottom(part), gap)

EmptySafety(area, x, width, content, gap, instruction, add) ==
  [ instruction |-> instruction, add |-> add,
    safety |-> Part(area, x, Below(area, add, IF content.safety_shown THEN gap ELSE 0),
                    width, content.safety) ]

EmptyAdd(area, x, width, content, gap, instruction) ==
  EmptySafety(area, x, width, content, gap, instruction,
    Part(area, area.x + (area.width - content.add_width) \div 2,
         Below(area, instruction, gap), content.add_width, content.add_height))

EmptyInstruction(area, x, width, content, gap) ==
  EmptyAdd(area, x, width, content, gap,
    Part(area, x, area.y + Largest(area.height - content.total, 0) \div 2, width,
         content.instruction))

calculate_empty_state_layout(list, dpi, m, show_safety) ==
  LET header  == Smallest(m.header_height, list.height)
      padding == Smallest(scale_dip(12, dpi), list.width \div 2)
      width   == list.width - 2 * padding
  IN  EmptyInstruction(Rect(list.x, list.y + header, list.width, list.height - header),
        list.x + padding, width, empty_state_content_metrics(m, dpi, width, show_safety),
        scale_dip(8, dpi))

calculate_drop_overlay_layout(list, dpi, m) ==
  LET padding == Smallest(scale_dip(12, dpi), list.width \div 2)
      width   == list.width - 2 * padding
      wanted  == Largest(conservative_wrapped_text_height(m.overlay_width,
                           Largest(m.overlay_height, scale_dip(16, dpi)), width) + scale_dip(10, dpi),
                         scale_dip(28, dpi))
      height  == Smallest(wanted, list.height)
  IN  Rect(list.x + padding, list.y + (list.height - height) \div 2, width, height)

\* Text in the status strip stays clear of its edges and of the top line.
inset_status_text(r, dpi) ==
  LET inset == Smallest(scale_dip(8, dpi), r.width \div 2)
      line  == IF r.height > 0 THEN 1 ELSE 0
  IN  Rect(r.x + inset, r.y + line, r.width - 2 * inset, r.height - line)

-----------------------------------------------------------------------------
\* The parts around the list: u are the metrics of the rails shown in this mode.
MainParts(width, rail_height, strip, dpi, m, show_safety, mode, u, list, cancel, count) ==
  LET shown   == mode # "MenuOnly"
      message == width - cancel - count
      shift(buttons, x) == [i \in DOMAIN buttons |-> [buttons[i] EXCEPT !.x = x]]
  IN  [ rail_mode |-> mode,
        left  |-> IF shown THEN calculate_command_rail_layout(LEFT_RAIL, u) ELSE << >>,
        right |-> IF shown
                  THEN shift(calculate_command_rail_layout(RIGHT_RAIL, u), width - u.rail_width)
                  ELSE << >>,
        dividers |-> IF shown
                     THEN {Rect(u.rail_width, 0, 1, rail_height),
                           Rect(width - u.rail_width - 1, 0, 1, rail_height)}
                     ELSE {},
        list |-> list,
        status_message |-> inset_status_text(Rect(0, rail_height, message, strip), dpi),
        status_count |-> inset_status_text(Rect(message, rail_height, count, strip), dpi),
        cancel |-> Rect(message + count, rail_height, cancel, strip),
        empty |-> calculate_empty_state_layout(list, dpi, m, show_safety),
        drop_overlay |-> calculate_drop_overlay_layout(list, dpi, m) ]

ListBetween(mode, u, width, rail_height) ==
  IF mode # "MenuOnly"
  THEN Rect(u.rail_width + 1, 0, width - 2 * u.rail_width - 2, rail_height)
  ELSE Rect(0, 0, width, rail_height)

CancelWidth(width, dpi, m, status) ==
  Smallest(width, IF status.cancel_visible
                  THEN Largest(m.cancel_width, scale_dip(36, dpi)) + scale_dip(16, dpi) ELSE 0)

CountWidth(room, dpi, status) ==
  Smallest(Largest(status.count_width, scale_dip(44, dpi)) + scale_dip(16, dpi), room)

calculate_main_layout(client, dpi, m, preference, show_safety, status) ==
  LET width  == client.width
      strip  == Smallest(status_height(m, dpi), client.height)
      rail_height == client.height - strip
      mode   == RailMode(preference, rail_height, width, dpi, m)
      u      == rail_metrics(m, mode, dpi)
      cancel == CancelWidth(width, dpi, m, status)
  IN  MainParts(width, rail_height, strip, dpi, m, show_safety, mode, u,
                ListBetween(mode, u, width, rail_height), cancel,
                CountWidth(width - cancel, dpi, status))

(***************************************************************************)
(* The smallest and the recommended client size.                           *)
(***************************************************************************)
empty_state_required_height(m, dpi, show_safety) ==
  empty_state_content_metrics(m, dpi, empty_state_minimum_width(m, dpi) - scale_dip(24, dpi),
                              show_safety).total
    + scale_dip(24, dpi) + m.header_height

ClientHeight(density, dpi, m, show_safety) ==
  LET u    == rail_metrics(m, density, dpi)
      rail == IF density = NoDensity THEN 0
              ELSE Largest(required_command_rail_height(LEFT_RAIL, u),
                           required_command_rail_height(RIGHT_RAIL, u))
  IN  Largest(rail, empty_state_required_height(m, dpi, show_safety)) + status_height(m, dpi)

minimum_main_client_height(dpi, m, preference, show_safety) ==
  ClientHeight(minimum_density(preference), dpi, m, show_safety)

recommended_main_client_height(dpi, m, preference, show_safety) ==
  ClientHeight(recommended_density(preference), dpi, m, show_safety)

minimum_content_width_px(dpi, status_width) ==
  2 * metrics("Comfortable", dpi).rail_width + 2 * scale_dip(120, dpi) + scale_dip(80, dpi)
    + Largest(scale_dip(1, dpi), 1) + status_width

minimum_main_client_width(dpi, m, preference, status_width) ==
  LET widths   == {rail_metrics(m, candidates(preference)[i], dpi).rail_width :
                     i \in DOMAIN candidates(preference)}
      rail     == IF widths = {} THEN 0 ELSE CHOOSE w \in widths : \A v \in widths : v <= w
      baseline == IF preference = "MenuOnly" THEN 0
                  ELSE metrics(minimum_density(preference), dpi).rail_width
      dividers == IF rail > 0 THEN 2 ELSE 0
  IN  Largest(minimum_content_width_px(dpi, status_width) + 2 * (rail - baseline) + dividers,
              2 * rail + empty_state_minimum_width(m, dpi) + dividers)
=============================================================================
