------------------------------ MODULE Columns -------------------------------
(***************************************************************************)
(* The columns of the list (ui_layout.rs, windows/list_view.rs): the state *)
(* kept in device-independent units, the widths the native control has,    *)
(* and every event that moves one: a dragged or double-clicked divider, a  *)
(* shown or hidden column, a new size, resolution or font, a restart from  *)
(* the saved columns.  The status column is not part of the saved state.   *)
(***************************************************************************)
EXTENDS MainLayout, FiniteSetsExt

CONSTANTS
  Optional,     \* the columns the user can show
  Dpis, Clients,
  Labels,       \* widths of the widest status label, at 96 dpi
  Drags,        \* widths in pixels a divider is dragged to
  MaxDrags      \* bound on the dragged and double-clicked dividers

ColumnsAssumption ==
  /\ Optional \subseteq 3..6 /\ Dpis \subseteq Nat \ {0}
  /\ Clients \subseteq Nat /\ Labels \subseteq Nat /\ Drags \subseteq Nat
  /\ MaxDrags \in Nat

Primary == 0..2
Cols    == Primary \cup Optional
Status  == 7

VARIABLES
  columns,      \* [visible, width_dip, user_resized] of each column
  saved,        \* the columns last persisted
  native,       \* width in pixels of each native column
  status_dip,   \* status_column_width_dip
  dpi, label, client,
  dragged,      \* pixel width and resolution of each column's last drag
  loose,        \* columns dragged or auto-sized since the program last set their width
  drags         \* dividers dragged so far

vars == <<columns, saved, native, status_dip, dpi, label, client, dragged, loose, drags>>

NotDragged == [px |-> -1, dpi |-> 1]

-----------------------------------------------------------------------------
NAME_COLUMN_MINIMUM == 120
LOCATION_COLUMN_MINIMUM == 80
NATIVE_STATUS_COLUMN_WIDTH_DIP == 112
LIST_COLUMN_FIT_GUTTER_DIP == 1

minimum(d) ==
  [c \in Primary |-> scale_dip(IF c = 2 THEN LOCATION_COLUMN_MINIMUM ELSE NAME_COLUMN_MINIMUM, d)]

preferred(d) == [c \in Primary |-> scale_dip(IF c = 2 THEN 100 ELSE 150, d)]

default_column_states ==
  [c \in Cols |-> [ visible |-> c \in Primary, user_resized |-> FALSE,
                    width_dip |-> CASE c = 2 -> 100 [] c \in {0, 1} -> 150
                                    [] c = 4 -> 80 [] OTHER -> 120 ]]

width_px(column, d) == scale_dip(column.width_dip, d)

Total(f, S) == FoldSet(LAMBDA c, sum : f[c] + sum, 0, S)

-----------------------------------------------------------------------------
\* The names get two shares each of what the minimum leaves, the folder one.
adaptive_primary_column_widths(available, d) ==
  LET low  == minimum(d)
      rest == available - Total(low, Primary)
      odd(c) == Cardinality({i \in 1..(rest % 5) : <<0, 1, 2, 0, 1>>[i] = c})
  IN  [c \in Primary |-> low[c] + (IF c = 2 THEN 1 ELSE 2) * (rest \div 5) + odd(c)]

Budget(client_width, status_width, d, cols) ==
  LET shown     == {c \in Optional : cols[c].visible}
      automatic == shown = {} /\ \A c \in Primary : ~cols[c].user_resized
  IN  client_width - status_width
        - Total([c \in Optional |-> width_px(cols[c], d)], shown)
        - (IF automatic THEN Largest(scale_dip(LIST_COLUMN_FIT_GUTTER_DIP, d), 1) ELSE 0)

(***************************************************************************)
(* Columns the user sized keep their width.  The others get their minimum; *)
(* what is left fills the names up to their default, then the folder, and  *)
(* the last automatic column takes the rest.                               *)
(***************************************************************************)
allocate_primary_column_widths(client_width, status_width, d, cols) ==
  LET budget    == Budget(client_width, status_width, d, cols)
      automatic == {c \in Primary : ~cols[c].user_resized}
      names     == automatic \cap {0, 1}
      base      == [c \in Primary |-> IF c \in automatic THEN minimum(d)[c] ELSE width_px(cols[c], d)]
      missing   == [c \in Primary |-> IF c \in automatic THEN preferred(d)[c] - base[c] ELSE 0]
      left      == Largest(budget - Total(base, Primary), 0)
      to_names  == Smallest(left, Total(missing, names))
      to_folder == Smallest(left - to_names, missing[2])
      rest      == left - to_names - to_folder
      share(c)  ==   \* an odd pixel goes to the first automatic name
        IF c \notin names THEN 0
        ELSE to_names \div Cardinality(names)
               + (IF c = Min(names) /\ to_names % Cardinality(names) > 0 THEN 1 ELSE 0)
  IN  IF automatic = Primary /\ budget >= Total(minimum(d), Primary)
      THEN adaptive_primary_column_widths(budget, d)
      ELSE [c \in Primary |->
              base[c] + share(c) + (IF c = 2 THEN to_folder ELSE 0)
                + (IF automatic # {} /\ c = Max(automatic) THEN rest ELSE 0)]

native_status_column_minimum_px(l, d) ==
  Largest(scale_dip(NATIVE_STATUS_COLUMN_WIDTH_DIP, d), scale_dip(l, d) + scale_dip(24, d))

native_status_column_width_px(dip, l, d) ==
  Largest(scale_dip(dip, d), native_status_column_minimum_px(l, d))

status_column_width_after_resize(requested, low, d) ==
  Largest(unscale_px(Largest(requested, low), d), NATIVE_STATUS_COLUMN_WIDTH_DIP)

-----------------------------------------------------------------------------
(***************************************************************************)
(* Native widths after the optional columns and the status column are set, *)
(* and after the primary columns share what is left.                       *)
(***************************************************************************)
OptionalWidth(c, cols, d) == IF cols[c].visible THEN width_px(cols[c], d) ELSE 0

update_primary_column_widths(widths, w, d, cols) ==
  LET shared == allocate_primary_column_widths(w, widths[Status], d, cols)
  IN  [c \in DOMAIN widths |-> IF c \in Primary THEN shared[c] ELSE widths[c]]

update_dpi_metrics(widths, dip, l, d, cols) ==
  [c \in DOMAIN widths |->
     CASE c \in Optional -> OptionalWidth(c, cols, d)
       [] c = Status     -> native_status_column_width_px(dip, l, d)
       [] c \in Primary  -> widths[c]]

Fresh(cols, l, d, w) ==
  update_primary_column_widths(
    update_dpi_metrics([c \in Cols \cup {Status} |-> 0], NATIVE_STATUS_COLUMN_WIDTH_DIP, l, d, cols),
    w, d, cols)

Init ==
  /\ dpi \in Dpis /\ label \in Labels /\ client \in Clients
  /\ columns = default_column_states
  /\ saved = columns
  /\ status_dip = NATIVE_STATUS_COLUMN_WIDTH_DIP
  /\ native = Fresh(columns, label, dpi, client)
  /\ dragged = [c \in Cols |-> NotDragged]
  /\ loose = {}
  /\ drags = 0

Resize ==   \* WM_SIZE, through arrange
  /\ client' \in Clients
  /\ native' = update_primary_column_widths(native, client', dpi, columns)
  /\ loose' = loose \ Primary
  /\ UNCHANGED <<columns, saved, status_dip, dpi, label, dragged, drags>>

MetricsChange ==   \* WM_DPICHANGED, WM_SETTINGCHANGE, WM_FONTCHANGE
  /\ dpi' \in Dpis /\ label' \in Labels
  /\ native' = update_primary_column_widths(
                 update_dpi_metrics(native, status_dip, label', dpi', columns), client, dpi', columns)
  /\ loose' = {}
  /\ UNCHANGED <<columns, saved, status_dip, client, dragged, drags>>

ToggleColumn(c) ==
  /\ columns' = [columns EXCEPT ![c].visible = ~@]
  /\ native' = update_primary_column_widths(
                 [native EXCEPT ![c] = OptionalWidth(c, columns', dpi)], client, dpi, columns')
  /\ saved' = columns'
  /\ loose' = loose \ (Primary \cup {c})
  /\ UNCHANGED <<status_dip, dpi, label, client, dragged, drags>>

record_user_resize(column, px, d) ==
  [column EXCEPT !.width_dip = unscale_px(px, d), !.user_resized = TRUE]

\* The native control has the new width before the program is told.
DragColumn(c, px) ==
  /\ drags < MaxDrags /\ drags' = drags + 1
  /\ native' = [native EXCEPT ![c] = px]
  /\ columns' = [columns EXCEPT ![c] = record_user_resize(@, px, dpi)]
  /\ saved' = columns'
  /\ dragged' = [dragged EXCEPT ![c] = [px |-> px, dpi |-> dpi]]
  /\ loose' = loose \cup {c}
  /\ UNCHANGED <<status_dip, dpi, label, client>>

DragStatus(px) ==
  /\ drags < MaxDrags /\ drags' = drags + 1
  /\ status_dip' = status_column_width_after_resize(px, native_status_column_minimum_px(label, dpi), dpi)
  /\ native' = update_primary_column_widths(
                 [native EXCEPT ![Status] = native_status_column_width_px(status_dip', label, dpi)],
                 client, dpi, columns)
  /\ loose' = loose \ Primary
  /\ UNCHANGED <<columns, saved, dpi, label, client, dragged>>

\* A double click sizes the status column to its labels; other columns are
\* sized by the control itself, and nothing is recorded.
DoubleClickStatus ==
  /\ drags < MaxDrags /\ drags' = drags + 1
  /\ status_dip' = NATIVE_STATUS_COLUMN_WIDTH_DIP
  /\ native' = update_primary_column_widths(
                 [native EXCEPT ![Status] = native_status_column_minimum_px(label, dpi)],
                 client, dpi, columns)
  /\ loose' = loose \ Primary
  /\ UNCHANGED <<columns, saved, dpi, label, client, dragged>>

DoubleClickColumn(c, px) ==
  /\ drags < MaxDrags /\ drags' = drags + 1
  /\ native' = [native EXCEPT ![c] = px]
  /\ loose' = loose \cup {c}
  /\ UNCHANGED <<columns, saved, status_dip, dpi, label, client, dragged>>

Restart ==
  /\ columns' = saved
  /\ status_dip' = NATIVE_STATUS_COLUMN_WIDTH_DIP
  /\ native' = Fresh(saved, label, dpi, client)
  /\ loose' = {}
  /\ UNCHANGED <<saved, dpi, label, client, dragged, drags>>

Next ==
  \/ Resize \/ MetricsChange \/ DoubleClickStatus \/ Restart
  \/ \E c \in Optional : ToggleColumn(c)
  \/ \E c \in Cols, px \in Drags : DragColumn(c, px) \/ DoubleClickColumn(c, px)
  \/ \E px \in Drags : DragStatus(px)

Spec == Init /\ [][Next]_vars

-----------------------------------------------------------------------------
\* The columns keep a width that can be saved, the native control one that is not negative.
TypeOK ==
  /\ dpi \in Dpis /\ label \in Labels /\ client \in Clients /\ loose \subseteq Cols
  /\ \A c \in Cols : columns[c].width_dip \in 0..32768 /\ columns[c].visible \in BOOLEAN
  /\ \A c \in Cols \cup {Status} : native[c] >= 0
  /\ status_dip >= NATIVE_STATUS_COLUMN_WIDTH_DIP

(***************************************************************************)
(* No status label is ever cut off, whatever the user drags, whichever     *)
(* resolution or font comes next.                                          *)
(***************************************************************************)
StatusNeverCut == native[Status] >= scale_dip(label, dpi) + scale_dip(24, dpi)

(***************************************************************************)
(* With automatic columns and a window of at least the smallest size, the  *)
(* columns fill the list up to the gutter and no horizontal scroll bar is  *)
(* needed.  The smallest size is the one the main window enforces.         *)
(***************************************************************************)
ColumnsFit ==
  LET automatic == /\ \A c \in Primary : ~columns[c].user_resized
                   /\ \A c \in Optional : ~columns[c].visible
      enough    == client >= minimum_content_width_px(dpi, native[Status])
                               - 2 * metrics("Comfortable", dpi).rail_width
  IN  (loose = {} /\ automatic /\ enough) =>
        Total(native, Primary \cup {Status})
          = client - Largest(scale_dip(LIST_COLUMN_FIT_GUTTER_DIP, dpi), 1)

(***************************************************************************)
(* When the sized and shown columns leave room, the automatic columns take *)
(* all of it, and none is ever narrower than its minimum.                  *)
(***************************************************************************)
RoomIsUsed ==
  LET automatic == {c \in Primary : ~columns[c].user_resized}
      visible   == Primary \cup {Status} \cup {c \in Optional : columns[c].visible}
      fixed     == {c \in visible : c \notin automatic}
  IN  (loose = {} /\ automatic # {}) =>
        /\ \A c \in automatic : native[c] >= minimum(dpi)[c]
        /\ (\/ automatic # Primary \/ \E c \in Optional : columns[c].visible)
             => Total(native, visible)
                  = Largest(client, Total(native, fixed) + Total(minimum(dpi), automatic))

(***************************************************************************)
(* A width the user gave survives: a layout at the resolution of the drag  *)
(* moves the divider by less than one logical unit, whatever other         *)
(* resolutions, sizes and restarts came between.                           *)
(***************************************************************************)
DraggedWidthKept ==
  \A c \in Cols :
    (loose = {} /\ columns[c].user_resized /\ columns[c].visible /\ dragged[c].dpi = dpi) =>
      LET px == dragged[c].px
      IN  native[c] - px < dpi \div 96 + 1 /\ px - native[c] < dpi \div 96 + 1
=============================================================================
