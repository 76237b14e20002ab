------------------------------ MODULE MCLayout ------------------------------
(***************************************************************************)
(* Instances of the layouts of the main window, its columns, the prompts   *)
(* and the appearance window, on monitors that are ample, tight and too    *)
(* small, with an ordinary and an enlarged font.  MCWindows runs each of   *)
(* them in behaviours of its own.                                          *)
(***************************************************************************)
EXTENDS Integers, Sequences, FiniteSets

Rect(x, y, width, height) == [x |-> x, y |-> y, width |-> width, height |-> height]

\* Metrics of an ordinary and of an enlarged message font.
Metrics(w, h, safety) ==
  [ button_width |-> 3 * w, button_height |-> h, status_height |-> h,
    cancel_width |-> 4 * w, cancel_height |-> h,
    instruction_width |-> 24 * w, instruction_height |-> h,
    safety_width |-> safety, safety_height |-> h,
    add_width |-> 8 * w, add_height |-> h,
    header_height |-> h + 9, overlay_width |-> 30 * w, overlay_height |-> h,
    wrap_width |-> 0, instruction_wrapped |-> 0, safety_wrapped |-> 0,
    status_label_width |-> 7 * w ]
MainFonts == {Metrics(10, 15, 410), Metrics(22, 34, 1300)}

\* A large screen, a small one beside it, one too small for the smallest window.
MainWorkAreas == {Rect(0, 0, 2560, 1840), Rect(2560, 40, 900, 800), Rect(-400, 0, 400, 300)}

MainAppearances ==
  {[density |-> p, show_empty_safety |-> p # "Comfortable"] :
     p \in {"Automatic", "Comfortable", "MenuOnly"}}

Form(one, two, choice, read_only) ==
  [value_one |-> one, value_two |-> two, choice |-> choice, read_only |-> read_only]
PromptForms == {Form(TRUE, FALSE, FALSE, FALSE), Form(TRUE, TRUE, FALSE, FALSE),
                Form(TRUE, TRUE, TRUE, FALSE), Form(FALSE, FALSE, TRUE, FALSE),
                Form(TRUE, FALSE, FALSE, TRUE)}

PromptFont(title, caption, line) ==
  [title_width |-> title, title_height |-> line, label_width |-> caption,
   label_height |-> line, line_height |-> line]
PromptFonts == {PromptFont(200, 40, 15), PromptFont(900, 170, 34)}

\* A large monitor, a small one at a negative origin, one of a few lines.
PromptWorkAreas == {Rect(0, 0, 1920, 1040), Rect(-500, 20, 500, 240), Rect(0, 0, 90, 60)}
PromptOwners == {Rect(100, 100, 900, 600), Rect(1700, -300, 600, 500)}

\* A full monitor, one too low for the body, and one too narrow for one row
\* of buttons; at 150 % the last one is too small for any layout.
AppearanceWorkAreas == {Rect(0, 0, 1920, 1040), Rect(-800, 0, 800, 420), Rect(0, 40, 400, 360)}
AppearanceFonts == {[height |-> 15, option |-> 190, checkbox |-> 240, button |-> 96],
                    [height |-> 30, option |-> 380, checkbox |-> 480, button |-> 150]}
AppearanceOwners == {Rect(100, 100, 900, 600)}

VARIABLES
  component,   \* the component that runs in this behaviour
  \* WindowLayout
  main_dpi, main_font, main_work, main_win, appearance, baseline, strip,
  main_layout, wraps, layout_posted, placed, changes,
  \* Columns
  columns, columns_saved, native, status_dip, columns_dpi, label, client,
  dragged, loose, drags,
  \* PromptLayout
  form, prompt_dpi, prompt_font, prompt_work, prompt_win, prompt_layout,
  \* AppearanceLayout
  appearance_dpi, appearance_font, forced, appearance_work, appearance_win,
  appearance_layout, scroll_y, arranged, layout_focus, repairs, wheeled, events

Main == INSTANCE WindowLayout WITH
  Dpis <- {96, 144}, Fonts <- MainFonts, WorkAreas <- MainWorkAreas,
  Growths <- {0, 150}, CountWidths <- {90}, Appearances <- MainAppearances,
  MaxChanges <- 2, dpi <- main_dpi, font <- main_font, work <- main_work,
  win <- main_win, layout <- main_layout, posted <- layout_posted,
  status <- strip

Columns == INSTANCE Columns WITH
  Optional <- {3, 4}, Dpis <- {96, 120}, Clients <- {300, 701},
  Labels <- {60, 130}, Drags <- {0, 333}, MaxDrags <- 2,
  dpi <- columns_dpi, saved <- columns_saved

PromptLayout == INSTANCE PromptLayout WITH
  Dpis <- {96, 120, 192}, WorkAreas <- PromptWorkAreas, Fonts <- PromptFonts,
  Forms <- PromptForms, Owners <- PromptOwners, dpi <- prompt_dpi,
  font <- prompt_font, work <- prompt_work, win <- prompt_win,
  layout <- prompt_layout

AppearanceLayout == INSTANCE AppearanceLayout WITH
  Dpis <- {100, 144}, WorkAreas <- AppearanceWorkAreas,
  Fonts <- AppearanceFonts, Owners <- AppearanceOwners, MaxEvents <- 2,
  dpi <- appearance_dpi, font <- appearance_font, work <- appearance_work,
  win <- appearance_win, layout <- appearance_layout, focus <- layout_focus

ASSUME Main!WindowLayoutAssumption
ASSUME Columns!ColumnsAssumption
ASSUME PromptLayout!PromptLayoutAssumption
ASSUME AppearanceLayout!AppearanceLayoutAssumption

mainVars == <<main_dpi, main_font, main_work, main_win, appearance, baseline,
              strip, main_layout, wraps, layout_posted, placed, changes>>
columnsVars == <<columns, columns_saved, native, status_dip, columns_dpi,
                 label, client, dragged, loose, drags>>
promptLayoutVars == <<form, prompt_dpi, prompt_font, prompt_work, prompt_win,
                      prompt_layout>>
appearanceLayoutVars == <<appearance_dpi, appearance_font, forced,
                          appearance_work, appearance_win, appearance_layout,
                          scroll_y, arranged, layout_focus, repairs, wheeled,
                          events>>

layoutVars == <<mainVars, columnsVars, promptLayoutVars, appearanceLayoutVars>>

\* The variables of a component that does not run are blank.
NoMain ==
  main_dpi = 0 /\ main_font = 0 /\ main_work = 0 /\ main_win = 0 /\
  appearance = 0 /\ baseline = 0 /\ strip = 0 /\ main_layout = 0 /\
  wraps = 0 /\ layout_posted = 0 /\ placed = 0 /\ changes = 0
NoColumns ==
  columns = 0 /\ columns_saved = 0 /\ native = 0 /\ status_dip = 0 /\
  columns_dpi = 0 /\ label = 0 /\ client = 0 /\ dragged = 0 /\ loose = 0 /\
  drags = 0
NoPromptLayout ==
  form = 0 /\ prompt_dpi = 0 /\ prompt_font = 0 /\ prompt_work = 0 /\
  prompt_win = 0 /\ prompt_layout = 0
NoAppearanceLayout ==
  appearance_dpi = 0 /\ appearance_font = 0 /\ forced = 0 /\
  appearance_work = 0 /\ appearance_win = 0 /\ appearance_layout = 0 /\
  scroll_y = 0 /\ arranged = 0 /\ layout_focus = 0 /\ repairs = 0 /\ wheeled = 0 /\
  events = 0

LayoutInit ==
  \/ /\ component = "Main" /\ Main!Init
     /\ NoColumns /\ NoPromptLayout /\ NoAppearanceLayout
  \/ /\ component = "Columns" /\ Columns!Init
     /\ NoMain /\ NoPromptLayout /\ NoAppearanceLayout
  \/ /\ component = "PromptLayout" /\ PromptLayout!Init
     /\ NoMain /\ NoColumns /\ NoAppearanceLayout
  \/ /\ component = "AppearanceLayout" /\ AppearanceLayout!Init
     /\ NoMain /\ NoColumns /\ NoPromptLayout

LayoutNext ==
  \/ /\ component = "Main" /\ Main!Next
     /\ UNCHANGED <<component, columnsVars, promptLayoutVars, appearanceLayoutVars>>
  \/ /\ component = "Columns" /\ Columns!Next
     /\ UNCHANGED <<component, mainVars, promptLayoutVars, appearanceLayoutVars>>
  \/ /\ component = "PromptLayout" /\ PromptLayout!Next
     /\ UNCHANGED <<component, mainVars, columnsVars, appearanceLayoutVars>>
  \/ /\ component = "AppearanceLayout" /\ AppearanceLayout!Next
     /\ UNCHANGED <<component, mainVars, columnsVars, promptLayoutVars>>

NoLayout == NoMain /\ NoColumns /\ NoPromptLayout /\ NoAppearanceLayout

-----------------------------------------------------------------------------
(***************************************************************************)
(* Every window stays usable on any monitor, font and scale. The main      *)
(* window's parts never overlap and are laid out for the metrics in force, *)
(* its smallest client shows everything, its columns use the room there    *)
(* is, never cut the status column and keep a dragged width. A prompt is   *)
(* inside the work area, its parts apart, its buttons reachable, its text  *)
(* cut only when the monitor is full; every control of the appearance      *)
(* window can be scrolled into view and the focused one is visible         *)
(* (WindowLayout, Columns, PromptLayout, AppearanceLayout).                *)
(***************************************************************************)
WindowsLaidOut ==
  /\ component = "Main" =>
       /\ Main!TypeOK /\ Main!NothingOverlaps /\ Main!MinimumShowsEverything
       /\ Main!LayoutIsCurrent
  /\ component = "Columns" =>
       /\ Columns!TypeOK /\ Columns!StatusNeverCut /\ Columns!ColumnsFit
       /\ Columns!RoomIsUsed /\ Columns!DraggedWidthKept
  /\ component = "PromptLayout" =>
       /\ PromptLayout!TypeOK /\ PromptLayout!PromptOnMonitor /\ PromptLayout!PromptPartsApart
       /\ PromptLayout!ButtonsReachable /\ PromptLayout!CutOnlyWhenFull
  /\ component = "AppearanceLayout" =>
       /\ AppearanceLayout!TypeOK /\ AppearanceLayout!FooterComplete /\ AppearanceLayout!BodyComplete
       /\ AppearanceLayout!ScrollInRange /\ AppearanceLayout!FocusIsVisible
       /\ AppearanceLayout!FocusIsUsable /\ AppearanceLayout!PlacedOnMonitor

(***************************************************************************)
(* Where the program itself places the main window, it is inside the work  *)
(* area of its monitor (WindowLayout).                                     *)
(***************************************************************************)
PlacedInWorkArea ==
  [][component = "Main" => Main!PlacedInWorkArea]_<<component, layoutVars>>
=============================================================================
