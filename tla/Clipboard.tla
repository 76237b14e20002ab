------------------------------ MODULE Clipboard ------------------------------
(***************************************************************************)
(* copy_clipboard (windows/clipboard.rs): the text is put in a movable     *)
(* block of memory first, and only then is the clipboard opened, emptied   *)
(* and given the block.  Every native call can fail, and other programs    *)
(* use the clipboard between any two of them while it is not open here.    *)
(* Once the clipboard owns a block it frees it when it is emptied.         *)
(***************************************************************************)
EXTENDS Integers, FiniteSets

CONSTANT MaxCopies   \* copies the user asks for

ClipboardAssumption == MaxCopies \in Nat

Blocks == 1..MaxCopies

VARIABLES
  pc,
  copies,     \* copies begun; the current one uses the block of that number
  owned,      \* blocks PreparedClipboardMemory is responsible for
  freed,      \* blocks given back to the system
  allocated,  \* blocks the system handed out
  filled,     \* blocks that hold their whole text
  session,    \* ClipboardSession.open
  holder,     \* who has the clipboard open
  contents,   \* block on the clipboard, 0: nothing, -1: another program's data
  result      \* result of the last copy

vars == <<pc, copies, owned, freed, allocated, filled, session, holder, contents, result>>

Foreign == -1

TypeOK ==
  /\ pc \in {"Idle", "Allocate", "Populate", "Open", "Empty", "Set", "Close",
             "DropSession", "DropMemory"}
  /\ copies \in 0..MaxCopies
  /\ owned \subseteq Blocks /\ freed \subseteq Blocks
  /\ allocated \subseteq Blocks /\ filled \subseteq Blocks
  /\ session \in BOOLEAN
  /\ holder \in {"none", "us", "other"}
  /\ contents \in {0, Foreign} \cup Blocks
  /\ result \in {"none", "Ok", "Failed"}

Init ==
  /\ pc = "Idle" /\ copies = 0
  /\ owned = {} /\ freed = {} /\ allocated = {} /\ filled = {}
  /\ session = FALSE /\ holder \in {"none", "other"}
  /\ contents \in {0, Foreign} /\ result = "none"

-----------------------------------------------------------------------------
\* EmptyClipboard and CloseClipboard, the system's side.
Discarded == IF contents \in Blocks THEN {contents} ELSE {}

copy_clipboard ==
  /\ pc = "Idle" /\ copies < MaxCopies
  /\ copies' = copies + 1 /\ pc' = "Allocate" /\ result' = "none"
  /\ UNCHANGED <<owned, freed, allocated, filled, session, holder, contents>>

\* PreparedClipboardMemory::allocate.
Allocate ==
  /\ pc = "Allocate"
  /\ \/ pc' = "Populate" /\ owned' = owned \cup {copies}
        /\ allocated' = allocated \cup {copies} /\ UNCHANGED result
     \/ pc' = "Idle" /\ result' = "Failed" /\ UNCHANGED <<owned, allocated>>
  /\ UNCHANGED <<copies, freed, filled, session, holder, contents>>

\* populate: GlobalLock, the copy, and GlobalUnlock, which may fail after the copy.
Populate ==
  /\ pc = "Populate"
  /\ \/ pc' = "Open" /\ filled' = filled \cup {copies} /\ UNCHANGED result
     \/ /\ pc' = "DropMemory" /\ result' = "Failed"
        /\ filled' \in {filled, filled \cup {copies}}
  /\ UNCHANGED <<copies, owned, freed, allocated, session, holder, contents>>

\* publish_clipboard_memory: OpenClipboard fails while another program has it open.
Open ==
  /\ pc = "Open"
  /\ \/ /\ holder = "none"
        /\ holder' = "us" /\ session' = TRUE
        /\ pc' = "Empty" /\ UNCHANGED result
     \/ pc' = "DropMemory" /\ result' = "Failed" /\ UNCHANGED <<holder, session>>
  /\ UNCHANGED <<copies, owned, freed, allocated, filled, contents>>

\* EmptyClipboard: what the clipboard owned is freed.
Empty ==
  /\ pc = "Empty"
  /\ \/ /\ contents' = 0 /\ freed' = freed \cup Discarded
        /\ pc' = "Set" /\ UNCHANGED result
     \/ pc' = "DropSession" /\ result' = "Failed" /\ UNCHANGED <<contents, freed>>
  /\ UNCHANGED <<copies, owned, allocated, filled, session, holder>>

\* transfer: a refused block is still owned, and freed when transfer returns.
FreedWhenRefused == owned \cap {copies}

ReleasedWhenSet == {copies}

Refused == pc' = "DropSession" /\ result' = "Failed"

Set ==
  /\ pc = "Set"
  /\ \/ /\ contents' = copies
        /\ owned' = owned \ ReleasedWhenSet
        /\ pc' = "Close" /\ UNCHANGED <<freed, result>>
     \/ /\ freed' = freed \cup FreedWhenRefused
        /\ owned' = owned \ {copies}
        /\ Refused /\ UNCHANGED contents
  /\ UNCHANGED <<copies, allocated, filled, session, holder>>

SessionClosed == FALSE

\* ClipboardSession::close.
Close ==
  /\ pc = "Close"
  /\ \/ /\ holder' = "none" /\ session' = SessionClosed
        /\ pc' = "DropSession" /\ result' = "Ok"
     \/ pc' = "DropSession" /\ result' = "Failed" /\ UNCHANGED <<holder, session>>
  /\ UNCHANGED <<copies, owned, freed, allocated, filled, contents>>

SessionDropped == IF session THEN holder' = "none" ELSE UNCHANGED holder

\* ClipboardSession::drop closes what is still open; this call is taken to succeed.
DropSession ==
  /\ pc = "DropSession"
  /\ SessionDropped /\ session' = FALSE
  /\ pc' = "DropMemory"
  /\ UNCHANGED <<copies, owned, freed, allocated, filled, contents, result>>

\* PreparedClipboardMemory::drop.
DropMemory ==
  /\ pc = "DropMemory"
  /\ freed' = freed \cup (owned \cap {copies})
  /\ owned' = owned \ {copies}
  /\ pc' = "Idle"
  /\ UNCHANGED <<copies, allocated, filled, session, holder, contents, result>>

-----------------------------------------------------------------------------
\* Another program opens the clipboard, replaces what is on it, closes it.
OtherOpens ==
  /\ holder = "none" /\ holder' = "other"
  /\ UNCHANGED <<pc, copies, owned, freed, allocated, filled, session, contents, result>>

OtherReplaces ==
  /\ holder = "other"
  /\ contents' = Foreign /\ freed' = freed \cup Discarded
  /\ UNCHANGED <<pc, copies, owned, allocated, filled, session, holder, result>>

OtherCloses ==
  /\ holder = "other" /\ holder' = "none"
  /\ UNCHANGED <<pc, copies, owned, freed, allocated, filled, session, contents, result>>

Next ==
  \/ copy_clipboard \/ Allocate \/ Populate \/ Open \/ Empty \/ Set \/ Close
  \/ DropSession \/ DropMemory
  \/ OtherOpens \/ OtherReplaces \/ OtherCloses

Spec == Init /\ [][Next]_vars

-----------------------------------------------------------------------------
(***************************************************************************)
(* A block on the clipboard is a live one with its whole text: nothing     *)
(* here frees it or still counts it as its own.                            *)
(***************************************************************************)
ClipboardBlockIsLive ==
  contents \in Blocks => contents \in filled /\ contents \notin freed \cup owned

(***************************************************************************)
(* Every block has one fate: between copies it was given back, or it is    *)
(* the one the clipboard owns.                                             *)
(***************************************************************************)
NoBlockLeaks ==
  /\ owned \cap freed = {}
  /\ pc = "Idle" => owned = {} /\ allocated \subseteq freed \cup Discarded

(***************************************************************************)
(* The clipboard is never left open: no failure keeps other programs out.  *)
(***************************************************************************)
ClipboardIsClosed == pc = "Idle" => holder # "us"

(***************************************************************************)
(* The guard closes only a clipboard this program has open, never one that *)
(* another program opened after it.                                        *)
(***************************************************************************)
ClosesItsOwn == session => holder = "us"

(***************************************************************************)
(* What was on the clipboard is given up only when the new text is ready   *)
(* and the clipboard is open here; afterwards it is never partial text.    *)
(***************************************************************************)
OldContentsKept ==
  contents' # contents => (holder = "other" \/ (holder = "us" /\ copies \in filled))

(***************************************************************************)
(* A copy that reports success put its text on the clipboard, where it     *)
(* stays until another program replaces it or the user copies again.       *)
(***************************************************************************)
SuccessIsOnClipboard ==
  (result' = "Ok" /\ result # "Ok") => contents = copies
=============================================================================
