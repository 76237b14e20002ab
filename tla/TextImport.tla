----------------------------- MODULE TextImport -----------------------------
(***************************************************************************)
(* Reading a text file into the list (windows/text_io.rs, the import       *)
(* worker of windows/worker.rs and finish_import_worker_result): a worker  *)
(* thread opens the file and reads it in bounded native calls, any of      *)
(* which can block for as long as the volume likes, while another program  *)
(* appends to the file and the user cancels.  The file is a sequence of    *)
(* bytes; the text is a sequence of UTF-16 units.                          *)
(***************************************************************************)
EXTENDS Integers, Sequences, FiniteSets

CONSTANTS
  Texts,       \* texts the program exported earlier
  RawFiles,    \* files of other origin
  MaxBytes,    \* MAX_IMPORT_BYTES
  MaxGrowth,   \* bytes another program appends
  Remaining    \* rows the list can still take

LF      == 10
Space   == 32
BOM     == <<255, 254>>
Foreign == 97   \* the byte another program appends

ImportAssumption ==
  /\ MaxBytes \in Nat /\ MaxGrowth \in Nat /\ Remaining \in Nat

VARIABLES
  disk,          \* the file
  origin,        \* the text it was written from, or Raw
  grown,         \* bytes appended by another program
  pc,            \* where the worker is
  buffer,        \* what it has read
  seen,          \* the file when the reader met its end
  result,        \* what it sent
  cancellation,  \* the flag the worker polls
  outcome        \* what became of the import

vars == <<disk, origin, grown, pc, buffer, seen, result, cancellation, outcome>>

Raw == <<-1>>

-----------------------------------------------------------------------------
\* encode_legacy_text: the byte order mark and every unit, low byte first.
encode_legacy_text(text) ==
  BOM \o [i \in 1..(2 * Len(text)) |->
            LET unit == text[(i + 1) \div 2]
            IN  IF i % 2 = 1 THEN unit % 256 ELSE unit \div 256]

Failure   == [ok |-> FALSE, text |-> << >>]
Text(t)   == [ok |-> TRUE, text |-> t]

\* MultiByteToWideChar with a single-byte code page.
FromCodePage(bytes) == {Failure, Text(bytes)}

StartsWithBom(bytes) == Len(bytes) >= 2 /\ SubSeq(bytes, 1, 2) = BOM

\* The results decode_legacy_text can have.
decode_legacy_text(bytes) ==
  IF StartsWithBom(bytes)
  THEN IF (Len(bytes) - 2) % 2 # 0 THEN {Failure}
       ELSE {Text([i \in 1..((Len(bytes) - 2) \div 2) |->
                     bytes[2 * i + 1] + 256 * bytes[2 * i + 2]])}
  ELSE IF bytes = << >> THEN {Text(<< >>)}
  ELSE FromCodePage(bytes)

-----------------------------------------------------------------------------
(***************************************************************************)
(* bounded_import_lines: the first units of the nonblank lines, and the    *)
(* bounded number of lines the list is offered.                            *)
(***************************************************************************)
is_trim_unit(unit) == unit \in {LF, Space}

LineStarts(text) ==
  { i \in 1..Len(text) :
      /\ ~is_trim_unit(text[i])
      /\ \A j \in 1..(i - 1) :
           ~is_trim_unit(text[j]) => \E k \in j..i : text[k] = LF }

bounded_import_lines(text, limit) ==
  LET count == Cardinality(LineStarts(text))
  IN  [lines |-> IF count > limit THEN limit ELSE count, truncated |-> count > limit]

\* The Paths arm of finish_import_worker_result.
PathsOutcome(text) ==
  LET bounded == bounded_import_lines(text, Remaining + 1)
  IN  [state |-> "Accepted", text |-> text,
       told |-> bounded.truncated \/ bounded.lines > Remaining,
       admitted |-> IF bounded.lines > Remaining THEN Remaining ELSE bounded.lines]

NoOutcome == [state |-> "Pending", text |-> << >>, told |-> FALSE, admitted |-> 0]

Ended(state) == [NoOutcome EXCEPT !.state = state]

-----------------------------------------------------------------------------
NativeCall == {"InOpen", "InRead"}

WorkerPc == {"CheckOpen", "EnterOpen", "InOpen", "CheckMetadata", "Metadata", "CheckRead", "Read",
             "EnterRead", "InRead", "CheckDecode", "Exited"}

TypeOK ==
  /\ Len(disk) <= 2 * MaxBytes /\ grown \in 0..MaxGrowth
  /\ pc \in WorkerPc
  /\ Len(buffer) <= MaxBytes + 1
  /\ result.ok \in BOOLEAN
  /\ cancellation \in BOOLEAN
  /\ outcome.state \in {"Pending", "Accepted", "Cancelled", "Failed"}
  /\ outcome.admitted \in 0..Remaining

Init ==
  /\ \/ \E text \in Texts : origin = text /\ disk = encode_legacy_text(text)
     \/ origin = Raw /\ disk \in RawFiles
  /\ grown = 0
  /\ pc = "CheckOpen"
  /\ buffer = << >> /\ seen = << >>
  /\ result = Failure
  /\ cancellation = FALSE
  /\ outcome = NoOutcome

uiVars == <<cancellation, outcome>>
fileVars == <<disk, origin, grown>>

Exit(r) == pc' = "Exited" /\ result' = r

\* check_import_cancellation before each native boundary.
Check(from, to) ==
  /\ pc = from
  /\ IF cancellation THEN Exit(Failure) ELSE pc' = to /\ UNCHANGED result
  /\ UNCHANGED <<fileVars, buffer, seen, uiVars>>

\* The flag was clear a moment ago; now the native call begins.
Enter(from, call) ==
  /\ pc = from /\ pc' = call
  /\ UNCHANGED <<fileVars, buffer, seen, result, uiVars>>

OpenReturns ==
  /\ pc = "InOpen"
  /\ \/ pc' = "CheckMetadata" /\ UNCHANGED result
     \/ Exit(Failure)
  /\ UNCHANGED <<fileVars, buffer, seen, uiVars>>

Metadata ==
  /\ pc = "Metadata"
  /\ \/ Len(disk) <= MaxBytes /\ pc' = "CheckRead" /\ UNCHANGED result
     \/ Exit(Failure)
  /\ UNCHANGED <<fileVars, buffer, seen, uiVars>>

\* Mutant: the stream is cut at the limit and not one byte behind it.
ReadLimitCut == MaxBytes

\* The Take of read_bounded_import.
ReadLimit == MaxBytes + 1

(***************************************************************************)
(* read_to_end on the CancellableImportReader: the flag is checked before  *)
(* every native read; the adapter ends the stream at the limit without     *)
(* one.                                                                    *)
(***************************************************************************)
Read ==
  /\ pc = "Read"
  /\ IF Len(buffer) = ReadLimit
     THEN /\ seen' = disk
          /\ IF Len(buffer) > MaxBytes THEN Exit(Failure)
             ELSE pc' = "CheckDecode" /\ UNCHANGED result
     ELSE /\ IF cancellation THEN Exit(Failure) ELSE pc' = "EnterRead" /\ UNCHANGED result
          /\ UNCHANGED seen
  /\ UNCHANGED <<fileVars, buffer, uiVars>>

ReadReturns ==
  /\ pc = "InRead"
  /\ \/ /\ Len(buffer) < Len(disk)
        /\ \E n \in (Len(buffer) + 1)..Len(disk) :
             n <= ReadLimit /\ buffer' = SubSeq(disk, 1, n)
        /\ pc' = "Read" /\ UNCHANGED <<result, seen>>
     \/ /\ Len(buffer) = Len(disk)
        /\ seen' = disk
        /\ IF Len(buffer) > MaxBytes THEN Exit(Failure)
           ELSE pc' = "CheckDecode" /\ UNCHANGED result
        /\ UNCHANGED buffer
     \/ Exit(Failure) /\ UNCHANGED <<buffer, seen>>
  /\ UNCHANGED <<fileVars, uiVars>>

Decode ==
  /\ pc = "CheckDecode"
  /\ IF cancellation THEN Exit(Failure)
     ELSE \E r \in decode_legacy_text(buffer) : Exit(r)
  /\ UNCHANGED <<fileVars, buffer, seen, uiVars>>

-----------------------------------------------------------------------------
(***************************************************************************)
(* ImportWorker::request_cancel: the flag, and CancelSynchronousIo, which  *)
(* ends a native call only if the worker is inside one right now.          *)
(***************************************************************************)
request_cancel ==
  /\ cancellation' = TRUE
  /\ IF pc \in NativeCall THEN Exit(Failure) ELSE UNCHANGED <<pc, result>>

Cancel ==
  /\ outcome = NoOutcome /\ ~cancellation
  /\ request_cancel
  /\ UNCHANGED <<fileVars, buffer, seen, outcome>>

\* The 100 ms timer finds a cancelled worker still running and asks again.
Poll ==
  /\ outcome = NoOutcome /\ pc # "Exited" /\ cancellation
  /\ request_cancel
  /\ UNCHANGED <<fileVars, buffer, seen, outcome>>

\* handle_import_completion and finish_import_worker_result.
handle_import_completion ==
  /\ outcome = NoOutcome /\ pc = "Exited"
  /\ outcome' = IF cancellation THEN Ended("Cancelled")
                ELSE IF result.ok THEN PathsOutcome(result.text)
                ELSE Ended("Failed")
  /\ UNCHANGED <<fileVars, pc, buffer, seen, result, cancellation>>

OtherAppends ==
  /\ grown < MaxGrowth /\ pc # "Exited"
  /\ disk' = disk \o <<Foreign>>
  /\ grown' = grown + 1
  /\ UNCHANGED <<origin, pc, buffer, seen, result, uiVars>>

WorkerStep ==
  \/ Check("CheckOpen", "EnterOpen")
  \/ Enter("EnterOpen", "InOpen")
  \/ Check("CheckMetadata", "Metadata")
  \/ Metadata
  \/ Check("CheckRead", "Read")
  \/ Read
  \/ Enter("EnterRead", "InRead")
  \/ Decode

Next ==
  \/ WorkerStep \/ OpenReturns \/ ReadReturns
  \/ Cancel \/ Poll \/ handle_import_completion
  \/ OtherAppends

Spec == Init /\ [][Next]_vars

-----------------------------------------------------------------------------
(***************************************************************************)
(* A text that reaches the list is the whole file as the reader found it   *)
(* at its end, however much the file grew after its size was checked:      *)
(* never the part of it that fits the limit.                               *)
(***************************************************************************)
NeverTruncated ==
  (pc = "CheckDecode" \/ result.ok) => buffer = seen /\ Len(seen) <= MaxBytes

(***************************************************************************)
(* An exported text comes back unit for unit, with lone surrogates and a   *)
(* leading byte order mark of its own; a file with half a unit at its end  *)
(* is refused.                                                             *)
(***************************************************************************)
ExportComesBack ==
  outcome.state = "Accepted" =>
    /\ (origin # Raw /\ buffer = encode_legacy_text(origin)) => outcome.text = origin
    /\ StartsWithBom(buffer) => encode_legacy_text(outcome.text) = buffer

(***************************************************************************)
(* A cancelled import never changes the list, also when the cancellation   *)
(* comes after the worker has sent a good result.                          *)
(***************************************************************************)
CancelledIsDiscarded == outcome.state = "Accepted" => ~cancellation

(***************************************************************************)
(* When the file holds more paths than the list can take, the list is      *)
(* filled and the user is told; otherwise every line is offered and        *)
(* nothing is said.                                                        *)
(***************************************************************************)
ExcessIsReported ==
  outcome.state = "Accepted" =>
    LET count == Cardinality(LineStarts(outcome.text))
    IN  /\ outcome.told <=> count > Remaining
        /\ outcome.admitted = (IF count > Remaining THEN Remaining ELSE count)

=============================================================================
