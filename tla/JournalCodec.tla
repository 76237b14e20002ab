---------------------------- MODULE JournalCodec ----------------------------
(***************************************************************************)
(* The bytes of the journal file (rename/file_journal.rs): the framing of  *)
(* the records, the strict reader, and the retained capability that        *)
(* appends frames and truncates a torn one.                                *)
(*                                                                         *)
(* A file is a sequence of cells, one for each field of a frame: magic,    *)
(* version, kind, flags, sequence, payload length, checksum, then the      *)
(* payload's fields.  A cell is a tuple of numbers: a field holds one, the *)
(* checksum the concatenation of what it covers (two contents never have   *)
(* the same checksum here).  An append can stop after any cell, and the    *)
(* medium can change a cell of the closed file once.                       *)
(***************************************************************************)
EXTENDS Journal

LOCAL SX == INSTANCE SequencesExt

CONSTANTS
  MaxFrames,        \* MAX_JOURNAL_FRAMES
  MaxPayload,       \* MAX_JOURNAL_FRAME_BYTES
  MaxFile,          \* MAX_JOURNAL_FILE_BYTES
  Damage            \* the cells a failing medium can leave behind

CodecAssumption ==
  /\ MaxFrames \in Nat /\ MaxPayload \in Nat /\ MaxFile \in Nat
  /\ \A cell \in Damage : cell \in Seq(Nat)

VARIABLES
  file,       \* the cells on disk
  cap,        \* the retained capability (FileJournal), or Closed
  written,    \* history: the records of the file and the one last handed to write_all
  inflight,   \* history: the last of them was not confirmed
  damaged,    \* history: the medium has changed a cell
  refused     \* the last open failed and kept the bytes as evidence

vars == <<file, cap, written, inflight, damaged, refused>>

Record ==
  {Intent} \cup {Terminal(t) : t \in {"Committed", "RolledBack"}}
  \cup UNION { {Prepared(s, d), Completed(s, d), NotApplied(s, d)} :
                 s \in StepNumber, d \in Direction }

Replay(rs) == SX!FoldLeft(ReplayStep, EmptyReplay, rs)

-----------------------------------------------------------------------------
(***************************************************************************)
(* Encoding.  The Intent carries the plan's fingerprint, the number of     *)
(* steps and for each step its paths and identities (one cell), its kind,  *)
(* scope and temporary phase; version 1 stored neither kind nor scope.     *)
(***************************************************************************)
MAGIC          == 7
LEGACY_VERSION == 1
VERSION        == 2
FLAGS_NONE     == 0
HEADER         == 7
PlanFingerprint == 5

Field(n) == <<n>>

KindNumber(r) ==
  CASE r.kind = "Intent" -> 1 [] r.kind = "Prepared" -> 2
    [] r.kind = "Completed" -> 3 [] r.kind = "NotApplied" -> 4
    [] r.kind = "Terminal" -> 5

encode_direction(d) == IF d = "Forward" THEN 0 ELSE 1

encode_phase(p) ==
  CASE p = "None" -> 0 [] p = "IntoTemporary" -> 1 [] p = "FromTemporary" -> 2

StepFields(i, version) ==
  <<Field(i)>>
  \o (IF version = LEGACY_VERSION THEN << >> ELSE <<Field(0), Field(0)>>)
  \o <<Field(encode_phase(Steps[i].phase))>>

encode_record(r, version) ==
  CASE r.kind = "Intent" ->
         <<Field(PlanFingerprint), Field(StepCount)>>
         \o SX!FlattenSeq([i \in StepNumber |-> StepFields(i, version)])
    [] r.kind = "Terminal" -> <<Field(IF r.tag = "Committed" THEN 0 ELSE 1)>>
    [] OTHER -> <<Field(r.step), Field(encode_direction(r.tag))>>

crc32_parts(cells) == SX!FlattenSeq(cells)

Framed(version, kind, sequence, payload) ==
  LET covered == <<Field(version), Field(kind), Field(FLAGS_NONE),
                   Field(sequence), Field(Len(payload))>>
  IN  <<Field(MAGIC)>> \o covered \o <<crc32_parts(covered \o payload)>> \o payload

encode_frame(sequence, r) ==
  Framed(VERSION, KindNumber(r), sequence, encode_record(r, VERSION))

-----------------------------------------------------------------------------
(***************************************************************************)
(* Decoding one payload: every field has a known value and nothing is left *)
(* over.  Invalid stands for any JournalCodecError.  An Intent whose steps *)
(* are not the manifest's is some other Intent.                            *)
(***************************************************************************)
Invalid == [kind |-> "Invalid", step |-> NoStep, tag |-> "Invalid"]

OtherIntent == [kind |-> "Intent", step |-> NoStep, tag |-> "Other"]

StepWidth(version) == IF version = LEGACY_VERSION THEN 2 ELSE 4

ValidStepFields(payload, version, i) ==
  LET at == 2 + (i - 1) * StepWidth(version)
  IN  /\ version = VERSION => /\ payload[at + 2] \in {Field(0), Field(1)}
                              /\ payload[at + 3] \in {Field(0), Field(1)}
      /\ payload[at + StepWidth(version)] \in {Field(0), Field(1), Field(2)}

DecodeIntent(payload, version) ==
  IF /\ Len(payload) >= 2
     /\ \E count \in 0..StepCount :
          /\ payload[2] = Field(count)
          /\ Len(payload) = 2 + count * StepWidth(version)
          /\ \A i \in 1..count : ValidStepFields(payload, version, i)
  THEN IF payload = encode_record(Intent, version) THEN Intent ELSE OtherIntent
  ELSE Invalid

DecodeStep(name, payload) ==
  IF /\ Len(payload) = 2
     /\ Len(payload[1]) = 1
     /\ payload[2] \in {Field(0), Field(1)}
  THEN [kind |-> name, step |-> payload[1][1],
        tag |-> IF payload[2] = Field(0) THEN "Forward" ELSE "Rollback"]
  ELSE Invalid

decode_record(kind, payload, version) ==
  CASE kind = Field(1) -> DecodeIntent(payload, version)
    [] kind = Field(2) -> DecodeStep("Prepared", payload)
    [] kind = Field(3) -> DecodeStep("Completed", payload)
    [] kind = Field(4) -> DecodeStep("NotApplied", payload)
    [] kind = Field(5) ->
         IF payload \in {<<Field(0)>>, <<Field(1)>>}
         THEN Terminal(IF payload = <<Field(0)>> THEN "Committed" ELSE "RolledBack")
         ELSE Invalid

(***************************************************************************)
(* inspect_journal_records: the frames from offset on, `records' read so   *)
(* far.  A file that ends inside a frame is torn there; everything else    *)
(* that is not a frame with the next sequence number refuses the file.     *)
(***************************************************************************)
Refusal == [ok |-> FALSE, records |-> << >>, torn |-> FALSE, valid |-> 0]

finish_inspection(records, torn, valid) ==
  IF (torn /\ records = << >>) \/ Replay(records).corrupt
  THEN Refusal
  ELSE [ok |-> TRUE, records |-> records, torn |-> torn, valid |-> valid]

ValidHeader(header, frame) ==
  /\ header[1] = Field(MAGIC)
  /\ header[2] \in {Field(LEGACY_VERSION), Field(VERSION)}
  /\ header[3] \in {Field(k) : k \in 1..5}
  /\ header[4] = Field(FLAGS_NONE)
  /\ header[5] = Field(frame)
  /\ header[6] \in {Field(n) : n \in 0..MaxPayload}

ChecksumMatches(header, payload) ==
  header[7] = crc32_parts(SubSeq(header, 2, 6) \o payload)

FrameLimitOffByOne(frame) == frame + 1 >= MaxFrames   \* mutant

AtFrameLimit(frame) == frame >= MaxFrames

RECURSIVE InspectFrom(_, _, _)
InspectFrom(cells, offset, records) ==
  LET frame  == Len(records)
      header == SubSeq(cells, offset + 1, offset + HEADER)
      start  == offset + HEADER
  IN  IF offset = Len(cells) THEN finish_inspection(records, FALSE, offset)
      ELSE IF AtFrameLimit(frame) THEN Refusal
      ELSE IF start > Len(cells) THEN finish_inspection(records, TRUE, offset)
      ELSE IF ~ValidHeader(header, frame) THEN Refusal
      ELSE LET end     == start + header[6][1]
               payload == SubSeq(cells, start + 1, end)
               record  == decode_record(header[3], payload, header[2][1])
           IN  IF end > Len(cells) THEN finish_inspection(records, TRUE, offset)
               ELSE IF ~ChecksumMatches(header, payload) THEN Refusal
               ELSE IF record = Invalid THEN Refusal
               ELSE InspectFrom(cells, end, Append(records, record))

inspect_journal_records(cells) ==
  IF Len(cells) > MaxFile THEN Refusal ELSE InspectFrom(cells, 0, << >>)

-----------------------------------------------------------------------------
(***************************************************************************)
(* The retained capability.  `torn' is torn_prefix: the length of the      *)
(* complete frames when the file ends in an incomplete one.                *)
(***************************************************************************)
NotTorn == -1

Closed == [open |-> FALSE, records |-> << >>, torn |-> NotTorn, poisoned |-> FALSE]

Opened(inspection) ==
  [open |-> TRUE, records |-> inspection.records,
   torn |-> IF inspection.torn THEN inspection.valid ELSE NotTorn,
   poisoned |-> FALSE]

TypeOK ==
  /\ \A i \in 1..Len(file) : file[i] \in Seq(Nat)
  /\ cap.open \in BOOLEAN /\ cap.poisoned \in BOOLEAN
  /\ cap.records \in Seq(Record)
  /\ cap.torn \in {NotTorn} \cup 0..Len(file)
  /\ written \in Seq(Record)
  /\ inflight \in BOOLEAN /\ damaged \in BOOLEAN /\ refused \in BOOLEAN

(***************************************************************************)
(* A new journal, or one begun by the version that wrote legacy frames.    *)
(***************************************************************************)
Init ==
  /\ \/ file = << >> /\ written = << >>
     \/ /\ file = Framed(LEGACY_VERSION, 1, 0, encode_record(Intent, LEGACY_VERSION))
        /\ written = <<Intent>>
  /\ cap = Closed
  /\ inflight = FALSE /\ damaged = FALSE /\ refused = FALSE

OpenExisting ==
  /\ ~cap.open
  /\ ~refused
  /\ LET inspection == inspect_journal_records(file)
     IN  IF inspection.ok
         THEN cap' = Opened(inspection) /\ UNCHANGED refused
         ELSE refused' = TRUE /\ UNCHANGED cap
  /\ UNCHANGED <<file, written, inflight, damaged>>

(***************************************************************************)
(* append to the first `keep' cells of the file: the frame in full and     *)
(* synced, or, on an error or a crash, any part of it.  The records the    *)
(* executor and the recovery append are those that replay accepts.         *)
(***************************************************************************)
CanAppend(r, keep) ==
  /\ cap.open /\ ~cap.poisoned
  /\ Len(cap.records) < MaxFrames
  /\ Accepts(Replay(cap.records), r)
  /\ keep + Len(encode_frame(Len(cap.records), r)) <= MaxFile

Written(r, confirmed) ==
  /\ written' = Append(cap.records, r)
  /\ inflight' = ~confirmed

AppendAll(r, keep) ==
  LET frame == encode_frame(Len(cap.records), r)
  IN  /\ file' = SubSeq(file, 1, keep) \o frame
      /\ cap' = [cap EXCEPT !.records = Append(@, r), !.torn = NotTorn]
      /\ Written(r, TRUE)

AppendPart(r, keep) ==
  LET frame == encode_frame(Len(cap.records), r)
  IN  \E n \in 0..Len(frame) :
        /\ file' = SubSeq(file, 1, keep) \o SubSeq(frame, 1, n)
        /\ cap' = [cap EXCEPT !.poisoned = TRUE]
        /\ Written(r, FALSE)

AppendRecord(r) ==
  /\ cap.torn = NotTorn
  /\ CanAppend(r, Len(file))
  /\ AppendAll(r, Len(file)) \/ AppendPart(r, Len(file))
  /\ UNCHANGED <<damaged, refused>>

(***************************************************************************)
(* authorized_append to a torn file: the incomplete frame is cut off       *)
(* first.  The cut itself can fail before or after it has taken effect.    *)
(***************************************************************************)
ResumeTorn(r) ==
  /\ cap.torn # NotTorn
  /\ CanAppend(r, cap.torn)
  /\ \/ AppendAll(r, cap.torn)
     \/ AppendPart(r, cap.torn)
     \/ /\ cap' = [cap EXCEPT !.poisoned = TRUE]
        /\ file' \in {file, SubSeq(file, 1, cap.torn)}
        /\ written' = cap.records
        /\ inflight' = TRUE
  /\ UNCHANGED <<damaged, refused>>

\* The process ends, in order or by a crash: what was written stays.
Close ==
  /\ cap.open
  /\ cap' = Closed
  /\ UNCHANGED <<file, written, inflight, damaged, refused>>

\* The medium fails between two runs.
DamageCell ==
  /\ ~cap.open /\ ~refused /\ ~damaged
  /\ \E i \in 1..Len(file) : \E cell \in Damage :
       /\ file[i] # cell
       /\ file' = [file EXCEPT ![i] = cell]
  /\ damaged' = TRUE
  /\ UNCHANGED <<cap, written, inflight, refused>>

Next ==
  \/ OpenExisting
  \/ \E r \in Record : AppendRecord(r)
  \/ \E r \in Record : ResumeTorn(r)
  \/ Close
  \/ DamageCell

Spec == Init /\ [][Next]_vars

-----------------------------------------------------------------------------
(***************************************************************************)
(* A journal that the medium left alone is readable after any crash, and   *)
(* holds every confirmed record: the frame in flight is there, or absent,  *)
(* or torn.  It is refused only when the very first frame is torn.  The    *)
(* writer's frame and size limits are the reader's.                        *)
(***************************************************************************)
CrashLosesOnlyTheUnconfirmed ==
  ~damaged =>
    LET inspection == inspect_journal_records(file)
    IN  IF inspection.ok
        THEN \/ inspection.records = written /\ (inspection.torn => inflight)
             \/ inflight /\ inspection.records = SX!Front(written)
        ELSE inflight /\ Len(written) <= 1

(***************************************************************************)
(* Damage to a cell, wherever it is, never makes the reader hand out a     *)
(* record that was not written, or records in another order: what it hands *)
(* out is a prefix of what was written.  (The checksum covers version,     *)
(* kind, flags, sequence, length and payload, and only then is the record  *)
(* decoded.)                                                               *)
(***************************************************************************)
DamageNeverInventsRecords ==
  LET inspection == inspect_journal_records(file)
  IN  inspection.ok => SX!IsPrefix(inspection.records, written)

(***************************************************************************)
(* While the capability is usable, the records in memory are the complete  *)
(* frames of the file, also after a torn frame has been cut off: recovery  *)
(* and the executor decide on the former and restart on the latter.        *)
(***************************************************************************)
MemoryMatchesFile ==
  (cap.open /\ ~cap.poisoned) =>
    LET inspection == inspect_journal_records(file)
    IN  /\ inspection.ok
        /\ inspection.records = cap.records
        /\ inspection.torn = (cap.torn # NotTorn)

(***************************************************************************)
(* The doc comment of inspect_journal_records: the reader distinguishes    *)
(* only a final torn frame.  A file opened as torn thus lacks at most the  *)
(* one record of that frame.                                               *)
(***************************************************************************)
OnlyTheFinalFrameIsTorn ==
  (cap.open /\ cap.torn # NotTorn) => Len(written) - Len(cap.records) <= 1
=============================================================================
