\* The comment on read_journal_records, against what the scan reports.
SPECIFICATION Spec
CONSTANTS
  NoFile = NoFile
  Outside = Outside
CHECK_DEADLOCK FALSE
INVARIANT OnlyTheFinalFrameIsTorn
