\* The swap of two names with at most four failures, and with all the
\* fairness the program's own loops give.
CONSTANTS
  f = f
  g = g
  kf = kf
  kg = kg
  kt = kt
  None = None
  Foreign = Foreign
  fi = fi
  gi = gi
  Entries <- MCEntries
  Identities <- MCIdentities
  Keys <- MCKeys
  RowCount = 2
  Rows <- MCRows
  StepCount = 3
  Steps <- MCSteps
  Occ <- MCOcc
  MaxFrames = 16
  MaxFaults = 4
SPECIFICATION FairSpec
INVARIANTS
  JournalAlwaysReadable
  JournalTracksFiles
  NothingLost
  OutcomesHonest
PROPERTIES
  WriteAhead
  StepsGuarded
  ImplementsAtomicBatch
  ActiveJournalResolved
