\* Each part of the rename path on its own small instance.
SPECIFICATION Spec
CONSTANTS
  NoFile = NoFile
  Outside = Outside
CHECK_DEADLOCK FALSE
INVARIANTS
  ReplayersAgree
  JournalFileHonest
  PlanSound
  RenameOutcomeTrue
  ConfirmationTruthful
