\* One part of the file list in each behaviour.
SPECIFICATION Spec
CONSTANTS
  a = a
  b = b
CHECK_DEADLOCK FALSE
INVARIANTS
  AdditionsComplete
  IconsConsistent
  ImportsWhole
  ListConsistent
  ViewShowsModel
PROPERTIES
  ListSteps
