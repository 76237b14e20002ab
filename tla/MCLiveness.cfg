\* What must happen in the end.
SPECIFICATION Spec
CONSTANTS
  iconA = iconA
  iconB = iconB
  k1 = k1
  k2 = k2
  k3 = k3
  k4 = k4
  NoFile = NoFile
  Outside = Outside
CHECK_DEADLOCK FALSE
PROPERTIES
  UserIsAnswered
  BackgroundWorkEnds
