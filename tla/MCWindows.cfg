\* One window of the program in each behaviour.
SPECIFICATION AllSpec
CONSTANTS
  Lease = {1, 2, 3, 4}
  MaxDepth = 4
  MaxReports = 3
  MaxFaults = 3
CHECK_DEADLOCK FALSE
INVARIANTS
  ReclaimedExactlyOnce
  CallbacksSafe
  ProgressTruthful
  RailsUsable
  PromptSafe
  AppearanceSafe
  TransfersSafe
  WindowsLaidOut
PROPERTIES
  WindowSteps
  PlacedInWorkArea
