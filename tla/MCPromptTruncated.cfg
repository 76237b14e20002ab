\* A text that grows and shrinks back while it is read is accepted cut.
SPECIFICATION Spec
CONSTANTS
  MaxText = 2
  MaxDetails = 4
  MaxDepth = 1
  MaxFaults = 0
  MaxEdits = 2
  MaxStyles = 0
  Texts = {}
INVARIANTS
  ValueIsWhole
