SPECIFICATION Spec
CONSTANTS
  Size = 4
  Correct = 0
  Choices <- MCChoices
  None = None
INVARIANTS
  SameOption
  VerdictFits
CHECK_DEADLOCK FALSE
