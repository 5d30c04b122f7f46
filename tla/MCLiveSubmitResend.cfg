SPECIFICATION Spec
CONSTANTS
  MaxRetries = 2
  Networks <- MCPrompt
CHECK_DEADLOCK FALSE
INVARIANT
  AtMostOnce
