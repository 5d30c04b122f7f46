SPECIFICATION Spec
CONSTANTS
  MaxRetries = 3
  Networks <- Network
INVARIANTS
  ExactBooksOnce
PROPERTIES
  Answered
  OutcomeSpec
CHECK_DEADLOCK FALSE
