\* What a client is told of an error, as the program runs.
CONSTANTS
  Capacity = 2
  Lockdown = TRUE
  MaxChunks = 2
SPECIFICATION Spec
CHECK_DEADLOCK FALSE
INVARIANTS
  ErrorsSanitized
