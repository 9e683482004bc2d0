\* A channel of two and answers of up to five chunks; both sides end.
CONSTANTS
  Capacity = 2
  Lockdown = TRUE
  MaxChunks = 5
SPECIFICATION FairSpec
CHECK_DEADLOCK FALSE
INVARIANTS
  AnswerFaithful
PROPERTIES
  Delivers
  NobodyLeft
