\* Three connections compete for two slots while run stops; run must return.
CONSTANTS
  Requests = {r1, r2, r3}
  Slots = 2
SPECIFICATION FairSpec
CHECK_DEADLOCK FALSE
INVARIANTS
  NoUseAfterClose
  NothingLeftBehind
  SlotsHeld
  CleanupErrorsReported
PROPERTIES
  ShutdownEnds
