\* Queue signals and headers below and above the cap.
CONSTANTS
  QueueWaits = {2, 45}
  RetryAfters = {0, 5, 60}
  NoQueue = NoQueue
  NoHeader = NoHeader
  NoAnswer = NoAnswer
SPECIFICATION FairSpec
CHECK_DEADLOCK FALSE
INVARIANTS
  RetriesBounded
  BodiesClosed
PROPERTIES
  QueueWaitUnlocked
  CallReturns
