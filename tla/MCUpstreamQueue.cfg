\* Queue signals as the program runs, with lockdown.
CONSTANTS
  QueueWaits = {2, 45}
  RetryAfters = {0, 5, 60}
  NoQueue = NoQueue
  NoHeader = NoHeader
  NoAnswer = NoAnswer
SPECIFICATION FairSpec
CHECK_DEADLOCK FALSE
PROPERTIES
  QueueWaitHonoured
