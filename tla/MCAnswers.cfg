\* Any mixture of up to four chunks, regular or not, in all three protocols.
CONSTANTS
  id1 = id1
  id2 = id2
  Ids = {id1, id2}
  None = None
  Chunks <- AllChunks
  Lengths = {1, 4}
  MaxChunks = 4
SPECIFICATION Spec
CHECK_DEADLOCK FALSE
INVARIANTS
  WellFormed
  SameAnswer
  CallsKept
