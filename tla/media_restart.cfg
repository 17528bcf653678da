\* Two pumps: their frames have the same numbers.
SPECIFICATION MediaSpec
CONSTANTS
  Window = 2
  QueueCap = 2
  Tails = {1, 2}
  MaxCount = 2
  MaxFrames = 2
  MaxPumps = 2
  MaxReplies = 1
  MaxCounter = 6
INVARIANT
  UnitsAreFrames
CHECK_DEADLOCK FALSE
