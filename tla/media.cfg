\* Two pumps, frames of one or two fragments, and a window of two.
SPECIFICATION MediaSpec
CONSTANTS
  Window = 2
  QueueCap = 2
  Tails = {1}
  MaxCount = 2
  MaxFrames = 2
  MaxPumps = 2
  MaxReplies = 1
  MaxCounter = 6
INVARIANTS
  MediaTypeOK
  CountersUnique
  WindowIsExact
  MetricsAddUp
  ChannelsAreFifo
  UnitsAreFramesOfOnePump
  FramesAreRebuilt
PROPERTIES
  AtMostOnce
CHECK_DEADLOCK FALSE
