SPECIFICATION MemSpec
CONSTANTS
  NoEvent = NoEvent
  BadEvent = BadEvent
  Waits = 3
  QueueBound = 2
PROPERTY
  UnmapBeforeRelease
CHECK_DEADLOCK FALSE
