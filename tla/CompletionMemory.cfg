SPECIFICATION MemSpec
CONSTANTS
  NoEvent = NoEvent
  BadEvent = BadEvent
  Waits = 3
  QueueBound = 2
INVARIANTS
  ReleaseIsEarned
  TimeoutsBlameTheRightDevice
PROPERTIES
  ParkedForever
  MemoryOutlivesDevices
CHECK_DEADLOCK FALSE
