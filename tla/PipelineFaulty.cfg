SPECIFICATION CpuFairSpec
CONSTANTS
  FirstToken = 3
  MaxToken = 8
  SamplePeriod = 3
  GuardPeriod = 2
  FrameBound = 9
  NoEvent = NoEvent
  BadEvent = BadEvent
  Faults = {"prepare", "compose", "submit", "timeout", "event", "coalesce", "telemetry", "guard", "pad"}
INVARIANTS
  CommandsIntact
  NoTearing
  ZeroFenceMeansDone
  ReleaseOnlyWhenIdle
PROPERTIES
  ShownInOrder
  ImplementsOwnership
  OptionsLeadsToAnEnd
CHECK_DEADLOCK FALSE
