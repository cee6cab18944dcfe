SPECIFICATION FairSpec
CONSTANTS
  FirstToken = 3
  MaxToken = 20
  SamplePeriod = 3
  GuardPeriod = 2
  FrameBound = 7
  NoEvent = NoEvent
  BadEvent = BadEvent
  Faults = {}
INVARIANTS
  NeverParks
  ExitIsAFreshPress
PROPERTY
  OptionsLeadsToExit
CHECK_DEADLOCK FALSE
