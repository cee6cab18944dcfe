SPECIFICATION TelemetryFairSpec
CONSTANTS
  FirstToken = 3
  MaxToken = 10
  SamplePeriod = 3
  MaxWord = 6
  Budget = 3
  Timings <- TheTimings
INVARIANTS
  SlotsAgree
  FramesAccountedFor
  EndingsAreSound
  SamplesInOrder
  ReportIsTrue
PROPERTIES
  ImplementsFramesInFlight
  DrainReturns
