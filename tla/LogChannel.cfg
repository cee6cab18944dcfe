SPECIFICATION ChannelSpec
CONSTANTS
  FlagSets = {{"stdout"}, {"stderr"}, {"stdout", "stderr"}}
  DupMayFail = FALSE
  MaxSeq = 3
  MaxConn = 2
  MaxInits = 2
  ConfPaths = 3
  LineParts = 2
INVARIANTS
  NumbersAccountedFor
  GapFree
  StdioNeverStale
  NothingLeftOpen
  NoLineJoinsACutOne
PROPERTY ImplementsSession
