SPECIFICATION ChannelSpec
CONSTANTS
  FlagSets = {{"stdout"}}
  DupMayFail = FALSE
  MaxSeq = 1
  MaxConn = 1
  MaxInits = 1
  ConfPaths = 1
  LineParts = 3
INVARIANT RecordWaitsOneTimeout
