SPECIFICATION Spec
CONSTANTS
  FlagSets = {{"stdout"}, {"stdout", "stderr"}}
  DupMayFail = TRUE
  MaxSeq = 3
  MaxConn = 2
  MaxInits = 2
INVARIANT StdioNeverStale
