SPECIFICATION Spec
CONSTANTS
  Buffers = {0, 1}
  FirstToken = 5
  MaxToken = 8
INVARIANTS
  TypeOK
  TokensDistinct
  FlagsAreReports
PROPERTY
  ImplementsOwnership
