SPECIFICATION Spec
CONSTANTS
  Slots = {0, 1}
  SlotDwords = 205
  SlotAt <- TheSlots
  FenceAt <- TheFences
  MappingAt = 0
  MappingDwords = 650
  MaxAddress = 653
  ShDwords = 27
  DrawDwords = 3
  FillRoom = 16
  FlipRoom = 64
  ReleaseDwords = 8
  Advances = {0}
  Leaves = {0, 29, 192}
  FrameBound = 3
INVARIANTS
  StreamsAreWhole
  NothingPastTheSlot
  SubmittedSpanIsMapped
  FenceTellsTruth
  RetainsWhatDevicesMayOwn
CHECK_DEADLOCK FALSE
