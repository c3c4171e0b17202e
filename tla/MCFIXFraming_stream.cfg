SPECIFICATION Spec
CONSTANTS
  Capacity = 32
  MaxMessage = 7
  Kinds <- MCKinds
  KnownTypes = {1}
  Changes = {0, 3, 7}
  MaxSent = 3
  MaxGarbled = 1
INVARIANTS TypeOK CanReceive NothingHeldBack
PROPERTY ChannelSpec
