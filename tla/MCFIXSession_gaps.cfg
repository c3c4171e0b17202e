SPECIFICATION Spec
CONSTANTS
  HeartBtInt = 100
  GracePeriod = 0
  AnswerDelay = 1
  MaxStall = 0
  PeerMayDie = FALSE
  MaxGarbled = 1
  MaxLost = 2
  MaxTime = 1
  MaxApp = 1
  MaxPeerApp = 1
  PeerTypes = {"TestRequest", "Reset"}
  MaxAdmin = 3
  MaxWire = 4
INVARIANTS InStep PeerUnblocked GapCloses NoFalseLogout
