SPECIFICATION Spec
CONSTANTS
  HeartBtInt = 10
  GracePeriod = 2
  AnswerDelay = 4
  MaxStall = 2
  PeerMayDie = TRUE
  MaxGarbled = 0
  MaxLost = 0
  MaxTime = 23
  MaxApp = 1
  MaxPeerApp = 1
  PeerTypes = {"Logout"}
  MaxAdmin = 1
  MaxWire = 4
INVARIANTS TypeOK DeadPeerDetected PeerHearsUs
PROPERTIES ResponsivePeerKept FailureJustified
