SPECIFICATION LossySpec
CONSTANTS
  A = A
  B = B
  Peers <- BothPeers
  Openers <- BothPeers
  Keeps = FALSE
  Isn <- FarIsn
  SendCapacity = 2
  RecvCapacity = 1
  MAX_PAYLOAD_SIZE = 2
  UINT16_MAX = 3
  UINT64_MAX = 99
  LingerTime = 1
  MOD = 16
  NoAckno = NoAckno
  InitialRTO = 1
  Ticks <- OneTick
  MaxBytes <- TwoAndOne
  Closers <- BothPeers
  MaxRetx = 0
INVARIANTS
  SomeoneLingers
  FinishIsClean
PROPERTIES
  BackIsReliable
  WrittenIsRead
  CloseIsSeen
CHECK_DEADLOCK FALSE
