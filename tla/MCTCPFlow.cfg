SPECIFICATION Spec
CONSTANTS
  A = A
  B = B
  Peers <- BothPeers
  Openers <- OnlyA
  Keeps = TRUE
  Isn <- FarIsn
  SendCapacity = 2
  RecvCapacity = 2
  MAX_PAYLOAD_SIZE = 1
  UINT16_MAX = 3
  UINT64_MAX = 99
  LingerTime = 0
  MOD = 16
  NoAckno = NoAckno
  InitialRTO = 1
  Ticks <- OneTick
  MaxBytes <- TwoFromA
  Closers <- OnlyA
  MaxRetx = 1
INVARIANTS
  AckedIsAssembled
  BacklogHasFlight
PROPERTY
  ForthIsReliable
CHECK_DEADLOCK FALSE
