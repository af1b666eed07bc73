SPECIFICATION Spec
CONSTANTS
  StreamLength = 8
  Capacity = 7
  UINT64_MAX = 99
INVARIANTS
  BytesInPlace
  PendingIsMerged
  StoreAndFlushIsTheLoops
PROPERTY
  KeepsItsPromise
