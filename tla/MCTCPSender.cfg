SPECIFICATION Spec
CONSTANTS
  MOD = 8
  MAX_PAYLOAD_SIZE = 2
  InitialRTO = 2
  NoAckno = NoAckno
  Isn = 7
  Capacity = 3
  Windows <- MCWindows
  Ticks <- MCTicks
  MaxStream = 4
  MaxRetx = 2
INVARIANTS
  OutstandingIsContiguous
  TimerRunsIffOutstanding
  BackoffMatchesRetransmissions
  FinIsLast
  WireIsHonest
  ClosedFormsAreTheLoops
PROPERTIES
  WindowIsRespected
  RetransmissionIsNeeded
