SPECIFICATION FairSpec
CONSTANTS
  kReadBufferSize = 4
  buffer_size = 1
  send_capacity = 1
  recv_capacity = 2
  RemoteBytes = 2
  PairRoom = 1
  OutputRoom = 1
  InputBytes = 2
  Openings <- BothOpenings
  Terminals = {FALSE}
  Breaks = TRUE
INVARIANTS
  NothingIsStranded
  NobodyDies
PROPERTIES
  InputIsSent
  RemoteIsPrinted
  ProgramEnds
  WaitReturns
CHECK_DEADLOCK FALSE
