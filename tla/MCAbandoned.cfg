SPECIFICATION AbruptSpec
CONSTANTS
  kReadBufferSize = 4
  buffer_size = 1
  send_capacity = 1
  recv_capacity = 1
  RemoteBytes = 1
  PairRoom = 1
  OutputRoom = 1
  InputBytes = 1
  Openings <- BothOpenings
  Terminals = {TRUE}
  Breaks = FALSE
INVARIANT
  DestroyedSendsReset
CHECK_DEADLOCK FALSE
