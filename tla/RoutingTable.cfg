SPECIFICATION TableSpec
CONSTANTS
  ARP_TTL_MS = 1
  ARP_RETRY_MS = 1
  ETHERNET_BROADCAST = Everyone
  WIDTH = 3
  Direct = Direct
  MaxRoutes = 3
INVARIANTS
  LongestPrefixWins
CHECK_DEADLOCK FALSE
