SPECIFICATION FairSpec
CONSTANTS
  ARP_TTL_MS = 1
  ARP_RETRY_MS = 1
  ETHERNET_BROADCAST = Everyone
  WIDTH = 4
  Direct = Direct
  a = a
  b = b
  r = r
  s = s
  ra = ra
  rm = rm
  sm = sm
  sb = sb
  left = left
  middle = middle
  right = right
  IpAddress <- MCIpAddress
  Segments <- MCSegments
  Connections <- MCConnections
  Gateways <- MCGateways
  Senders <- BothHosts
  Interfaces <- MCInterfaces
  RoutePlan <- MCRoutePlan
  Destinations <- HostsAndNowhere
  Lifetimes = {2, 3}
  TickMs = 1
  Faulty = FALSE
  MaxLaunched = 2
  WireCapacity = 4
PROPERTIES
  EverythingSettles
  ReachesTheAddressee
CHECK_DEADLOCK FALSE
