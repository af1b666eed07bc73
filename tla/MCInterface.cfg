SPECIFICATION Spec
CONSTANTS
  ARP_TTL_MS = 3
  ARP_RETRY_MS = 2
  ETHERNET_BROADCAST = Everyone
  OurMac = OurMac
  OurIp = OurIp
  n1 = n1
  n2 = n2
  m1 = m1
  m2 = m2
  Neighbours <- MCNeighbours
  Macs <- MCMacs
  Ticks <- MCTicks
  MaxDatagrams = 2
  MaxReceived = 1
INVARIANTS
  MapsAgree
  NothingWaitsLong
PROPERTIES
  RequestsAreSpaced
  AddressIsFresh
  DeliversInOrder
