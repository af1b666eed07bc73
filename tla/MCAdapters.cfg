SPECIFICATION Spec
CONSTANTS
  NoAckno = NoAckno
  NoMessage = NoMessage
  NoDatagram = NoDatagram
  Hosts <- AllHosts
  Adapters <- AllAdapters
  Messages <- SomeMessages
  FlippedBits <- SomeBits
  Padding <- SomePadding
INVARIANTS
  ReadIsWritten
  PeerIsHeard
  OneConversation
