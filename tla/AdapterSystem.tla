--------------------------- MODULE AdapterSystem ----------------------------
(* Adapters on hosts of one network: one listens, the others connect to it. *)
(* One datagram at a time is on the way.  The network loses it, brings it   *)
(* to anyone and to several, flips one of its bits, or pads it as links     *)
(* with a least length of a frame do.                                       *)
EXTENDS TCPOverIPv4Adapter

CONSTANTS
  Hosts,
  Adapters,       \* what connect() or listen_and_accept() gave each of them
  Messages,       \* what TCPPeer may send
  FlippedBits,    \* pairs of an octet of the datagram and a bit of it
  Padding,        \* what a link adds
  NoDatagram

VARIABLES
  adapters,
  wire,           \* the datagram: its octets, who wrote what, what befell it
  talkers         \* whose messages each host has got

vars == << adapters, wire, talkers >>

Init ==
  /\ adapters = Adapters
  /\ wire = NoDatagram
  /\ talkers = [h \in Hosts |-> {}]

\* A TCPPeer that listens has nobody to write to.
Write(h, message) ==
  /\ wire = NoDatagram /\ ~adapters[h].listening
  /\ wire' = [octets  |-> TunWrite(adapters[h], message),
              from    |-> adapters[h].source,
              to      |-> adapters[h].destination,
              message |-> message,
              damage  |-> <<>>]
  /\ UNCHANGED << adapters, talkers >>

Drop(h) == wire = NoDatagram /\ MayDrop(adapters[h]) /\ UNCHANGED vars

Read(h) ==
  /\ wire # NoDatagram
  /\ \E read \in LossyReads(adapters[h], TunRead(adapters[h], wire.octets)) :
       /\ adapters' = [adapters EXCEPT ![h] = read.adapter]
       /\ talkers' = IF read.message = NoMessage THEN talkers
                     ELSE [talkers EXCEPT ![h] = @ \union {wire.from}]
  /\ UNCHANGED wire

Lose == wire # NoDatagram /\ wire' = NoDatagram /\ UNCHANGED << adapters, talkers >>

FlippedOctet(octet, bit) ==
  IF (octet \div 2^bit) % 2 = 1 THEN octet - 2^bit ELSE octet + 2^bit

WrittenLength == LENGTH + HEADER_LENGTH + Len(wire.message.sender.payload)

Flip(octet, bit) ==
  /\ wire # NoDatagram /\ wire.damage = <<>> /\ octet <= WrittenLength
  /\ wire' = [wire EXCEPT !.octets[octet] = FlippedOctet(@, bit), !.damage = << octet, bit >>]
  /\ UNCHANGED << adapters, talkers >>

Pad ==
  /\ wire # NoDatagram /\ Len(wire.octets) = WrittenLength
  /\ wire' = [wire EXCEPT !.octets = @ \o Padding]
  /\ UNCHANGED << adapters, talkers >>

Next ==
  \/ \E h \in Hosts :
       (\E message \in Messages : Write(h, message)) \/ Drop(h) \/ Read(h)
  \/ \E place \in FlippedBits : Flip(place[1], place[2])
  \/ Lose
  \/ Pad

Spec == Init /\ [][Next]_vars

-----------------------------------------------------------------------------
\* The one RST flag of a segment stands for that of either half.
Meaning(message) ==
  LET reset == message.sender.RST \/ message.receiver.RST
  IN  [message EXCEPT !.sender.RST = reset, !.receiver.RST = reset]

\* The reserved bit of the fragment field is dropped before the checksum is
\* recomputed, and changes nothing.
Harmless(damage) == damage \in {<<>>, << 7, 7 >>}

\* What read() gives to a TCPPeer is what its peer wrote to it, to the last octet
\* and flag: a datagram with a damaged bit, wherever it is, and one of another
\* connection are never taken for it, and padding is not part of it.
ReadIsWritten ==
  \A h \in Hosts :
    wire # NoDatagram =>
      \A read \in {TunRead(adapters[h], wire.octets)} :
        read.message # NoMessage =>
          /\ Harmless(wire.damage)
          /\ read.message = Meaning(wire.message)
          /\ read.adapter.destination = wire.from
          /\ read.adapter.source = wire.to

\* Opening: what makes a listening adapter take the sender for its peer.
Opens(message) == message.sender.SYN /\ ~Meaning(message).sender.RST

\* No check is too strict: what the peer wrote and the network brought, padded or
\* not, is read, whatever the lengths, the carries and the flags are.
PeerIsHeard ==
  \A h \in Hosts :
    LET a == adapters[h]
    IN  /\ wire # NoDatagram /\ Harmless(wire.damage)
        /\ \/ ~a.listening /\ wire.from = a.destination /\ wire.to = a.source
           \/ a.listening /\ wire.to.port = a.source.port /\ Opens(wire.message)
        => TunRead(a, wire.octets).message = Meaning(wire.message)

\* A host talks with one peer: the one whose SYN its listening adapter took, also
\* when that SYN was dropped after the adapter took it, while others go on
\* sending to it.
OneConversation ==
  \A h \in Hosts :
    talkers[h] \subseteq (IF adapters[h].listening THEN {} ELSE {adapters[h].destination})
=============================================================================
