-------------------------- MODULE InterfaceSystem ---------------------------
(* One NetworkInterface between its owner, who sends datagrams and lets     *)
(* time pass, and an Ethernet from which any frame may come at any time:    *)
(* answers that are lost, late, repeated, contradictory or never asked for. *)
(* A datagram that is sent is its number in the order of the calls.         *)
EXTENDS NetworkInterface

CONSTANTS
  OurMac, OurIp,   \* of the interface
  Neighbours,      \* the other IP addresses
  Macs,            \* their hardware addresses
  Ticks,           \* milliseconds between two calls of tick()
  MaxDatagrams,    \* bound: datagrams sent
  MaxReceived      \* bound: datagrams received and not yet taken

ASSUME InterfaceAssumption ==
  /\ OurIp \notin Neighbours
  /\ Ticks \subseteq Nat
  /\ MaxDatagrams \in Nat
  /\ MaxReceived \in Nat

VARIABLES
  ni,            \* the NetworkInterface
  transmitted,   \* the frames of the last call
  asked,         \* history: the next hop of each datagram
  sent,          \* history: the datagrams transmitted, in order
  waited,        \* history: how long each datagram has existed, up to ARP_RETRY_MS
  quiet,         \* history: how long no address was asked for, up to ARP_RETRY_MS
  heard          \* history: who was heard of in the last ARP_TTL_MS

history == << asked, sent, waited, quiet, heard >>
vars == << ni, transmitted, history >>

Hops == Neighbours \union {OurIp}

\* Frames that may come from the Ethernet.  A frame of type "other" stands for
\* all that are of an unknown type or do not parse.
Frames ==
  [type : {"IPv4"}, dst : {OurMac, ETHERNET_BROADCAST} \union Macs, datagram : {0}]
    \union [type : {"other"}, dst : {OurMac, ETHERNET_BROADCAST}]
    \union [type : {"ARP"}, dst : {OurMac, ETHERNET_BROADCAST} \union Macs,
            opcode : {"request", "reply"}, sender_ip : Neighbours,
            sender_mac : Macs, target_ip : Hops]

IPv4Of(frames) == Selected(frames, {f \in ToSet(frames) : f.type = "IPv4"})
AskedIn(frames) ==
  {f.target_ip : f \in {frames[i] : i \in {j \in DOMAIN frames :
     frames[j].type = "ARP" /\ frames[j].opcode = "request"}}}

Capped(a, limit) == IF a <= limit THEN a ELSE limit

Transmit(frames) ==
  /\ transmitted' = frames
  /\ sent' = sent \o [i \in DOMAIN IPv4Of(frames) |-> IPv4Of(frames)[i].datagram]

Init ==
  /\ ni = NewInterface(OurMac, OurIp)
  /\ transmitted = <<>>
  /\ asked = <<>> /\ sent = <<>> /\ waited = <<>>
  /\ quiet = [ip \in Hops |-> ARP_RETRY_MS]
  /\ heard = NoEntries

\* The owner sends a datagram.
CallSend(hop) ==
  /\ Len(asked) < MaxDatagrams
  /\ LET datagram == Len(asked) + 1
         frames   == SendDatagramTransmits(ni, datagram, hop)
     IN  /\ ni' = SendDatagram(ni, datagram, hop)
         /\ Transmit(frames)
         /\ quiet' = [ip \in Hops |-> IF ip \in AskedIn(frames) THEN 0 ELSE quiet[ip]]
  /\ asked' = Append(asked, hop)
  /\ waited' = Append(waited, 0)
  /\ heard' = heard

\* A frame comes from the Ethernet.
CallRecv(frame) ==
  /\ ni' = RecvFrame(ni, frame)
  /\ Len(ni'.datagrams_in) <= MaxReceived
  /\ Transmit(RecvFrameTransmits(ni, frame))
  /\ IF frame.type = "ARP" /\ AddressedTo(ni, frame)
       THEN /\ heard' = Put(heard, frame.sender_ip, [mac |-> frame.sender_mac, age |-> 0])
            /\ quiet' = [quiet EXCEPT ![frame.sender_ip] = ARP_RETRY_MS]
       ELSE UNCHANGED << heard, quiet >>
  /\ UNCHANGED << asked, waited >>

\* The owner takes a datagram that was received.
Take ==
  /\ ni.datagrams_in # <<>>
  /\ ni' = [ni EXCEPT !.datagrams_in = Tail(@)]
  /\ Transmit(<<>>)
  /\ UNCHANGED << asked, waited, quiet, heard >>

CallTick(ms) ==
  /\ ni' = InterfaceTick(ni, ms)
  /\ \E frames \in SetToSeqs(InterfaceTickTransmits(ni, ms)) :
       /\ Transmit(frames)
       /\ quiet' = [ip \in Hops |-> IF ip \in AskedIn(frames) THEN 0
                                    ELSE Capped(quiet[ip] + ms, ARP_RETRY_MS)]
  /\ asked' = asked
  /\ waited' = [i \in DOMAIN waited |-> Capped(waited[i] + ms, ARP_RETRY_MS)]
  /\ heard' = [ip \in {i \in DOMAIN heard : heard[i].age + ms < ARP_TTL_MS} |->
                 [heard[ip] EXCEPT !.age = @ + ms]]

Next ==
  \/ \E hop \in Hops : CallSend(hop)
  \/ \E frame \in Frames : CallRecv(frame)
  \/ Take
  \/ \E ms \in Ticks : CallTick(ms)

Spec == Init /\ [][Next]_vars

-----------------------------------------------------------------------------
IsPartial(f, S, T) == DOMAIN f \subseteq S /\ \A x \in DOMAIN f : f[x] \in T

TypeOK ==
  /\ ni.hw_address = OurMac /\ ni.ip_address = OurIp
  /\ ni.datagrams_in \in Seq({0})
  /\ IsPartial(ni.arp_cache, Hops, [mac : Macs, ttl_ms : 1..ARP_TTL_MS])
  /\ IsPartial(ni.arp_timer, Hops, Nat)
  /\ IsPartial(ni.pending, Hops, Seq(1..MaxDatagrams))

\* The three maps agree: there is a queue for an address exactly while it is
\* being asked for, its timer has not run out, and a known address has
\* neither, so that no datagram is forgotten in a queue nobody flushes.
BooksAgree(n) ==
  /\ DOMAIN n.pending = DOMAIN n.arp_timer
  /\ \A ip \in DOMAIN n.arp_timer : n.arp_timer[ip] < ARP_RETRY_MS
  /\ DOMAIN n.pending \intersect DOMAIN n.arp_cache = {}

MapsAgree == BooksAgree(ni)

\* No datagram waits ARP_RETRY_MS or longer: it goes out or is dropped.
NothingWaitsLong ==
  \A ip \in DOMAIN ni.pending : \A i \in DOMAIN ni.pending[ip] :
    waited[ni.pending[ip][i]] < ARP_RETRY_MS

\* An address is never asked for twice within ARP_RETRY_MS without an answer
\* in between ("prevents spamming ARP packets", check5.md).
RequestsAreSpaced ==
  [][\A ip \in AskedIn(transmitted') :
       \E ms \in Ticks \union {0} :
         /\ quiet[ip] + ms >= ARP_RETRY_MS
         /\ ms > 0 => CallTick(ms)]_vars

\* A datagram goes to the hardware address heard last for its next hop, and
\* that less than ARP_TTL_MS ago.
AddressIsFresh ==
  [][\A i \in DOMAIN IPv4Of(transmitted') :
       LET frame == IPv4Of(transmitted')[i]
           hop   == asked'[frame.datagram]
       IN  hop \in DOMAIN heard' /\ heard'[hop].mac = frame.dst]_vars

\* Whatever frames come, the interface implements DatagramDelivery.
Delivery == INSTANCE DatagramDelivery WITH
  accepted <- Len(asked),
  waiting <- [h \in Hops |-> Waiting(ni, h)]

DeliversInOrder == Delivery!DeliverySpec
=============================================================================
