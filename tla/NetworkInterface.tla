-------------------------- MODULE NetworkInterface --------------------------
(* The interface between IP and Ethernet (src/src/network_interface.cc), as *)
(* operators on one record.  A method that transmits is two operators: its  *)
(* effect on the interface, and the frames it transmits.  A frame whose     *)
(* payload does not parse is ignored like one of an unknown type, and is    *)
(* not told from it.                                                        *)
EXTENDS Naturals, SequencesExt, Basics

CONSTANTS
  ARP_TTL_MS,          \* 30 000
  ARP_RETRY_MS,        \* 5 000
  ETHERNET_BROADCAST   \* the hardware address of everyone

ASSUME ARPAssumption ==
  /\ ARP_TTL_MS \in Nat \ {0}
  /\ ARP_RETRY_MS \in Nat \ {0}

NoEntries == [ip \in {} |-> 0]

NewInterface(hw, ip) ==
  [hw_address |-> hw, ip_address |-> ip, datagrams_in |-> <<>>,
   arp_cache |-> NoEntries, arp_timer |-> NoEntries, pending |-> NoEntries]

IPv4Frame(n, dst, datagram) ==
  [type |-> "IPv4", src |-> n.hw_address, dst |-> dst, datagram |-> datagram]

ARPRequest(n, ip) ==
  [type |-> "ARP", src |-> n.hw_address, dst |-> ETHERNET_BROADCAST,
   opcode |-> "request", sender_ip |-> n.ip_address,
   sender_mac |-> n.hw_address, target_ip |-> ip]

ARPReply(n, ip, mac) ==
  [type |-> "ARP", src |-> n.hw_address, dst |-> mac,
   opcode |-> "reply", sender_ip |-> n.ip_address,
   sender_mac |-> n.hw_address, target_ip |-> ip]

Waiting(n, ip) == IF ip \in DOMAIN n.pending THEN n.pending[ip] ELSE <<>>

-----------------------------------------------------------------------------
(* send_datagram()                                                          *)

\* Mutant of MayAsk: every datagram asks again.
MayAskAlways(n, ip) == TRUE

MayAsk(n, ip) ==
  ip \in DOMAIN n.arp_timer => n.arp_timer[ip] >= ARP_RETRY_MS

SendDatagram(n, datagram, next_hop) ==
  IF next_hop \in DOMAIN n.arp_cache
    THEN n
    ELSE [n EXCEPT
           !.pending = Put(@, next_hop, Append(Waiting(n, next_hop), datagram)),
           !.arp_timer = IF MayAsk(n, next_hop) THEN Put(@, next_hop, 0) ELSE @]

SendDatagramTransmits(n, datagram, next_hop) ==
  IF next_hop \in DOMAIN n.arp_cache
    THEN << IPv4Frame(n, n.arp_cache[next_hop].mac, datagram) >>
  ELSE IF MayAsk(n, next_hop)
    THEN << ARPRequest(n, next_hop) >>
  ELSE <<>>

-----------------------------------------------------------------------------
(* recv_frame()                                                             *)

AddressedTo(n, frame) == frame.dst \in {n.hw_address, ETHERNET_BROADCAST}

\* Mutant of Learn: what waited is sent and kept.
LearnKeepsPending(n, ip, mac) ==
  [n EXCEPT !.arp_cache = Put(@, ip, [mac |-> mac, ttl_ms |-> ARP_TTL_MS]),
            !.arp_timer = Restrict(@, DOMAIN @ \ {ip})]

\* Any ARP message, whoever it is for, teaches its sender's address, and what
\* waited for it goes out.
Learn(n, ip, mac) ==
  [n EXCEPT !.arp_cache = Put(@, ip, [mac |-> mac, ttl_ms |-> ARP_TTL_MS]),
            !.arp_timer = Restrict(@, DOMAIN @ \ {ip}),
            !.pending = Restrict(@, DOMAIN @ \ {ip})]

\* Mutants of LearnTransmits: all queues are flushed, and the last first.
LearnTransmitsAll(n, ip, mac) ==
  LET all == FlattenSeq(SetToSeq(Range(n.pending)))
  IN  [i \in DOMAIN all |-> IPv4Frame(n, mac, all[i])]
LearnTransmitsReversed(n, ip, mac) ==
  LET waiting == Reverse(Waiting(n, ip))
  IN  [i \in DOMAIN waiting |-> IPv4Frame(n, mac, waiting[i])]

LearnTransmits(n, ip, mac) ==
  [i \in DOMAIN Waiting(n, ip) |-> IPv4Frame(n, mac, Waiting(n, ip)[i])]

Replies(n, frame) ==
  frame.opcode = "request" /\ frame.target_ip = n.ip_address

RecvFrame(n, frame) ==
  IF ~AddressedTo(n, frame) THEN n
  ELSE IF frame.type = "IPv4"
    THEN [n EXCEPT !.datagrams_in = Append(@, frame.datagram)]
  ELSE IF frame.type = "ARP"
    THEN Learn(n, frame.sender_ip, frame.sender_mac)
  ELSE n

RecvFrameTransmits(n, frame) ==
  IF AddressedTo(n, frame) /\ frame.type = "ARP"
    THEN LearnTransmits(n, frame.sender_ip, frame.sender_mac)
           \o (IF Replies(n, frame)
                 THEN << ARPReply(n, frame.sender_ip, frame.sender_mac) >>
                 ELSE <<>>)
    ELSE <<>>

-----------------------------------------------------------------------------
(* tick()                                                                   *)

\* Mutants of Aged: an entry lives one millisecond longer, and for ever.
AgedLate(cache, ms) ==
  [ip \in {i \in DOMAIN cache : cache[i].ttl_ms >= ms} |->
     [cache[ip] EXCEPT !.ttl_ms = @ - ms]]

Aged(cache, ms) ==
  [ip \in {i \in DOMAIN cache : cache[i].ttl_ms > ms} |->
     [cache[ip] EXCEPT !.ttl_ms = @ - ms]]

\* The addresses that are asked for again.
Retries(n, ms) ==
  {ip \in DOMAIN n.arp_timer :
     n.arp_timer[ip] + ms >= ARP_RETRY_MS /\ ip \in DOMAIN n.pending}

\* Mutant of InterfaceTick: what waits survives the retry.
InterfaceTickKeeps(n, ms) ==
  [n EXCEPT !.arp_cache = Aged(@, ms),
            !.arp_timer = [ip \in DOMAIN @ |->
                             IF ip \in Retries(n, ms) THEN 0 ELSE @[ip] + ms]]

\* A retry drops what waited, but not the (now empty) queue: the address is
\* asked for every ARP_RETRY_MS until somebody answers.
InterfaceTick(n, ms) ==
  [n EXCEPT !.arp_cache = Aged(@, ms),
            !.arp_timer = [ip \in DOMAIN @ |->
                             IF ip \in Retries(n, ms) THEN 0 ELSE @[ip] + ms],
            !.pending = [ip \in DOMAIN @ |->
                           IF ip \in Retries(n, ms) THEN <<>> ELSE @[ip]]]

\* A set, since the order is that of an unordered_map.
InterfaceTickTransmits(n, ms) == {ARPRequest(n, ip) : ip \in Retries(n, ms)}
=============================================================================
