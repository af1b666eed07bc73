--------------------------- MODULE InternetProofs ----------------------------
(* Proofs about Internet, for any segments, interfaces, routers and routes: *)
(* whatever is lost, answered late or expires, only the addressee takes a   *)
(* datagram (I), it takes no datagram twice (II), and it takes what one     *)
(* host sent it in the order in which it was sent (III).  And about the     *)
(* routing table alone: the longest prefix wins (IV).                       *)
EXTENDS Internet, RoutingTable, BasicLemmas, SequenceTheorems, FiniteSetTheorems

-----------------------------------------------------------------------------
(* I. What may be where: a datagram that waits for a host's address, or is  *)
(* in a frame for its interface, is addressed to it, and the ARP messages   *)
(* and caches tell the truth.                                               *)

Datagrams == [id : Nat, dst : Addresses, ttl : Nat]

For(ip) == {d \in Datagrams : ip \in HostAddresses => d.dst = ip}

DatagramFrames ==
  {f \in [type : {"IPv4"}, src : Nics, dst : Nics, datagram : Datagrams] :
     f.datagram \in For(IpAddress[f.dst])}

ARPFrames ==
  {f \in [type : {"ARP"}, src : Nics, dst : Nics \union {ETHERNET_BROADCAST},
          opcode : {"request", "reply"}, sender_ip : Addresses, sender_mac : Nics,
          target_ip : Addresses] :
     f.sender_ip = IpAddress[f.sender_mac]}

Frames == DatagramFrames \union ARPFrames
Wires == Seq(Nics \X Frames)

Entries == [mac : Nics, ttl_ms : Nat]

NetworkInterfaces ==
  [hw_address : Nics, ip_address : Addresses, datagrams_in : Seq(Datagrams),
   arp_cache : Maps(Addresses, Entries), arp_timer : Maps(Addresses, Nat),
   pending : Maps(Addresses, Seq(Datagrams))]

Truthful(cache) == \A ip \in DOMAIN cache : IpAddress[cache[ip].mac] = ip

Sorted(pending) == \A ip \in DOMAIN pending : pending[ip] \in Seq(For(ip))

Sound(n, name) ==
  /\ n \in NetworkInterfaces
  /\ n.hw_address = name /\ n.ip_address = IpAddress[name]
  /\ n.datagrams_in \in Seq(For(IpAddress[name]))
  /\ Truthful(n.arp_cache)
  /\ IsFiniteSet(DOMAIN n.arp_timer)
  /\ Sorted(n.pending)

AllSound(ns) == ns \in [Nics -> NetworkInterfaces] /\ \A n \in Nics : Sound(ns[n], n)

RoutersOf(r) == [interfaces : {Interfaces[r]}, routing_table : Seq(RoutesOf(r))]

NetworkInv ==
  /\ AllSound(nics)
  /\ DOMAIN routers = Routers /\ \A r \in Routers : routers[r] \in RoutersOf(r)
  /\ wires \in [Segments -> Wires]
  /\ launched \in Seq([src : Hosts, dst : Addresses, ttl : Nat, routed : BOOLEAN])
  /\ received \in Seq([host : Hosts, datagram : Datagrams])

-----------------------------------------------------------------------------
(* Interfaces.                                                              *)

\* What waits for an address is for that address.
LEMMA Waits ==
  ASSUME NEW n, NEW name, Sound(n, name), NEW ip
  PROVE  Waiting(n, ip) \in Seq(For(ip)) /\ Waiting(n, ip) \in Seq(Datagrams)
<1>1. For(ip) \subseteq Datagrams
  BY DEF For
<1>2. Waiting(n, ip) \in Seq(For(ip))
  <2>1. CASE ip \in DOMAIN n.pending
    BY <2>1, Zenon DEF Sound, Sorted, Waiting
  <2>2. CASE ip \notin DOMAIN n.pending
    BY <2>2, EmptySeq, Zenon DEF Waiting
  <2> QED BY <2>1, <2>2
<1> QED BY <1>1, <1>2, SeqMonotonic, Zenon

\* The frame of a datagram for hop, when hop has the address mac.
LEMMA DatagramFrameOK ==
  ASSUME NEW n, NEW name \in Nics, Sound(n, name), NEW mac \in Nics,
         NEW d \in For(IpAddress[mac])
  PROVE  IPv4Frame(n, mac, d) \in Frames
<1>1. d \in Datagrams /\ n.hw_address \in Nics
  BY DEF For, Sound
<1> QED BY <1>1 DEF IPv4Frame, Frames, DatagramFrames

\* A request of a sound interface tells its true address.
LEMMA RequestOK ==
  ASSUME NEW n, NEW name \in Nics, Sound(n, name), NEW ip \in Addresses
  PROVE  ARPRequest(n, ip) \in Frames
<1>1. n.hw_address = name /\ n.ip_address = IpAddress[name] /\ IpAddress[name] \in Addresses
  BY InternetAssumption DEF Sound
<1> QED BY <1>1 DEF ARPRequest, Frames, ARPFrames

\* So does a reply.
LEMMA ReplyOK ==
  ASSUME NEW n, NEW name \in Nics, Sound(n, name), NEW ip \in Addresses, NEW mac \in Nics
  PROVE  ARPReply(n, ip, mac) \in Frames
<1>1. n.hw_address = name /\ n.ip_address = IpAddress[name] /\ IpAddress[name] \in Addresses
  BY InternetAssumption DEF Sound
<1> QED BY <1>1 DEF ARPReply, Frames, ARPFrames

\* A datagram that is sent waits for its next hop or goes there
\* (NetworkInterface::send_datagram).
LEMMA SendIsSound ==
  ASSUME NEW n, NEW name \in Nics, Sound(n, name), NEW hop \in Addresses, NEW d \in For(hop)
  PROVE  /\ Sound(SendDatagram(n, d, hop), name)
         /\ SendDatagramTransmits(n, d, hop) \in Seq(Frames)
<1> DEFINE m == SendDatagram(n, d, hop)
           frames == SendDatagramTransmits(n, d, hop)
<1>1. CASE hop \in DOMAIN n.arp_cache
  <2>1. m = n
    BY <1>1 DEF SendDatagram
  <2>2. n.arp_cache[hop].mac \in Nics /\ IpAddress[n.arp_cache[hop].mac] = hop
    <3>1. n.arp_cache \in Maps(Addresses, Entries)
      BY DEF Sound, NetworkInterfaces
    <3>2. n.arp_cache[hop] \in Entries
      BY <1>1, <3>1, MapValue
    <3> QED BY <1>1, <3>2 DEF Entries, Sound, Truthful
  <2>3. IPv4Frame(n, n.arp_cache[hop].mac, d) \in Frames
    BY <2>2, DatagramFrameOK
  <2>4. frames = << IPv4Frame(n, n.arp_cache[hop].mac, d) >>
    BY <1>1 DEF SendDatagramTransmits
  <2> HIDE DEF frames, m
  <2>5. frames \in Seq(Frames)
    BY <2>3, <2>4
  <2> QED BY <2>1, <2>5 DEF frames, m
<1>2. CASE hop \notin DOMAIN n.arp_cache
  <2> DEFINE queue == Append(Waiting(n, hop), d)
             books == Put(n.pending, hop, queue)
             timer == IF MayAsk(n, hop) THEN Put(n.arp_timer, hop, 0) ELSE n.arp_timer
  <2>1. m = [n EXCEPT !.pending = books, !.arp_timer = timer]
    BY <1>2 DEF SendDatagram
  <2>2. n \in NetworkInterfaces
    BY DEF Sound
  <2>3. queue \in Seq(For(hop)) /\ queue \in Seq(Datagrams)
    <3>1. d \in Datagrams
      BY DEF For
    <3> QED BY <3>1, Waits, AppendProperties
  <2>4. books \in Maps(Addresses, Seq(Datagrams)) /\ Sorted(books)
    <3>1. n.pending \in Maps(Addresses, Seq(Datagrams))
      BY <2>2 DEF NetworkInterfaces
    <3> HIDE DEF queue
    <3>2. books \in Maps(Addresses, Seq(Datagrams))
      BY <2>3, <3>1, PutInMap, Zenon
    <3>3. Sorted(books)
      BY <2>3 DEF Put, Sound, Sorted
    <3> QED BY <3>2, <3>3
  <2>5. timer \in Maps(Addresses, Nat) /\ IsFiniteSet(DOMAIN timer)
    <3>1. n.arp_timer \in Maps(Addresses, Nat) /\ IsFiniteSet(DOMAIN n.arp_timer) /\ 0 \in Nat
      BY <2>2 DEF NetworkInterfaces, Sound
    <3>2. Put(n.arp_timer, hop, 0) \in Maps(Addresses, Nat)
      BY <3>1, PutInMap, Zenon
    <3>3. IsFiniteSet(DOMAIN Put(n.arp_timer, hop, 0))
      <4>1. DOMAIN Put(n.arp_timer, hop, 0) = DOMAIN n.arp_timer \union {hop}
        BY DEF Put
      <4> QED BY <3>1, <4>1, FS_AddElement, Zenon
    <3> QED BY <3>1, <3>2, <3>3
  <2> HIDE DEF books, timer, queue, m
  <2>6. m \in NetworkInterfaces
    BY <2>1, <2>2, <2>4, <2>5 DEF NetworkInterfaces
  <2>7. /\ m.pending = books /\ m.arp_timer = timer /\ m.arp_cache = n.arp_cache
        /\ m.hw_address = n.hw_address /\ m.ip_address = n.ip_address
        /\ m.datagrams_in = n.datagrams_in
    BY <2>1, <2>2 DEF NetworkInterfaces
  <2>8. Sound(m, name)
    BY <2>4, <2>5, <2>6, <2>7 DEF Sound
  <2>9. frames \in Seq(Frames)
    <3>1. ARPRequest(n, hop) \in Frames
      BY RequestOK
    <3>2. frames = << ARPRequest(n, hop) >> \/ frames = <<>>
      BY <1>2 DEF SendDatagramTransmits
    <3> DEFINE request == ARPRequest(n, hop)
    <3> HIDE DEF frames, request
    <3>3. << request >> \in Seq(Frames) /\ <<>> \in Seq(Frames)
      BY <3>1 DEF request
    <3> QED BY <3>2, <3>3 DEF request
  <2> QED BY <2>8, <2>9 DEF m
<1> QED BY <1>1, <1>2

\* Learning where an address is sends what waits for it
\* (NetworkInterface::recv_frame).
LEMMA LearnIsSound ==
  ASSUME NEW n, NEW name \in Nics, Sound(n, name), NEW mac \in Nics
  PROVE  /\ Sound(Learn(n, IpAddress[mac], mac), name)
         /\ LearnTransmits(n, IpAddress[mac], mac) \in Seq(Frames)
<1> DEFINE ip    == IpAddress[mac]
           m     == Learn(n, ip, mac)
           entry == [mac |-> mac, ttl_ms |-> ARP_TTL_MS]
           cache == Put(n.arp_cache, ip, entry)
           timer == Restrict(n.arp_timer, DOMAIN n.arp_timer \ {ip})
           books == Restrict(n.pending, DOMAIN n.pending \ {ip})
           T == Seq(Datagrams)
<1>1. n \in NetworkInterfaces /\ ip \in Addresses
  BY InternetAssumption DEF Sound
<1>2. m = [n EXCEPT !.arp_cache = cache, !.arp_timer = timer, !.pending = books]
  BY DEF Learn
<1>3. /\ n.arp_cache \in Maps(Addresses, Entries)
      /\ n.arp_timer \in Maps(Addresses, Nat)
      /\ n.pending \in Maps(Addresses, T)
  BY <1>1 DEF NetworkInterfaces
<1>4. cache \in Maps(Addresses, Entries)
  <2>1. entry \in Entries
    BY ARPAssumption DEF Entries
  <2> HIDE DEF entry, ip
  <2> QED BY <1>1, <1>3, <2>1, PutInMap, Zenon
<1>5. timer \in Maps(Addresses, Nat)
  BY <1>3, DropFromMap, Zenon
<1>6. books \in Maps(Addresses, T)
  <2> HIDE DEF T
  <2> QED BY <1>3, DropFromMap, Zenon
<1>7. /\ DOMAIN timer = DOMAIN n.arp_timer \ {ip}
      /\ DOMAIN books = DOMAIN n.pending \ {ip}
      /\ \A y \in DOMAIN books : books[y] = n.pending[y]
      /\ DOMAIN cache = DOMAIN n.arp_cache \union {ip}
      /\ \A y \in DOMAIN cache : cache[y] = IF y = ip THEN entry ELSE n.arp_cache[y]
  BY DEF Put, Restrict
<1>8. entry.mac = mac
  OBVIOUS
<1> HIDE DEF m, cache, timer, books, entry
<1>9. m \in NetworkInterfaces
  BY <1>1, <1>2, <1>4, <1>5, <1>6 DEF NetworkInterfaces
<1>10. /\ m.pending = books /\ m.arp_timer = timer /\ m.arp_cache = cache
       /\ m.hw_address = n.hw_address /\ m.ip_address = n.ip_address
       /\ m.datagrams_in = n.datagrams_in
  BY <1>1, <1>2 DEF NetworkInterfaces
<1>11. Truthful(cache) /\ Sorted(books)
  BY <1>7, <1>8 DEF Truthful, Sorted, Sound
<1>12. IsFiniteSet(DOMAIN timer)
  BY <1>7, FS_Subset, Zenon DEF Sound
<1>13. Sound(m, name)
  BY <1>9, <1>10, <1>11, <1>12 DEF Sound
<1>14. LearnTransmits(n, ip, mac) \in Seq(Frames)
  <2> DEFINE waiting == Waiting(n, ip)
             frames  == [i \in DOMAIN waiting |-> IPv4Frame(n, mac, waiting[i])]
  <2>1. waiting \in Seq(For(ip))
    BY Waits
  <2>2. \A i \in 1..Len(waiting) : IPv4Frame(n, mac, waiting[i]) \in Frames
    <3> SUFFICES ASSUME NEW i \in 1..Len(waiting)
                 PROVE  IPv4Frame(n, mac, waiting[i]) \in Frames
      OBVIOUS
    <3> HIDE DEF waiting
    <3>1. waiting[i] \in For(ip)
      BY <2>1
    <3> QED BY <3>1, DatagramFrameOK DEF ip
  <2>3. frames \in Seq(Frames)
    <3>1. DOMAIN waiting = 1..Len(waiting) /\ Len(waiting) \in Nat
      <4> HIDE DEF waiting
      <4> QED BY <2>1
    <3> HIDE DEF waiting
    <3> QED BY <2>2, <3>1, IsASeq
  <2> QED BY <2>3 DEF LearnTransmits
<1> QED BY <1>13, <1>14 DEF m, ip

\* A datagram in a frame that an interface accepts is for its address
\* (NetworkInterface::recv_frame).
LEMMA RecvIsSound ==
  ASSUME NEW n, NEW name \in Nics, Sound(n, name), NEW frame \in Frames
  PROVE  /\ Sound(RecvFrame(n, frame), name)
         /\ RecvFrameTransmits(n, frame) \in Seq(Frames)
<1> DEFINE m == RecvFrame(n, frame)
           frames == RecvFrameTransmits(n, frame)
<1>1. CASE ~AddressedTo(n, frame)
  <2>1. m = n /\ frames = <<>>
    BY <1>1 DEF RecvFrame, RecvFrameTransmits
  <2>2. <<>> \in Seq(Frames)
    OBVIOUS
  <2> QED BY <2>1, <2>2
<1>2. CASE AddressedTo(n, frame) /\ frame \in DatagramFrames
  <2>1. frame.type = "IPv4" /\ frame.dst = name /\ frame.datagram \in For(IpAddress[name])
    BY <1>2, InternetAssumption DEF AddressedTo, DatagramFrames, Sound
  <2>2. frame.datagram \in Datagrams
    BY <2>1 DEF For
  <2>3. m = [n EXCEPT !.datagrams_in = Append(@, frame.datagram)] /\ frames = <<>>
    BY <1>2, <2>1 DEF RecvFrame, RecvFrameTransmits
  <2>4. n \in NetworkInterfaces
    BY DEF Sound
  <2> DEFINE queue == Append(n.datagrams_in, frame.datagram)
  <2>5. queue \in Seq(Datagrams) /\ queue \in Seq(For(IpAddress[name]))
    <3>1. n.datagrams_in \in Seq(Datagrams) /\ n.datagrams_in \in Seq(For(IpAddress[name]))
      BY <2>4 DEF NetworkInterfaces, Sound
    <3> QED BY <2>1, <2>2, <3>1, AppendProperties
  <2>6. m = [n EXCEPT !.datagrams_in = queue]
    BY <2>3
  <2> HIDE DEF queue, m
  <2>7. m \in NetworkInterfaces
    BY <2>4, <2>5, <2>6 DEF NetworkInterfaces
  <2>8. /\ m.datagrams_in = queue /\ m.pending = n.pending /\ m.arp_timer = n.arp_timer
        /\ m.arp_cache = n.arp_cache /\ m.hw_address = n.hw_address
        /\ m.ip_address = n.ip_address
    BY <2>4, <2>6 DEF NetworkInterfaces
  <2>9. Sound(m, name)
    BY <2>5, <2>7, <2>8 DEF Sound
  <2>10. <<>> \in Seq(Frames)
    OBVIOUS
  <2> QED BY <2>3, <2>9, <2>10 DEF m
<1>3. CASE AddressedTo(n, frame) /\ frame \in ARPFrames
  <2> DEFINE ip    == frame.sender_ip
             mac   == frame.sender_mac
             sent  == LearnTransmits(n, ip, mac)
             reply == IF Replies(n, frame) THEN << ARPReply(n, ip, mac) >> ELSE <<>>
  <2>1. frame.type = "ARP" /\ mac \in Nics /\ ip = IpAddress[mac] /\ ip \in Addresses
    BY <1>3 DEF ARPFrames
  <2>2. m = Learn(n, ip, mac) /\ frames = sent \o reply
    BY <1>3, <2>1 DEF RecvFrame, RecvFrameTransmits
  <2>3. Sound(Learn(n, ip, mac), name) /\ sent \in Seq(Frames)
    <3> HIDE DEF ip, mac
    <3> QED BY <2>1, LearnIsSound
  <2>4. reply \in Seq(Frames)
    <3> DEFINE answer == ARPReply(n, ip, mac)
    <3>1. answer \in Frames
      BY <2>1, ReplyOK
    <3> HIDE DEF answer
    <3>2. << answer >> \in Seq(Frames) /\ <<>> \in Seq(Frames)
      BY <3>1
    <3> QED BY <3>2 DEF answer
  <2> HIDE DEF m, frames, sent, reply
  <2>5. frames \in Seq(Frames)
    BY <2>2, <2>3, <2>4
  <2> QED BY <2>2, <2>3, <2>5 DEF m, frames
<1> QED BY <1>1, <1>2, <1>3 DEF Frames

\* A tick drops and asks again (NetworkInterface::tick).
LEMMA TickIsSound ==
  ASSUME NEW n, NEW name \in Nics, Sound(n, name), NEW ms \in Nat
  PROVE  /\ Sound(InterfaceTick(n, ms), name)
         /\ InterfaceTickTransmits(n, ms) \subseteq ARPFrames
         /\ IsFiniteSet(InterfaceTickTransmits(n, ms))
<1> DEFINE m     == InterfaceTick(n, ms)
           again == Retries(n, ms)
           cache == Aged(n.arp_cache, ms)
           timer == [ip \in DOMAIN n.arp_timer |->
                       IF ip \in again THEN 0 ELSE n.arp_timer[ip] + ms]
           books == [ip \in DOMAIN n.pending |->
                       IF ip \in again THEN <<>> ELSE n.pending[ip]]
           T == Seq(Datagrams)
<1>1. n \in NetworkInterfaces
  BY DEF Sound
<1>2. m = [n EXCEPT !.arp_cache = cache, !.arp_timer = timer, !.pending = books]
  BY DEF InterfaceTick
<1>3. cache \in Maps(Addresses, Entries) /\ Truthful(cache)
  <2>1. n.arp_cache \in Maps(Addresses, Entries) /\ Truthful(n.arp_cache)
    BY <1>1 DEF NetworkInterfaces, Sound
  <2> DEFINE D == {ip \in DOMAIN n.arp_cache : n.arp_cache[ip].ttl_ms > ms}
             E == Entries
  <2>2. cache = [ip \in D |-> [n.arp_cache[ip] EXCEPT !.ttl_ms = @ - ms]]
    BY DEF Aged
  <2>3. D \in SUBSET Addresses
    BY <2>1, MapValue
  <2>4. \A ip \in D : /\ [n.arp_cache[ip] EXCEPT !.ttl_ms = @ - ms] \in Entries
                      /\ [n.arp_cache[ip] EXCEPT !.ttl_ms = @ - ms].mac = n.arp_cache[ip].mac
                      /\ IpAddress[n.arp_cache[ip].mac] = ip
    <3> SUFFICES ASSUME NEW ip \in D
                 PROVE  /\ [n.arp_cache[ip] EXCEPT !.ttl_ms = @ - ms] \in Entries
                        /\ [n.arp_cache[ip] EXCEPT !.ttl_ms = @ - ms].mac = n.arp_cache[ip].mac
                        /\ IpAddress[n.arp_cache[ip].mac] = ip
      OBVIOUS
    <3>1. n.arp_cache[ip] \in Entries /\ n.arp_cache[ip].ttl_ms > ms
      BY <2>1, MapValue
    <3>2. IpAddress[n.arp_cache[ip].mac] = ip
      BY <2>1 DEF Truthful
    <3> QED BY <3>1, <3>2 DEF Entries
  <2> HIDE DEF D, cache
  <2>5. cache \in [D -> Entries]
    BY <2>2, <2>4
  <2>6. Truthful(cache)
    BY <2>2, <2>4 DEF Truthful
  <2> QED BY <2>3, <2>5, <2>6, Zenon DEF Maps
<1>4. timer \in Maps(Addresses, Nat)
  <2>1. n.arp_timer \in Maps(Addresses, Nat)
    BY <1>1 DEF NetworkInterfaces
  <2>2. DOMAIN n.arp_timer \in SUBSET Addresses /\ \A ip \in DOMAIN n.arp_timer : n.arp_timer[ip] \in Nat
    BY <2>1, MapValue
  <2> HIDE DEF again
  <2>3. timer \in [DOMAIN n.arp_timer -> Nat]
    BY <2>2
  <2> HIDE DEF timer
  <2> QED BY <2>2, <2>3, Zenon DEF Maps
<1>5. books \in Maps(Addresses, T) /\ Sorted(books)
  <2>1. n.pending \in Maps(Addresses, T)
    BY <1>1 DEF NetworkInterfaces
  <2>2. DOMAIN n.pending \in SUBSET Addresses /\ \A ip \in DOMAIN n.pending : n.pending[ip] \in T
    <3> HIDE DEF T
    <3> QED BY <2>1, MapValue
  <2> HIDE DEF again
  <2>3. <<>> \in T /\ \A ip : <<>> \in Seq(For(ip))
    OBVIOUS
  <2>4. Sorted(books)
    BY <2>3 DEF Sorted, Sound
  <2> HIDE DEF T
  <2>5. books \in [DOMAIN n.pending -> T]
    BY <2>2, <2>3
  <2> HIDE DEF books
  <2> QED BY <2>2, <2>4, <2>5, Zenon DEF Maps
<1>6. IsFiniteSet(DOMAIN n.arp_timer) /\ DOMAIN timer = DOMAIN n.arp_timer
  BY DEF Sound
<1> HIDE DEF m, cache, timer, books
<1>7. m \in NetworkInterfaces
  BY <1>1, <1>2, <1>3, <1>4, <1>5 DEF NetworkInterfaces
<1>8. /\ m.pending = books /\ m.arp_timer = timer /\ m.arp_cache = cache
      /\ m.hw_address = n.hw_address /\ m.ip_address = n.ip_address
      /\ m.datagrams_in = n.datagrams_in
  BY <1>1, <1>2 DEF NetworkInterfaces
<1>9. Sound(m, name)
  BY <1>3, <1>5, <1>6, <1>7, <1>8 DEF Sound
<1>10. again \subseteq DOMAIN n.arp_timer /\ again \subseteq Addresses
  <2>1. again \subseteq DOMAIN n.arp_timer
    BY DEF Retries
  <2>2. DOMAIN n.arp_timer \in SUBSET Addresses
    BY <1>1, MapValue DEF NetworkInterfaces
  <2> QED BY <2>1, <2>2
<1>11. InterfaceTickTransmits(n, ms) = {ARPRequest(n, ip) : ip \in again}
  BY DEF InterfaceTickTransmits
<1> HIDE DEF again
<1>12. \A ip \in again : ARPRequest(n, ip) \in ARPFrames
  <2> SUFFICES ASSUME NEW ip \in again PROVE ARPRequest(n, ip) \in ARPFrames
    OBVIOUS
  <2>1. ARPRequest(n, ip) \in Frames
    BY <1>10, RequestOK
  <2> QED BY <2>1 DEF Frames, DatagramFrames, ARPRequest
<1>13. IsFiniteSet({ARPRequest(n, ip) : ip \in again})
  <2> DEFINE f == [ip \in again |-> ARPRequest(n, ip)]
             I == {ARPRequest(n, ip) : ip \in again}
  <2>1. IsFiniteSet(again)
    BY <1>6, <1>10, FS_Subset, Zenon
  <2>2. f \in Surjection(again, I)
    BY DEF Surjection
  <2> HIDE DEF f, I
  <2>3. IsFiniteSet(I)
    BY <2>1, <2>2, FS_Surjection
  <2> QED BY <2>3 DEF I
<1> QED BY <1>9, <1>11, <1>12, <1>13 DEF m

-----------------------------------------------------------------------------
(* Segments.                                                                *)

\* Frames that an interface transmits, with the interface they come from.
LEMMA SentByIsWire ==
  ASSUME NEW n \in Nics, NEW frames \in Seq(Frames)
  PROVE  /\ SentBy(n, frames) \in Wires
         /\ Len(SentBy(n, frames)) = Len(frames)
         /\ \A k \in 1..Len(frames) : SentBy(n, frames)[k] = << n, frames[k] >>
<1>1. DOMAIN frames = 1..Len(frames) /\ Len(frames) \in Nat
  OBVIOUS
<1>2. \A k \in 1..Len(frames) : << n, frames[k] >> \in Nics \X Frames
  OBVIOUS
<1>3. SentBy(n, frames) = [k \in 1..Len(frames) |-> << n, frames[k] >>]
  BY <1>1 DEF SentBy
<1>4. SentBy(n, frames) \in Seq(Nics \X Frames)
  BY <1>1, <1>2, <1>3, IsASeq
<1> QED BY <1>1, <1>3, <1>4 DEF Wires

\* A segment drops what it has no room for.
LEMMA ClippedIsPrefix ==
  ASSUME NEW T, NEW q \in Seq(T)
  PROVE  /\ Clipped(q) \in Seq(T)
         /\ Len(Clipped(q)) <= Len(q)
         /\ \A k \in 1..Len(Clipped(q)) : Clipped(q)[k] = q[k]
<1>1. WireCapacity \in Nat
  BY InternetAssumption
<1>2. CASE Len(q) <= WireCapacity
  BY <1>2 DEF Clipped
<1>3. CASE ~(Len(q) <= WireCapacity)
  <2>1. Clipped(q) = SubSeq(q, 1, WireCapacity) /\ WireCapacity <= Len(q)
    BY <1>1, <1>3 DEF Clipped
  <2> QED BY <1>1, <2>1
<1> QED BY <1>2, <1>3

\* The frames that go to segment s.
Onto(s, frames) == Selected(frames, {f \in ToSet(frames) : SegmentOf(f[1]) = s})

\* Carrying frames onto the segments leaves segments of frames.
LEMMA CarryIsWires ==
  ASSUME NEW ws \in [Segments -> Wires], NEW frames \in Wires
  PROVE  /\ Carry(ws, frames) \in [Segments -> Wires]
         /\ \A s \in Segments : Carry(ws, frames)[s] = Clipped(ws[s] \o Onto(s, frames))
<1>1. ASSUME NEW s \in Segments
      PROVE  Clipped(ws[s] \o Onto(s, frames)) \in Wires
  <2>1. frames \in Seq(Nics \X Frames) /\ ws[s] \in Seq(Nics \X Frames)
    BY DEF Wires
  <2>2. Onto(s, frames) \in Seq(Nics \X Frames)
    <3> DEFINE S == {f \in ToSet(frames) : SegmentOf(f[1]) = s}
               T == Nics \X Frames
    <3>1. frames \in Seq(T)
      BY <2>1
    <3> HIDE DEF S, T
    <3>2. Selected(frames, S) \in Seq(T)
      BY <3>1, SelectedEmbeds
    <3> QED BY <3>2 DEF S, T, Onto
  <2> DEFINE all == ws[s] \o Onto(s, frames)
             T   == Nics \X Frames
  <2>3. all \in Seq(T)
    BY <2>1, <2>2, ConcatProperties
  <2> HIDE DEF all, T
  <2>4. Clipped(all) \in Seq(T)
    BY <2>3, ClippedIsPrefix
  <2> QED BY <2>4 DEF all, T, Wires
<1>2. Carry(ws, frames) = [s \in Segments |-> Clipped(ws[s] \o Onto(s, frames))]
  BY DEF Carry, Onto
<1> QED BY <1>1, <1>2

\* f joins sequences, one after another.
Joins(f, qs) == f[0] = <<>> /\ \A i \in 1..Len(qs) : f[i] = f[i - 1] \o qs[i]

\* The recursive function that joins sequences exists.
LEMMA FlattenJoins ==
  ASSUME NEW T, NEW qs \in Seq(Seq(T))
  PROVE  \E f \in [0..Len(qs) -> Seq(T)] : Joins(f, qs) /\ FlattenSeq(qs) = f[Len(qs)]
<1> DEFINE n    == Len(qs)
           V    == Seq(T)
           P    == (1..n) \X V
           step == [x \in P |-> x[2] \o qs[x[1]]]
           g    == CHOOSE g : g = [i \in 1..Len(qs) |->
                      IF i = 1 THEN qs[i] ELSE g[i - 1] \o qs[i]]
<1>1. n \in Nat /\ <<>> \in V
  OBVIOUS
<1>2. ASSUME NEW i \in 1..n, NEW v \in V
      PROVE  step[<<i, v>>] = v \o qs[i] /\ step[<<i, v>>] \in V
  <2>1. <<i, v>> \in P /\ <<i, v>>[1] = i /\ <<i, v>>[2] = v
    OBVIOUS
  <2>2. step[<<i, v>>] = v \o qs[i]
    BY <2>1
  <2>3. qs[i] \in Seq(T)
    OBVIOUS
  <2>4. v \o qs[i] \in V
    BY <2>3
  <2> QED BY <2>2, <2>4
<1>3. PICK f \in [0..n -> V] : Iterates(f, n, <<>>, step)
  <2>1. Closed(n, V, step)
    <3> HIDE DEF n, V, step
    <3> QED BY <1>2, Zenon DEF Closed
  <2> HIDE DEF n, V, P, step
  <2> QED BY <1>1, <2>1, Recursion, Zenon
<1>4. Joins(f, qs)
  <2>1. ASSUME NEW i \in 1..n
        PROVE  f[i] = f[i - 1] \o qs[i]
    <3>1. i - 1 \in 0..n
      OBVIOUS
    <3>2. f[i - 1] \in V
      BY <3>1
    <3> HIDE DEF step, V
    <3> QED BY <1>2, <1>3, <3>2 DEF Iterates
  <2> QED BY <1>3, <2>1 DEF Joins, Iterates
<1>5. CASE n = 0
  <2>1. FlattenSeq(qs) = qs /\ qs = <<>>
    BY <1>5 DEF FlattenSeq
  <2> QED BY <1>4, <1>5, <2>1 DEF Joins
<1>6. CASE n # 0
  <2> DEFINE h == [i \in 1..Len(qs) |-> f[i]]
  <2>1. h = [i \in 1..Len(qs) |-> IF i = 1 THEN qs[i] ELSE h[i - 1] \o qs[i]]
    <3>1. \A i \in 1..Len(qs) : f[i] = IF i = 1 THEN qs[i] ELSE h[i - 1] \o qs[i]
      <4> SUFFICES ASSUME NEW i \in 1..Len(qs)
                   PROVE  f[i] = IF i = 1 THEN qs[i] ELSE h[i - 1] \o qs[i]
        OBVIOUS
      <4>1. f[i] = f[i - 1] \o qs[i]
        BY <1>4 DEF Joins
      <4>2. CASE i = 1
        <5>1. f[0] = <<>> /\ qs[1] \in Seq(T)
          BY <1>4, <4>2 DEF Joins
        <5>2. <<>> \o qs[1] = qs[1] /\ i - 1 = 0
          BY <4>2, <5>1, ConcatEmptySeq
        <5> QED BY <4>1, <4>2, <5>1, <5>2, Zenon
      <4>3. CASE i # 1
        <5>1. i - 1 \in 1..Len(qs)
          BY <4>3
        <5>2. h[i - 1] = f[i - 1]
          BY <5>1
        <5> QED BY <4>1, <4>3, <5>2
      <4> QED BY <4>2, <4>3
    <3> HIDE <1>3, <1>4
    <3> QED BY <3>1
  <2>2. g = [i \in 1..Len(qs) |-> IF i = 1 THEN qs[i] ELSE g[i - 1] \o qs[i]]
    <3> HIDE DEF h
    <3> QED BY <2>1, Zenon
  <2>3. FlattenSeq(qs) = g[Len(qs)]
    BY <1>6, Zenon DEF FlattenSeq
  <2> HIDE DEF g
  <2> DEFINE Same == {i \in 0..n : i # 0 => g[i] = f[i]}
  <2>4. 0 \in Same
    BY <1>1
  <2>5. ASSUME NEW i \in 1..n, i - 1 \in Same
        PROVE  i \in Same
    <3>1. f[i] = f[i - 1] \o qs[i]
      BY <1>4 DEF Joins
    <3>2. g[i] = IF i = 1 THEN qs[i] ELSE g[i - 1] \o qs[i]
      BY <2>2
    <3>3. CASE i = 1
      <4>1. f[0] = <<>> /\ qs[1] \in Seq(T)
        BY <1>4, <3>3 DEF Joins
      <4>2. <<>> \o qs[1] = qs[1] /\ i - 1 = 0
        BY <3>3, <4>1, ConcatEmptySeq
      <4>3. g[i] = f[i]
        BY <3>1, <3>2, <3>3, <4>1, <4>2, Zenon
      <4> QED BY <4>3
    <3>4. CASE i # 1
      <4>1. i - 1 # 0 /\ i - 1 \in 0..n
        BY <3>4
      <4>2. g[i - 1] = f[i - 1]
        BY <2>5, <4>1
      <4>3. g[i] = f[i]
        BY <3>1, <3>2, <3>4, <4>2, Zenon
      <4> QED BY <4>3
    <3> QED BY <3>3, <3>4
  <2>6. \A i \in 0..n : i \in Same
    <3> HIDE DEF Same, n
    <3> QED BY <1>1, <2>4, <2>5, InductionUpTo
  <2>7. n \in 0..n
    BY <1>1
  <2>8. g[n] = f[n]
    BY <1>6, <2>6, <2>7
  <2> QED BY <1>4, <2>3, <2>8
<1> QED BY <1>5, <1>6

-----------------------------------------------------------------------------
(* Routers.                                                                 *)

\* The best route is one of the table, or none.
LEMMA MatchInTable ==
  ASSUME NEW T, NEW tbl \in Seq(T), NEW dst
  PROVE  BestMatch(tbl, dst) \in 0..Len(tbl)
<1> DEFINE n    == Len(tbl)
           V    == 0..n
           P    == (1..n) \X V
           step == [x \in P |-> IF Covers(tbl[x[1]], dst) /\ IsBetter(tbl, x[1], x[2])
                                THEN x[1] ELSE x[2]]
           g    == CHOOSE g : g = [i \in 0..Len(tbl) |->
                      IF i = 0 THEN 0
                      ELSE IF Covers(tbl[i], dst) /\ IsBetter(tbl, i, g[i - 1]) THEN i
                      ELSE g[i - 1]]
<1>1. n \in Nat /\ 0 \in V /\ n \in 0..n /\ \A i \in 1..n : i \in V /\ i \in 0..n /\ i # 0
  OBVIOUS
<1>2. ASSUME NEW i \in 1..n, NEW v \in V
      PROVE  /\ step[<<i, v>>] = IF Covers(tbl[i], dst) /\ IsBetter(tbl, i, v) THEN i ELSE v
             /\ step[<<i, v>>] \in V
  <2>1. <<i, v>> \in P /\ <<i, v>>[1] = i /\ <<i, v>>[2] = v /\ i \in V
    OBVIOUS
  <2>2. step[<<i, v>>] = IF Covers(tbl[i], dst) /\ IsBetter(tbl, i, v) THEN i ELSE v
    BY <2>1
  <2> HIDE DEF step, V
  <2> QED BY <2>1, <2>2
<1>3. PICK f \in [0..n -> V] : Iterates(f, n, 0, step)
  <2>1. Closed(n, V, step)
    <3> HIDE DEF n, V, step
    <3> QED BY <1>2, Zenon DEF Closed
  <2> HIDE DEF n, V, P, step
  <2> QED BY <1>1, <2>1, Recursion, Zenon
<1>4. \A i \in 0..n :
        f[i] = IF i = 0 THEN 0
               ELSE IF Covers(tbl[i], dst) /\ IsBetter(tbl, i, f[i - 1]) THEN i
               ELSE f[i - 1]
  <2> SUFFICES ASSUME NEW i \in 0..n
               PROVE  f[i] = IF i = 0 THEN 0
                             ELSE IF Covers(tbl[i], dst) /\ IsBetter(tbl, i, f[i - 1]) THEN i
                             ELSE f[i - 1]
    OBVIOUS
  <2>1. CASE i = 0
    BY <1>3, <2>1, Zenon DEF Iterates
  <2>2. CASE i # 0
    <3>1. i \in 1..n /\ i - 1 \in 0..n
      BY <2>2
    <3>2. f[i - 1] \in V
      BY <3>1
    <3> HIDE DEF step, V
    <3>3. f[i] = step[<<i, f[i - 1]>>]
      BY <1>3, <3>1 DEF Iterates
    <3> HIDE DEF n
    <3>4. f[i] = IF Covers(tbl[i], dst) /\ IsBetter(tbl, i, f[i - 1]) THEN i ELSE f[i - 1]
      BY <1>2, <3>1, <3>2, <3>3, Zenon
    <3> QED BY <2>2, <3>4, Zenon
  <2> QED BY <2>1, <2>2
<1>5. g = [i \in 0..Len(tbl) |->
             IF i = 0 THEN 0
             ELSE IF Covers(tbl[i], dst) /\ IsBetter(tbl, i, g[i - 1]) THEN i
             ELSE g[i - 1]]
  <2>1. f = [i \in 0..Len(tbl) |->
               IF i = 0 THEN 0
               ELSE IF Covers(tbl[i], dst) /\ IsBetter(tbl, i, f[i - 1]) THEN i
               ELSE f[i - 1]]
    <3> HIDE DEF V
    <3> QED BY <1>4
  <2> QED BY <2>1, Zenon
<1>6. BestMatch(tbl, dst) = g[n]
  BY Zenon DEF BestMatch
<1> DEFINE Good == {i \in 0..n : g[i] \in V}
<1> HIDE DEF g
<1>7. 0 \in Good /\ \A i \in 1..n : i - 1 \in Good => i \in Good
  <2>1. g[0] = 0
    BY <1>1, <1>5
  <2>2. ASSUME NEW i \in 1..n, i - 1 \in Good
        PROVE  i \in Good
    <3>1. g[i] = i \/ g[i] = g[i - 1]
      BY <1>1, <1>5
    <3> HIDE DEF V
    <3> QED BY <1>1, <2>2, <3>1
  <2> QED BY <1>1, <2>1, <2>2
<1>8. \A i \in 0..n : i \in Good
  <2> HIDE DEF Good, n
  <2> QED BY <1>1, <1>7, InductionUpTo
<1> QED BY <1>1, <1>6, <1>8

\* f routes what has arrived, one datagram after another.
Forwards(f, rt, ns) ==
  /\ f[0] = Emptied(rt, ns)
  /\ \A i \in 1..Len(Arrived(rt, ns)) : f[i] = Forward(rt, f[i - 1], Arrived(rt, ns)[i])

\* The loops of Router::route stay among the results that each turn keeps.
LEMMA RouteForwards ==
  ASSUME NEW rt, NEW ns, NEW D, Arrived(rt, ns) \in Seq(D),
         NEW V, Emptied(rt, ns) \in V, \A v \in V : \A d \in D : Forward(rt, v, d) \in V
  PROVE  \E f \in [0..Len(Arrived(rt, ns)) -> V] :
           Forwards(f, rt, ns) /\ Route(rt, ns) = f[Len(Arrived(rt, ns))]
<1> DEFINE q    == Arrived(rt, ns)
           n    == Len(q)
           base == Emptied(rt, ns)
           P    == (1..n) \X V
           step == [x \in P |-> Forward(rt, x[2], q[x[1]])]
           g    == CHOOSE g : g = [k \in 0..Len(q) |->
                      IF k = 0 THEN base ELSE Forward(rt, g[k - 1], q[k])]
<1>1. n \in Nat /\ base \in V /\ n \in 0..n /\ \A i \in 1..n : q[i] \in D /\ i \in 0..n /\ i # 0
  OBVIOUS
<1>2. ASSUME NEW i \in 1..n, NEW v \in V
      PROVE  step[<<i, v>>] = Forward(rt, v, q[i]) /\ step[<<i, v>>] \in V
  <2>1. <<i, v>> \in P /\ <<i, v>>[1] = i /\ <<i, v>>[2] = v /\ q[i] \in D
    BY <1>1
  <2> HIDE DEF P, q
  <2>2. step[<<i, v>>] = Forward(rt, v, q[i])
    BY <2>1
  <2> HIDE DEF step
  <2> QED BY <2>1, <2>2
<1>3. PICK f \in [0..n -> V] : Iterates(f, n, base, step)
  <2>1. Closed(n, V, step)
    <3> HIDE DEF n, step
    <3> QED BY <1>2, Zenon DEF Closed
  <2> HIDE DEF n, P, step, base
  <2> QED BY <1>1, <2>1, Recursion, Zenon
<1> HIDE DEF base, q
<1>4. \A k \in 0..n : f[k] = IF k = 0 THEN base ELSE Forward(rt, f[k - 1], q[k])
  <2> SUFFICES ASSUME NEW k \in 0..n
               PROVE  f[k] = IF k = 0 THEN base ELSE Forward(rt, f[k - 1], q[k])
    OBVIOUS
  <2>1. CASE k = 0
    BY <1>3, <2>1, Zenon DEF Iterates
  <2>2. CASE k # 0
    <3>1. k \in 1..n /\ k - 1 \in 0..n
      BY <1>1, <2>2
    <3>2. f[k - 1] \in V
      BY <3>1
    <3> HIDE DEF step, n
    <3>3. f[k] = step[<<k, f[k - 1]>>]
      BY <1>3, <3>1 DEF Iterates
    <3>4. f[k] = Forward(rt, f[k - 1], q[k])
      BY <1>2, <3>1, <3>2, <3>3, Zenon
    <3> QED BY <2>2, <3>4, Zenon
  <2> QED BY <2>1, <2>2
<1>5. g = [k \in 0..Len(q) |-> IF k = 0 THEN base ELSE Forward(rt, g[k - 1], q[k])]
  <2>1. f = [k \in 0..Len(q) |-> IF k = 0 THEN base ELSE Forward(rt, f[k - 1], q[k])]
    BY <1>4
  <2> QED BY <2>1, Zenon
<1>6. Route(rt, ns) = g[n]
  BY Zenon DEF Route, q, base
<1> HIDE DEF g
<1>7. g[0] = base /\ \A i \in 1..n : g[i] = Forward(rt, g[i - 1], q[i])
  <2>1. \A k \in 0..n : g[k] = IF k = 0 THEN base ELSE Forward(rt, g[k - 1], q[k])
    BY <1>5
  <2>2. 0 \in 0..n
    BY <1>1
  <2> HIDE DEF n
  <2> QED BY <1>1, <2>1, <2>2, Zenon
<1> DEFINE Good == {i \in 0..n : g[i] \in V}
<1>8. 0 \in Good
  BY <1>1, <1>7
<1>9. ASSUME NEW i \in 1..n, i - 1 \in Good
      PROVE  i \in Good
  <2> HIDE DEF n
  <2>1. q[i] \in D /\ i \in 0..n /\ g[i] = Forward(rt, g[i - 1], q[i])
    BY <1>1, <1>7, Zenon
  <2>2. g[i - 1] \in V
    BY <1>9
  <2>3. Forward(rt, g[i - 1], q[i]) \in V
    BY <2>1, <2>2, Zenon
  <2> QED BY <2>1, <2>3
<1>10. \A i \in 0..n : g[i] \in V
  <2>1. \A i \in 0..n : i \in Good
    <3> HIDE DEF Good, n
    <3> QED BY <1>1, <1>8, <1>9, InductionUpTo
  <2> QED BY <2>1
<1>11. g \in [0..n -> V]
  <2>1. g = [i \in 0..n |-> g[i]]
    BY <1>5
  <2> HIDE DEF n
  <2> QED BY <1>10, <2>1
<1>12. Forwards(g, rt, ns)
  BY <1>7 DEF Forwards, q, base
<1> QED BY <1>6, <1>11, <1>12 DEF q

\* A router passes a datagram on, one hop older, or drops it.
Sends(i, hop, result, d) ==
  [nics   |-> [result.nics EXCEPT ![i] = SendDatagram(@, d, hop)],
   frames |-> result.frames \o SentBy(i, SendDatagramTransmits(result.nics[i], d, hop))]

\* The best route for datagram d is by interface i to hop.
BestHop(rt, d, i, hop) ==
  LET best  == BestMatch(rt.routing_table, d.dst)
      route == rt.routing_table[best]
  IN  /\ best # 0
      /\ i = rt.interfaces[route.interface_num + 1]
      /\ hop = NextHop(route, d)

\* To forward a datagram is to drop it or to send it, older, by one interface.
LEMMA ForwardSends ==
  ASSUME NEW r \in Routers, NEW rt \in RoutersOf(r), NEW v, NEW d \in Datagrams
  PROVE  \/ Forward(rt, v, d) = v
         \/ \E i \in Nics, hop \in Addresses :
              /\ Older(d) \in For(hop) /\ Older(d).id = d.id
              /\ Survives(d) /\ BestHop(rt, d, i, hop)
              /\ Forward(rt, v, d) = Sends(i, hop, v, Older(d))
<1> DEFINE best  == BestMatch(rt.routing_table, d.dst)
           route == rt.routing_table[best]
           i     == rt.interfaces[route.interface_num + 1]
           hop   == NextHop(route, d)
           out   == SendDatagramTransmits(v.nics[i], Older(d), hop)
<1>1. CASE ~Survives(d) \/ best = 0
  BY <1>1, Zenon DEF Forward
<1>2. CASE Survives(d) /\ best # 0
  <2>1. rt.routing_table \in Seq(RoutesOf(r)) /\ rt.interfaces = Interfaces[r]
    BY DEF RoutersOf
  <2>2. best \in 1..Len(rt.routing_table)
    <3>1. best \in 0..Len(rt.routing_table)
      BY <2>1, MatchInTable
    <3> HIDE DEF best
    <3> QED BY <1>2, <2>1, <3>1
  <2>3. route \in RoutesOf(r)
    <3> HIDE DEF best
    <3> QED BY <2>1, <2>2, ElementOfSeq
  <2>4. i \in Nics
    <3>1. Interfaces[r] \in Seq(Nics \ Hosts)
      BY InternetAssumption
    <3>2. route.interface_num + 1 \in 1..Len(Interfaces[r])
      <4>1. Len(Interfaces[r]) \in Nat
        BY <3>1
      <4> HIDE DEF route
      <4> QED BY <2>3, <4>1 DEF RoutesOf
    <3> HIDE DEF route
    <3>3. Interfaces[r][route.interface_num + 1] \in Nics \ Hosts
      BY <3>1, <3>2, ElementOfSeq
    <3> QED BY <2>1, <3>3
  <2>5. /\ Older(d) = [d EXCEPT !.ttl = @ - 1]
        /\ d.ttl - 1 \in Nat
    BY <1>2 DEF Older, Survives, Datagrams
  <2>6. Older(d) \in Datagrams /\ Older(d).id = d.id /\ Older(d).dst = d.dst
    BY <2>5 DEF Datagrams
  <2>7. hop \in Addresses /\ Older(d) \in For(hop)
    <3> HIDE DEF route
    <3>1. CASE route.next_hop = Direct
      <4>1. hop = d.dst /\ d.dst \in Addresses
        BY <3>1 DEF NextHop, Datagrams
      <4> QED BY <2>6, <4>1 DEF For
    <3>2. CASE route.next_hop # Direct
      <4>1. hop = route.next_hop /\ hop \in Addresses /\ hop \notin HostAddresses
        BY <2>3, <3>2 DEF NextHop, RoutesOf
      <4> QED BY <2>6, <4>1 DEF For
    <3> QED BY <3>1, <3>2
  <2>8. Forward(rt, v, d) = Sends(i, hop, v, Older(d))
    BY <1>2, Zenon DEF Forward, Sends, SentBy
  <2>9. BestHop(rt, d, i, hop)
    BY <1>2, Zenon DEF BestHop
  <2> HIDE DEF i, hop
  <2> QED BY <1>2, <2>4, <2>6, <2>7, <2>8, <2>9
<1> QED BY <1>1, <1>2

\* What route() computes, so far.
Results == {v \in [nics : [Nics -> NetworkInterfaces], frames : Wires] : AllSound(v.nics)}

\* Replacing an interface by a sound one.
LEMMA AllSoundExcept ==
  ASSUME NEW ns, AllSound(ns), NEW n \in Nics, NEW m, Sound(m, n)
  PROVE  AllSound([ns EXCEPT ![n] = m])
BY DEF AllSound, Sound

\* Sending by one of the interfaces leaves all of them sound.
LEMMA SendsIsSound ==
  ASSUME NEW v \in Results, NEW i \in Nics, NEW hop \in Addresses, NEW d \in For(hop)
  PROVE  Sends(i, hop, v, d) \in Results
<1> DEFINE n   == v.nics[i]
           m   == SendDatagram(n, d, hop)
           out == SendDatagramTransmits(n, d, hop)
           ns  == [v.nics EXCEPT ![i] = m]
           fs  == v.frames \o SentBy(i, out)
<1>1. v.nics \in [Nics -> NetworkInterfaces] /\ v.frames \in Wires /\ AllSound(v.nics)
  BY DEF Results
<1>2. Sound(n, i)
  BY <1>1 DEF AllSound
<1>3. Sound(m, i) /\ out \in Seq(Frames)
  <2> HIDE DEF n
  <2> QED BY <1>2, SendIsSound
<1>4. Sends(i, hop, v, d) = [nics |-> ns, frames |-> fs]
  BY Zenon DEF Sends
<1>5. AllSound(ns)
  <2> HIDE DEF m
  <2> QED BY <1>1, <1>3, AllSoundExcept
<1>6. fs \in Wires
  <2> HIDE DEF out
  <2>1. SentBy(i, out) \in Wires
    BY <1>3, SentByIsWire
  <2> QED BY <1>1, <2>1, ConcatProperties DEF Wires
<1> HIDE DEF ns, fs
<1> QED BY <1>4, <1>5, <1>6 DEF Results, AllSound

\* Emptying the queues of a router leaves its interfaces sound.
LEMMA EmptiedIsSound ==
  ASSUME NEW rt, NEW ns, AllSound(ns)
  PROVE  /\ Emptied(rt, ns) \in Results
         /\ \A n \in Nics : Emptied(rt, ns).nics[n] =
              IF n \in ToSet(rt.interfaces) THEN [ns[n] EXCEPT !.datagrams_in = <<>>]
              ELSE ns[n]
<1> DEFINE ms == [i \in Nics |-> IF i \in ToSet(rt.interfaces)
                                 THEN [ns[i] EXCEPT !.datagrams_in = <<>>] ELSE ns[i]]
<1>1. Emptied(rt, ns) = [nics |-> ms, frames |-> <<>>]
  BY DEF Emptied, AllSound
<1>2. ASSUME NEW n \in Nics
      PROVE  Sound(ms[n], n)
  <2>1. Sound(ns[n], n) /\ ns[n] \in NetworkInterfaces
    BY DEF AllSound
  <2>2. CASE n \in ToSet(rt.interfaces)
    <3> DEFINE old == ns[n]
               m   == [old EXCEPT !.datagrams_in = <<>>]
    <3>1. ms[n] = m
      BY <2>2
    <3> HIDE DEF old, ms
    <3>2. <<>> \in Seq(Datagrams) /\ <<>> \in Seq(For(IpAddress[n]))
      OBVIOUS
    <3>3. old \in NetworkInterfaces /\ Sound(old, n)
      BY <2>1 DEF old
    <3>4. m \in NetworkInterfaces
      BY <3>2, <3>3 DEF NetworkInterfaces
    <3>5. /\ m.datagrams_in = <<>> /\ m.pending = old.pending /\ m.arp_timer = old.arp_timer
          /\ m.arp_cache = old.arp_cache /\ m.hw_address = old.hw_address
          /\ m.ip_address = old.ip_address
      BY <3>3 DEF NetworkInterfaces
    <3> HIDE DEF m
    <3>6. Sound(m, n)
      BY <3>2, <3>3, <3>4, <3>5 DEF Sound
    <3> QED BY <3>1, <3>6
  <2>3. CASE n \notin ToSet(rt.interfaces)
    BY <2>1, <2>3
  <2> QED BY <2>2, <2>3
<1>3. AllSound(ms)
  BY <1>2 DEF AllSound, Sound
<1>4. <<>> \in Wires
  BY DEF Wires
<1>5. Emptied(rt, ns) \in Results
  <2> HIDE DEF ms
  <2> QED BY <1>1, <1>3, <1>4 DEF Results, AllSound
<1> QED BY <1>1, <1>5

\* What has arrived, interface by interface.
Queues(rt, ns) == [k \in DOMAIN rt.interfaces |-> ns[rt.interfaces[k]].datagrams_in]

\* What has arrived at a router is what its queues hold, in order.
LEMMA ArrivedIsSeq ==
  ASSUME NEW r \in Routers, NEW rt \in RoutersOf(r), NEW ns, AllSound(ns)
  PROVE  /\ rt.interfaces = Interfaces[r] /\ rt.interfaces \in Seq(Nics)
         /\ Queues(rt, ns) \in Seq(Seq(Datagrams))
         /\ Arrived(rt, ns) = FlattenSeq(Queues(rt, ns))
         /\ Arrived(rt, ns) \in Seq(Datagrams)
<1>1. rt.interfaces = Interfaces[r] /\ rt.interfaces \in Seq(Nics)
  <2>1. rt.interfaces = Interfaces[r]
    BY DEF RoutersOf
  <2>2. Interfaces[r] \in Seq(Nics \ Hosts)
    BY InternetAssumption
  <2>3. Nics \ Hosts \subseteq Nics
    OBVIOUS
  <2> QED BY <2>1, <2>2, <2>3, SeqMonotonic, Zenon
<1>2. Queues(rt, ns) \in Seq(Seq(Datagrams))
  <2> DEFINE q == rt.interfaces
             T == Seq(Datagrams)
  <2>1. DOMAIN q = 1..Len(q) /\ Len(q) \in Nat /\ q \in Seq(Nics)
    <3>1. q \in Seq(Nics)
      BY <1>1
    <3> HIDE DEF q
    <3> QED BY <3>1
  <2>2. \A k \in 1..Len(q) : ns[q[k]].datagrams_in \in T
    <3> SUFFICES ASSUME NEW k \in 1..Len(q) PROVE ns[q[k]].datagrams_in \in T
      OBVIOUS
    <3>1. q[k] \in Nics
      <4> HIDE DEF q
      <4> QED BY <2>1
    <3>2. ns[q[k]] \in NetworkInterfaces
      BY <3>1 DEF AllSound
    <3> HIDE DEF q
    <3> QED BY <3>2 DEF NetworkInterfaces
  <2>3. Queues(rt, ns) = [k \in 1..Len(q) |-> ns[q[k]].datagrams_in]
    BY <2>1 DEF Queues
  <2> HIDE DEF q, T
  <2>4. Queues(rt, ns) \in Seq(T)
    BY <2>1, <2>2, <2>3, IsASeq
  <2> QED BY <2>4 DEF T
<1>3. Arrived(rt, ns) = FlattenSeq(Queues(rt, ns))
  BY DEF Arrived, Queues
<1>4. FlattenSeq(Queues(rt, ns)) \in Seq(Datagrams)
  <2> DEFINE qs == Queues(rt, ns)
  <2>1. qs \in Seq(Seq(Datagrams))
    BY <1>2
  <2> HIDE DEF qs
  <2>2. PICK f \in [0..Len(qs) -> Seq(Datagrams)] : FlattenSeq(qs) = f[Len(qs)]
    BY <2>1, FlattenJoins
  <2>3. Len(qs) \in 0..Len(qs)
    BY <2>1
  <2>4. FlattenSeq(qs) \in Seq(Datagrams)
    BY <2>2, <2>3
  <2> QED BY <2>4 DEF qs
<1> QED BY <1>1, <1>2, <1>3, <1>4

\* Routing keeps every interface sound (Router::route).
LEMMA RouteIsSound ==
  ASSUME NEW r \in Routers, NEW rt \in RoutersOf(r), NEW ns, AllSound(ns)
  PROVE  /\ Route(rt, ns) \in Results
         /\ \E f \in [0..Len(Arrived(rt, ns)) -> Results] :
              Forwards(f, rt, ns) /\ Route(rt, ns) = f[Len(Arrived(rt, ns))]
<1> DEFINE n == Len(Arrived(rt, ns))
<1>1. Arrived(rt, ns) \in Seq(Datagrams) /\ n \in 0..n
  <2>1. Arrived(rt, ns) \in Seq(Datagrams)
    BY ArrivedIsSeq
  <2> QED BY <2>1
<1>2. Emptied(rt, ns) \in Results
  BY EmptiedIsSound
<1>3. ASSUME NEW v \in Results, NEW d \in Datagrams
      PROVE  Forward(rt, v, d) \in Results
  <2>1. CASE Forward(rt, v, d) = v
    BY <2>1
  <2>2. ASSUME NEW i \in Nics, NEW hop \in Addresses, Older(d) \in For(hop),
               Forward(rt, v, d) = Sends(i, hop, v, Older(d))
        PROVE  Forward(rt, v, d) \in Results
    BY <2>2, SendsIsSound
  <2> QED BY <2>1, <2>2, ForwardSends
<1>4. PICK f \in [0..n -> Results] : Forwards(f, rt, ns) /\ Route(rt, ns) = f[n]
  BY <1>1, <1>2, <1>3, RouteForwards, Zenon
<1>5. f[n] \in Results
  <2> HIDE DEF n
  <2> QED BY <1>1
<1> QED BY <1>4, <1>5

-----------------------------------------------------------------------------
(* The network.                                                             *)

\* A frame reaches the interfaces on its segment.
LEMMA ArriveKeepsNetwork ==
  ASSUME NetworkInv, NEW s \in Segments, Arrive(s)
  PROVE  NetworkInv'
<1> DEFINE head   == Head(wires[s])
           sender == head[1]
           frame  == head[2]
           others == Selected(Connections[s], Nics \ {sender})
           sent   == [k \in DOMAIN others |->
                        SentBy(others[k], RecvFrameTransmits(nics[others[k]], frame))]
           rest   == [wires EXCEPT ![s] = Tail(@)]
<1>1. /\ wires[s] # <<>>
      /\ nics' = [n \in Nics |-> IF n \in ToSet(others)
                                 THEN RecvFrame(nics[n], frame) ELSE nics[n]]
      /\ wires' = Carry(rest, FlattenSeq(sent))
      /\ UNCHANGED << routers, launched, received >>
  BY Zenon DEF Arrive
<1>2. AllSound(nics) /\ wires \in [Segments -> Wires]
  BY DEF NetworkInv
<1>3. sender \in Nics /\ frame \in Frames /\ rest \in [Segments -> Wires]
  <2>1. wires[s] \in Seq(Nics \X Frames)
    BY <1>2 DEF Wires
  <2>2. head \in Nics \X Frames /\ Tail(wires[s]) \in Seq(Nics \X Frames)
    BY <1>1, <2>1, HeadTailProperties
  <2> HIDE DEF head
  <2> QED BY <1>2, <2>2 DEF Wires
<1>4. others \in Seq(Nics)
  <2>1. Connections[s] \in Seq(Nics)
    BY InternetAssumption
  <2> QED BY <2>1, SelectedEmbeds
<1> HIDE DEF head, sender, frame, rest
<1>5. AllSound(nics')
  <2>1. ASSUME NEW n \in Nics
        PROVE  Sound(nics'[n], n)
    <3>1. Sound(nics[n], n)
      BY <1>2 DEF AllSound
    <3>2. Sound(RecvFrame(nics[n], frame), n)
      BY <1>3, <3>1, RecvIsSound
    <3> HIDE DEF others
    <3> QED BY <1>1, <3>1, <3>2
  <2> HIDE DEF others
  <2> QED BY <1>1, <2>1 DEF AllSound, Sound
<1>6. sent \in Seq(Wires)
  <2> HIDE DEF others
  <2>1. DOMAIN others = 1..Len(others) /\ Len(others) \in Nat
    BY <1>4
  <2>2. ASSUME NEW k \in 1..Len(others)
        PROVE  SentBy(others[k], RecvFrameTransmits(nics[others[k]], frame)) \in Wires
    <3>1. others[k] \in Nics
      BY <1>4
    <3>2. Sound(nics[others[k]], others[k])
      BY <1>2, <3>1 DEF AllSound
    <3>3. RecvFrameTransmits(nics[others[k]], frame) \in Seq(Frames)
      BY <1>3, <3>1, <3>2, RecvIsSound
    <3> QED BY <3>1, <3>3, SentByIsWire
  <2> QED BY <2>1, <2>2, IsASeq
<1> HIDE DEF sent, others
<1>7. FlattenSeq(sent) \in Wires
  <2> DEFINE T == Nics \X Frames
  <2>1. sent \in Seq(Seq(T))
    BY <1>6 DEF Wires
  <2> HIDE DEF T
  <2>2. PICK f \in [0..Len(sent) -> Seq(T)] : FlattenSeq(sent) = f[Len(sent)]
    BY <2>1, FlattenJoins
  <2>3. Len(sent) \in 0..Len(sent)
    BY <2>1
  <2> QED BY <2>2, <2>3 DEF T, Wires
<1>8. wires' \in [Segments -> Wires]
  BY <1>1, <1>3, <1>7, CarryIsWires
<1> QED BY <1>1, <1>5, <1>8 DEF NetworkInv

\* Time passes for an interface.
LEMMA TickKeepsNetwork ==
  ASSUME NetworkInv, NEW n \in Nics, Tick(n)
  PROVE  NetworkInv'
<1> DEFINE out == InterfaceTickTransmits(nics[n], TickMs)
           m   == InterfaceTick(nics[n], TickMs)
<1>1. PICK frames \in SetToSeqs(out) :
        /\ nics' = [nics EXCEPT ![n] = m]
        /\ wires' = Carry(wires, SentBy(n, frames))
        /\ UNCHANGED << routers, launched, received >>
  BY DEF Tick
<1>2. AllSound(nics) /\ wires \in [Segments -> Wires]
  BY DEF NetworkInv
<1>3. Sound(m, n) /\ out \subseteq ARPFrames /\ IsFiniteSet(out)
  <2>1. TickMs \in Nat /\ Sound(nics[n], n)
    BY <1>2, InternetAssumption DEF AllSound
  <2> QED BY <2>1, TickIsSound
<1> HIDE DEF m, out
<1>4. frames \in Seq(Frames)
  <2>1. Cardinality(out) \in Nat
    BY <1>3, FS_CardinalityType
  <2>2. frames \in [1..Cardinality(out) -> out]
    BY DEF SetToSeqs
  <2>3. frames \in Seq(out)
    BY <2>1, <2>2
  <2>4. out \subseteq Frames
    BY <1>3 DEF Frames
  <2> QED BY <2>3, <2>4, SeqMonotonic, Zenon
<1>5. AllSound(nics')
  BY <1>1, <1>2, <1>3, AllSoundExcept
<1>6. wires' \in [Segments -> Wires]
  BY <1>1, <1>2, <1>4, SentByIsWire, CarryIsWires
<1> QED BY <1>1, <1>5, <1>6 DEF NetworkInv

\* A host sends a datagram.
LEMMA LaunchKeepsNetwork ==
  ASSUME NetworkInv, NEW h \in Senders, NEW dst \in Destinations, NEW ttl \in Lifetimes,
         Launch(h, dst, ttl)
  PROVE  NetworkInv'
<1> DEFINE d      == [id |-> Len(launched) + 1, dst |-> dst, ttl |-> ttl]
           hop    == Gateways[h]
           m      == SendDatagram(nics[h], d, hop)
           frames == SendDatagramTransmits(nics[h], d, hop)
           entry  == [src |-> h, dst |-> dst, ttl |-> ttl, routed |-> Configured]
<1>1. /\ nics' = [nics EXCEPT ![h] = m]
      /\ wires' = Carry(wires, SentBy(h, frames))
      /\ launched' = Append(launched, entry)
      /\ UNCHANGED << routers, received >>
  BY DEF Launch
<1>2. AllSound(nics) /\ wires \in [Segments -> Wires] /\ Len(launched) \in Nat
  BY DEF NetworkInv
<1>3. h \in Hosts /\ h \in Nics /\ dst \in Addresses /\ ttl \in Nat
  <2>1. h \in Hosts /\ h \in Nics /\ dst \in Addresses /\ ttl \in 0..255
    BY InternetAssumption, Zenon
  <2>2. 0..255 \subseteq Nat
    OBVIOUS
  <2> QED BY <2>1, <2>2, Zenon
<1>4. hop \in Addresses /\ d \in For(hop)
  <2>1. hop \in Addresses /\ hop \notin HostAddresses
    BY <1>3, RoutesAssumption
  <2>2. d \in Datagrams
    BY <1>2, <1>3 DEF Datagrams
  <2> QED BY <2>1, <2>2 DEF For
<1>5. Sound(m, h) /\ frames \in Seq(Frames)
  <2>1. Sound(nics[h], h)
    BY <1>2, <1>3 DEF AllSound
  <2> HIDE DEF hop, d
  <2> QED BY <1>3, <1>4, <2>1, SendIsSound
<1>6. launched' \in Seq([src : Hosts, dst : Addresses, ttl : Nat, routed : BOOLEAN])
  <2>1. Configured \in BOOLEAN
    BY DEF Configured
  <2>2. entry \in [src : Hosts, dst : Addresses, ttl : Nat, routed : BOOLEAN]
    BY <1>3, <2>1
  <2> HIDE DEF entry
  <2> QED BY <1>1, <2>2 DEF NetworkInv
<1> HIDE DEF m, frames
<1>7. AllSound(nics')
  BY <1>1, <1>2, <1>3, <1>5, AllSoundExcept
<1>8. wires' \in [Segments -> Wires]
  BY <1>1, <1>2, <1>3, <1>5, SentByIsWire, CarryIsWires
<1> QED BY <1>1, <1>6, <1>7, <1>8 DEF NetworkInv

\* A host takes a datagram from its queue.
LEMMA TakeKeepsNetwork ==
  ASSUME NetworkInv, NEW h \in Hosts, Take(h)
  PROVE  NetworkInv'
<1> DEFINE old == nics[h]
           m   == [old EXCEPT !.datagrams_in = Tail(@)]
<1>1. /\ old.datagrams_in # <<>>
      /\ nics' = [nics EXCEPT ![h] = m]
      /\ received' = Append(received, [host |-> h, datagram |-> Head(old.datagrams_in)])
      /\ UNCHANGED << routers, wires, launched >>
  BY DEF Take
<1>2. AllSound(nics) /\ h \in Nics
  BY InternetAssumption DEF NetworkInv
<1>3. Sound(old, h) /\ old \in NetworkInterfaces
  BY <1>2 DEF AllSound
<1> HIDE DEF old
<1>4. Sound(m, h)
  <2>1. /\ old.datagrams_in \in Seq(Datagrams)
        /\ old.datagrams_in \in Seq(For(IpAddress[h]))
    BY <1>3 DEF Sound, NetworkInterfaces
  <2>2. /\ Tail(old.datagrams_in) \in Seq(Datagrams)
        /\ Tail(old.datagrams_in) \in Seq(For(IpAddress[h]))
    BY <1>1, <2>1, HeadTailProperties
  <2>3. m \in NetworkInterfaces
    BY <1>3, <2>2 DEF NetworkInterfaces
  <2>4. /\ m.datagrams_in = Tail(old.datagrams_in) /\ m.pending = old.pending
        /\ m.arp_timer = old.arp_timer /\ m.arp_cache = old.arp_cache
        /\ m.hw_address = old.hw_address /\ m.ip_address = old.ip_address
    BY <1>3 DEF NetworkInterfaces
  <2> HIDE DEF m
  <2> QED BY <1>3, <2>2, <2>3, <2>4 DEF Sound
<1>5. received' \in Seq([host : Hosts, datagram : Datagrams])
  <2>1. Head(old.datagrams_in) \in Datagrams
    BY <1>1, <1>3 DEF NetworkInterfaces
  <2>2. [host |-> h, datagram |-> Head(old.datagrams_in)] \in [host : Hosts, datagram : Datagrams]
    BY <2>1
  <2> QED BY <1>1, <2>2, AppendProperties DEF NetworkInv
<1> HIDE DEF m
<1>6. AllSound(nics')
  BY <1>1, <1>2, <1>4, AllSoundExcept
<1> QED BY <1>1, <1>5, <1>6 DEF NetworkInv

\* Interfaces stay sound and frames true.
LEMMA NetworkInvariant == Spec => []NetworkInv
<1>1. Init => NetworkInv
  <2> SUFFICES ASSUME Init PROVE NetworkInv
    OBVIOUS
  <2>1. ASSUME NEW n \in Nics
        PROVE  Sound(NewInterface(n, IpAddress[n]), n)
    <3> DEFINE m == NewInterface(n, IpAddress[n])
    <3>1. /\ m.datagrams_in = <<>> /\ m.pending = NoEntries
          /\ m.arp_timer = NoEntries /\ m.arp_cache = NoEntries
          /\ m.hw_address = n /\ m.ip_address = IpAddress[n]
      BY DEF NewInterface
    <3>2. DOMAIN NoEntries = {} /\ \A T : NoEntries \in Maps(Addresses, T)
      BY DEF NoEntries, Maps
    <3>3. IpAddress[n] \in Addresses
      BY InternetAssumption
    <3>4. m \in NetworkInterfaces
      <4>1. <<>> \in Seq(Datagrams)
        OBVIOUS
      <4> HIDE DEF NoEntries
      <4> QED BY <3>2, <3>3, <4>1 DEF NewInterface, NetworkInterfaces
    <3>5. IsFiniteSet({})
      BY FS_EmptySet
    <3>6. <<>> \in Seq(For(IpAddress[n]))
      OBVIOUS
    <3> HIDE DEF m
    <3> QED BY <3>1, <3>2, <3>4, <3>5, <3>6 DEF Sound, Truthful, Sorted, m
  <2>2. AllSound(nics)
    BY <2>1 DEF Init, AllSound, Sound
  <2>3. \A r \in Routers : routers[r] \in RoutersOf(r)
    BY DEF Init, NewRouter, RoutersOf
  <2>4. wires \in [Segments -> Wires]
    BY DEF Init, Wires
  <2>5. DOMAIN routers = Routers /\ launched = <<>> /\ received = <<>>
    BY DEF Init
  <2>6. /\ <<>> \in Seq([src : Hosts, dst : Addresses, ttl : Nat, routed : BOOLEAN])
        /\ <<>> \in Seq([host : Hosts, datagram : Datagrams])
    OBVIOUS
  <2> QED BY <2>2, <2>3, <2>4, <2>5, <2>6 DEF NetworkInv
<1>2. NetworkInv /\ [Next]_vars => NetworkInv'
  <2> SUFFICES ASSUME NetworkInv, [Next]_vars PROVE NetworkInv'
    OBVIOUS
  <2>1. ASSUME NEW r \in Routers, Configure(r)
        PROVE  NetworkInv'
    <3> DEFINE k == Len(routers[r].routing_table) + 1
    <3>1. /\ k \in DOMAIN RoutePlan[r]
          /\ routers' = [routers EXCEPT ![r] = AddRoute(@, RoutePlan[r][k])]
          /\ UNCHANGED << nics, wires, launched, received >>
      BY <2>1 DEF Configure
    <3>2. RoutePlan[r][k] \in RoutesOf(r)
      BY <3>1, RoutesAssumption
    <3> HIDE DEF k
    <3>3. DOMAIN routers = Routers /\ \A q \in Routers : routers[q] \in RoutersOf(q)
      BY DEF NetworkInv
    <3>4. AddRoute(routers[r], RoutePlan[r][k]) \in RoutersOf(r)
      BY <3>2, <3>3 DEF AddRoute, RoutersOf
    <3>5. DOMAIN routers' = Routers /\ \A q \in Routers : routers'[q] \in RoutersOf(q)
      <4> DEFINE new == AddRoute(routers[r], RoutePlan[r][k])
      <4> HIDE DEF new
      <4> QED BY <3>1, <3>3, <3>4 DEF new
    <3> QED BY <3>1, <3>5 DEF NetworkInv
  <2>2. ASSUME NEW r \in Routers, RouteAll(r)
        PROVE  NetworkInv'
    <3> DEFINE result == Route(routers[r], nics)
    <3>1. /\ nics' = result.nics
          /\ wires' = Carry(wires, result.frames)
          /\ UNCHANGED << routers, launched, received >>
      BY <2>2 DEF RouteAll
    <3>2. result \in Results
      BY RouteIsSound DEF NetworkInv
    <3> HIDE DEF result
    <3>3. AllSound(nics') /\ result.frames \in Wires /\ wires \in [Segments -> Wires]
      BY <3>1, <3>2 DEF Results, NetworkInv
    <3>4. wires' \in [Segments -> Wires]
      BY <3>1, <3>3, CarryIsWires
    <3> QED BY <3>1, <3>3, <3>4 DEF NetworkInv
  <2>3. ASSUME NEW s \in Segments, Lose(s)
        PROVE  NetworkInv'
    <3>1. /\ wires[s] # <<>>
          /\ wires' = [wires EXCEPT ![s] = Tail(@)]
          /\ UNCHANGED << nics, routers, launched, received >>
      BY <2>3 DEF Lose
    <3>2. wires[s] \in Wires /\ wires \in [Segments -> Wires]
      BY DEF NetworkInv
    <3>3. Tail(wires[s]) \in Wires
      BY <3>1, <3>2, HeadTailProperties DEF Wires
    <3>4. wires' \in [Segments -> Wires]
      BY <3>1, <3>2, <3>3
    <3> QED BY <3>1, <3>4 DEF NetworkInv
  <2>4. CASE UNCHANGED vars
    BY <2>4 DEF vars, NetworkInv
  <2> QED BY <2>1, <2>2, <2>3, <2>4, ArriveKeepsNetwork, TickKeepsNetwork,
             LaunchKeepsNetwork, TakeKeepsNetwork DEF Next
<1> QED BY <1>1, <1>2, PTL DEF Spec

\* A datagram that a host has is addressed to it: no interface puts one into the
\* queue or the frame for another address, and no ARP message that is on its way
\* or was learned lies (NetworkInterface, Router::route).
THEOREM OnlyTheAddresseeHasIt == Spec => []OnlyTheAddresseeReceives
<1>1. NetworkInv => OnlyTheAddresseeReceives
  <2> SUFFICES ASSUME NetworkInv, NEW n \in Hosts, NEW k \in DOMAIN nics[n].datagrams_in
               PROVE  nics[n].datagrams_in[k].dst = IpAddress[n]
    BY DEF OnlyTheAddresseeReceives
  <2>1. n \in Nics /\ IpAddress[n] \in HostAddresses
    BY InternetAssumption DEF HostAddresses
  <2>2. nics[n].datagrams_in \in Seq(For(IpAddress[n]))
    BY <2>1 DEF NetworkInv, AllSound, Sound
  <2>3. nics[n].datagrams_in[k] \in For(IpAddress[n])
    BY <2>2
  <2> QED BY <2>1, <2>3 DEF For
<1> QED BY <1>1, NetworkInvariant, PTL

-----------------------------------------------------------------------------
(* II. No copies.  What a sequence holds, when load gives a set for each    *)
(* element, and that its elements have nothing in common.                   *)

Held(load, q) == UNION {load[q[k]] : k \in 1..Len(q)}

Apart(load, q) ==
  \A j, k \in 1..Len(q) : j # k => load[q[j]] \cap load[q[k]] = {}

\* What a sequence holds, some element holds.
LEMMA HeldByOne ==
  ASSUME NEW load, NEW q, NEW x
  PROVE  x \in Held(load, q) <=> \E k \in 1..Len(q) : x \in load[q[k]]
BY DEF Held

\* Part of a sequence holds no more.
LEMMA HeldByPart ==
  ASSUME NEW load, NEW p, NEW q, NEW S, NEW e, Embeds(e, p, q, Len(q), S),
         Len(p) \in Nat
  PROVE  /\ Held(load, p) \subseteq Held(load, q)
         /\ Apart(load, q) => Apart(load, p)
<1>1. /\ e \in [1..Len(p) -> 1..Len(q)]
      /\ \A k \in 1..Len(p) : p[k] = q[e[k]]
      /\ \A j, k \in 1..Len(p) : j < k => e[j] < e[k]
  BY DEF Embeds
<1>2. Held(load, p) \subseteq Held(load, q)
  <2> SUFFICES ASSUME NEW x, x \in Held(load, p) PROVE x \in Held(load, q)
    OBVIOUS
  <2>1. PICK k \in 1..Len(p) : x \in load[p[k]]
    BY HeldByOne
  <2>2. e[k] \in 1..Len(q) /\ x \in load[q[e[k]]]
    BY <1>1, <2>1
  <2> QED BY <2>2, HeldByOne
<1>3. ASSUME Apart(load, q), NEW j \in 1..Len(p), NEW k \in 1..Len(p), j # k
      PROVE  load[p[j]] \cap load[p[k]] = {}
  <2>1. j < k \/ k < j
    BY <1>3
  <2>2. /\ e[j] \in 1..Len(q) /\ e[k] \in 1..Len(q) /\ e[j] # e[k]
        /\ p[j] = q[e[j]] /\ p[k] = q[e[k]]
    <3>1. /\ e[j] \in 1..Len(q) /\ e[k] \in 1..Len(q)
          /\ p[j] = q[e[j]] /\ p[k] = q[e[k]]
      BY <1>1
    <3>2. e[j] < e[k] \/ e[k] < e[j]
      BY <1>1, <2>1
    <3> QED BY <3>1, <3>2
  <2> QED BY <1>3, <2>2 DEF Apart
<1> QED BY <1>2, <1>3 DEF Apart

\* Two sequences one after the other.
LEMMA HeldByBoth ==
  ASSUME NEW T, NEW p \in Seq(T), NEW q \in Seq(T), NEW load
  PROVE  /\ Held(load, p \o q) = Held(load, p) \union Held(load, q)
         /\ Apart(load, p) /\ Apart(load, q) /\ Held(load, p) \cap Held(load, q) = {}
              => Apart(load, p \o q)
<1> DEFINE r == p \o q
           m == Len(p)
           n == Len(q)
<1>1. /\ r \in Seq(T) /\ Len(r) = m + n /\ m \in Nat /\ n \in Nat
      /\ \A i \in 1..(m + n) : IF i <= m THEN i \in 1..m /\ r[i] = p[i]
                               ELSE i - m \in 1..n /\ r[i] = q[i - m]
  BY Concatenation
<1> HIDE DEF r
<1>2. \A i \in 1..m : i \in 1..Len(r) /\ r[i] = p[i]
  <2> HIDE DEF m, n
  <2> QED BY <1>1
<1>3. \A i \in 1..n : m + i \in 1..Len(r) /\ r[m + i] = q[i]
  <2> SUFFICES ASSUME NEW i \in 1..n PROVE m + i \in 1..Len(r) /\ r[m + i] = q[i]
    OBVIOUS
  <2> HIDE DEF m, n
  <2>1. m + i \in 1..(m + n) /\ ~(m + i <= m) /\ (m + i) - m = i
    BY <1>1
  <2> QED BY <1>1, <2>1
<1>4. Held(load, r) = Held(load, p) \union Held(load, q)
  <2>1. ASSUME NEW x, x \in Held(load, r)
        PROVE  x \in Held(load, p) \union Held(load, q)
    <3>1. PICK i \in 1..(m + n) : x \in load[r[i]]
      BY <1>1, <2>1, HeldByOne
    <3> HIDE DEF m, n
    <3>2. CASE i <= m
      <4>1. i \in 1..Len(p) /\ x \in load[p[i]]
        BY <1>1, <3>1, <3>2 DEF m
      <4> QED BY <4>1, HeldByOne
    <3>3. CASE ~(i <= m)
      <4>1. i - m \in 1..Len(q) /\ x \in load[q[i - m]]
        BY <1>1, <3>1, <3>3 DEF n
      <4> QED BY <4>1, HeldByOne
    <3> QED BY <3>2, <3>3
  <2>2. ASSUME NEW x, x \in Held(load, p)
        PROVE  x \in Held(load, r)
    <3>1. PICK i \in 1..m : x \in load[p[i]]
      BY <2>2, HeldByOne
    <3> QED BY <1>2, <3>1, HeldByOne
  <2>3. ASSUME NEW x, x \in Held(load, q)
        PROVE  x \in Held(load, r)
    <3>1. PICK i \in 1..n : x \in load[q[i]]
      BY <2>3, HeldByOne
    <3> QED BY <1>3, <3>1, HeldByOne
  <2> QED BY <2>1, <2>2, <2>3
<1>5. ASSUME Apart(load, p), Apart(load, q), Held(load, p) \cap Held(load, q) = {},
             NEW j \in 1..Len(r), NEW k \in 1..Len(r), j # k
      PROVE  load[r[j]] \cap load[r[k]] = {}
  <2>1. ASSUME NEW i \in 1..Len(r), NEW x, x \in load[r[i]]
        PROVE  IF i <= m THEN x \in Held(load, p) ELSE x \in Held(load, q)
    <3> HIDE DEF m, n
    <3>1. i \in 1..(m + n)
      BY <1>1
    <3>2. CASE i <= m
      <4>1. i \in 1..Len(p) /\ x \in load[p[i]]
        BY <1>1, <2>1, <3>1, <3>2 DEF m
      <4> QED BY <4>1, <3>2, HeldByOne
    <3>3. CASE ~(i <= m)
      <4>1. i - m \in 1..Len(q) /\ x \in load[q[i - m]]
        BY <1>1, <2>1, <3>1, <3>3 DEF n
      <4> QED BY <4>1, <3>3, HeldByOne
    <3> QED BY <3>2, <3>3
  <2> HIDE DEF m, n
  <2>2. j \in 1..(m + n) /\ k \in 1..(m + n)
    BY <1>1
  <2>3. CASE j <= m /\ k <= m
    <3>1. j \in 1..Len(p) /\ k \in 1..Len(p) /\ r[j] = p[j] /\ r[k] = p[k]
      BY <1>1, <2>2, <2>3 DEF m
    <3> QED BY <1>5, <3>1 DEF Apart
  <2>4. CASE ~(j <= m) /\ ~(k <= m)
    <3>1. /\ j - m \in 1..Len(q) /\ k - m \in 1..Len(q)
          /\ r[j] = q[j - m] /\ r[k] = q[k - m]
      BY <1>1, <2>2, <2>4 DEF n
    <3>2. j - m # k - m
      BY <1>1, <1>5, <2>2
    <3> QED BY <1>5, <3>1, <3>2 DEF Apart
  <2>5. CASE j <= m /\ ~(k <= m)
    <3>1. load[r[j]] \subseteq Held(load, p) /\ load[r[k]] \subseteq Held(load, q)
      BY <2>1, <2>5
    <3> QED BY <1>5, <3>1
  <2>6. CASE ~(j <= m) /\ k <= m
    <3>1. load[r[j]] \subseteq Held(load, q) /\ load[r[k]] \subseteq Held(load, p)
      BY <2>1, <2>6
    <3> QED BY <1>5, <3>1
  <2> QED BY <2>3, <2>4, <2>5, <2>6
<1> QED BY <1>4, <1>5 DEF r, Apart

\* An empty sequence holds nothing.
LEMMA HeldByNone ==
  ASSUME NEW load
  PROVE  Held(load, <<>>) = {} /\ Apart(load, <<>>)
<1>1. Len(<<>>) = 0
  OBVIOUS
<1> QED BY <1>1 DEF Held, Apart

\* A sequence of one element.
LEMMA HeldBySingle ==
  ASSUME NEW load, NEW x
  PROVE  Held(load, <<x>>) = load[x] /\ Apart(load, <<x>>)
<1>1. Len(<<x>>) = 1 /\ <<x>>[1] = x
  OBVIOUS
<1> HIDE DEF Held
<1>2. Held(load, <<x>>) = load[x]
  BY <1>1 DEF Held
<1> QED BY <1>1, <1>2 DEF Apart

\* One more element at the end.
LEMMA HeldWithOneMore ==
  ASSUME NEW T, NEW q \in Seq(T), NEW x \in T, NEW load
  PROVE  /\ Held(load, Append(q, x)) = Held(load, q) \union load[x]
         /\ Apart(load, q) /\ Held(load, q) \cap load[x] = {}
              => Apart(load, Append(q, x))
<1> DEFINE one == <<x>>
<1>1. Append(q, x) = q \o one /\ one \in Seq(T)
  OBVIOUS
<1>2. Held(load, one) = load[x] /\ Apart(load, one)
  BY HeldBySingle
<1> HIDE DEF one
<1>3. /\ Held(load, q \o one) = Held(load, q) \union Held(load, one)
      /\ Apart(load, q) /\ Apart(load, one) /\ Held(load, q) \cap Held(load, one) = {}
           => Apart(load, q \o one)
  BY <1>1, HeldByBoth
<1> QED BY <1>1, <1>2, <1>3, Zenon

\* The first element and the others.
LEMMA HeldByTail ==
  ASSUME NEW T, NEW q \in Seq(T), q # <<>>, NEW load
  PROVE  /\ Held(load, q) = load[Head(q)] \union Held(load, Tail(q))
         /\ Apart(load, q) => /\ Apart(load, Tail(q))
                              /\ load[Head(q)] \cap Held(load, Tail(q)) = {}
<1> DEFINE t == Tail(q)
<1>1. /\ t \in Seq(T) /\ Len(q) \in Nat \ {0} /\ Len(t) = Len(q) - 1
      /\ Head(q) = q[1] /\ \A k \in 1..Len(t) : t[k] = q[k + 1]
  OBVIOUS
<1> HIDE DEF t
<1>2. ASSUME NEW x
      PROVE  x \in Held(load, t) <=> \E k \in 2..Len(q) : x \in load[q[k]]
  <2>1. ASSUME NEW k \in 1..Len(t), x \in load[t[k]]
        PROVE  k + 1 \in 2..Len(q) /\ x \in load[q[k + 1]]
    BY <1>1, <2>1
  <2>2. ASSUME NEW k \in 2..Len(q), x \in load[q[k]]
        PROVE  k - 1 \in 1..Len(t) /\ x \in load[t[k - 1]]
    <3>1. k - 1 \in 1..Len(t) /\ (k - 1) + 1 = k
      BY <1>1
    <3> QED BY <1>1, <2>2, <3>1
  <2> QED BY <2>1, <2>2, HeldByOne
<1>3. \A k : k \in 1..Len(q) <=> k = 1 \/ k \in 2..Len(q)
  BY <1>1
<1>4. Held(load, q) = load[Head(q)] \union Held(load, t)
  <2>1. ASSUME NEW x
        PROVE  x \in Held(load, q) <=> x \in load[q[1]] \/ x \in Held(load, t)
    BY <1>2, <1>3, HeldByOne
  <2> QED BY <1>1, <2>1
<1>5. ASSUME Apart(load, q)
      PROVE  Apart(load, t)
  <2> SUFFICES ASSUME NEW j \in 1..Len(t), NEW k \in 1..Len(t), j # k
               PROVE  load[t[j]] \cap load[t[k]] = {}
    BY DEF Apart
  <2>1. /\ j + 1 \in 1..Len(q) /\ k + 1 \in 1..Len(q) /\ j + 1 # k + 1
        /\ t[j] = q[j + 1] /\ t[k] = q[k + 1]
    BY <1>1
  <2> QED BY <1>5, <2>1 DEF Apart
<1>6. ASSUME Apart(load, q)
      PROVE  load[Head(q)] \cap Held(load, t) = {}
  <2>1. \A k \in 2..Len(q) : load[q[1]] \cap load[q[k]] = {}
    <3>1. \A k \in 2..Len(q) : k # 1 /\ k \in 1..Len(q) /\ 1 \in 1..Len(q)
      BY <1>1
    <3> QED BY <1>6, <3>1 DEF Apart
  <2> QED BY <1>1, <1>2, <2>1
<1> QED BY <1>4, <1>5, <1>6 DEF t

\* Sequences whose elements hold the same, each in its place.
LEMMA HeldAlike ==
  ASSUME NEW p, NEW q, Len(p) = Len(q), NEW load, NEW other,
         \A k \in 1..Len(p) : load[p[k]] = other[q[k]]
  PROVE  Held(load, p) = Held(other, q) /\ (Apart(load, p) <=> Apart(other, q))
<1>1. ASSUME NEW x
      PROVE  x \in Held(load, p) <=> x \in Held(other, q)
  BY HeldByOne
<1> QED BY <1>1 DEF Apart

\* Sequences joined: apart if each is and no two have an id in common.
LEMMA HeldByFlattened ==
  ASSUME NEW T, NEW qs \in Seq(Seq(T)), NEW load,
         \A k \in 1..Len(qs) : Apart(load, qs[k]),
         \A j, k \in 1..Len(qs) : j # k => Held(load, qs[j]) \cap Held(load, qs[k]) = {}
  PROVE  /\ Apart(load, FlattenSeq(qs))
         /\ \A x : x \in Held(load, FlattenSeq(qs)) <=>
                     \E k \in 1..Len(qs) : x \in Held(load, qs[k])
<1>1. PICK f \in [0..Len(qs) -> Seq(T)] : Joins(f, qs) /\ FlattenSeq(qs) = f[Len(qs)]
  BY FlattenJoins
<1> DEFINE n == Len(qs)
           Good == {i \in 0..n : /\ Apart(load, f[i])
                                 /\ \A x : x \in Held(load, f[i]) <=>
                                             \E k \in 1..i : x \in Held(load, qs[k])}
<1>2. n \in Nat /\ n \in 0..n
  OBVIOUS
<1>3. 0 \in Good
  <2>1. f[0] = <<>>
    BY <1>1 DEF Joins
  <2> QED BY <1>2, <2>1, HeldByNone
<1>4. ASSUME NEW i \in 1..n, i - 1 \in Good
      PROVE  i \in Good
  <2> DEFINE old == f[i - 1]
             q   == qs[i]
  <2>1. i - 1 \in 0..n /\ i \in 0..n
    BY <1>2
  <2>2. f[i] = old \o q
    BY <1>1 DEF Joins
  <2>3. old \in Seq(T) /\ q \in Seq(T)
    BY <2>1
  <2>4. /\ Apart(load, old)
        /\ \A x : x \in Held(load, old) <=> \E k \in 1..(i - 1) : x \in Held(load, qs[k])
    BY <1>4
  <2>5. \A k : k \in 1..i <=> k \in 1..(i - 1) \/ k = i
    OBVIOUS
  <2>6. \A k \in 1..(i - 1) : k \in 1..Len(qs) /\ k # i
    BY <1>2
  <2> HIDE DEF old
  <2>7. Held(load, old) \cap Held(load, q) = {}
    <3>1. i \in 1..Len(qs)
      OBVIOUS
    <3> QED BY <2>4, <2>6, <3>1
  <2> HIDE DEF q
  <2>8. Apart(load, q)
    BY DEF q
  <2>9. /\ Apart(load, f[i])
        /\ Held(load, f[i]) = Held(load, old) \union Held(load, q)
    BY <2>2, <2>3, <2>4, <2>7, <2>8, HeldByBoth
  <2>10. \A x : x \in Held(load, f[i]) <=> \E k \in 1..i : x \in Held(load, qs[k])
    BY <2>4, <2>5, <2>9 DEF q
  <2> QED BY <2>1, <2>9, <2>10
<1> HIDE DEF Good
<1>5. \A i \in 0..n : i \in Good
  BY <1>2, <1>3, <1>4, InductionUpTo
<1> QED BY <1>1, <1>2, <1>5 DEF Good

-----------------------------------------------------------------------------
(* Datagrams are told by their ids.  An interface has each one once, and    *)
(* what it does with it moves it.                                           *)

Receipts == [host : Hosts, datagram : Datagrams]

Ids        == [d \in Datagrams |-> {d.id}]
FrameIds   == [f \in Frames |-> IF f.type = "IPv4" THEN {f.datagram.id} ELSE {}]
WireIds    == [x \in Nics \X Frames |-> FrameIds[x[2]]]
ReceiptIds == [x \in Receipts |-> {x.datagram.id}]

PendingIds(pending) == UNION {Held(Ids, pending[ip]) : ip \in DOMAIN pending}

PendingOnce(pending) ==
  /\ \A ip \in DOMAIN pending : Apart(Ids, pending[ip])
  /\ \A ip, jp \in DOMAIN pending :
       ip # jp => Held(Ids, pending[ip]) \cap Held(Ids, pending[jp]) = {}

NicIds(n) == Held(Ids, n.datagrams_in) \union PendingIds(n.pending)

NicOnce(n) ==
  /\ Apart(Ids, n.datagrams_in)
  /\ PendingOnce(n.pending)
  /\ Held(Ids, n.datagrams_in) \cap PendingIds(n.pending) = {}

\* Interface n that gets the datagrams X becomes m and transmits out.
Moves(n, X, m, out) ==
  /\ NicOnce(m)
  /\ Apart(FrameIds, out)
  /\ NicIds(m) \union Held(FrameIds, out) \subseteq NicIds(n) \union X
  /\ NicIds(m) \cap Held(FrameIds, out) = {}

\* What waits for one address, and what waits for the others.
LEMMA WaitingIds ==
  ASSUME NEW n, NEW ip
  PROVE  /\ Held(Ids, Waiting(n, ip)) \subseteq PendingIds(n.pending)
         /\ PendingOnce(n.pending) =>
              /\ Apart(Ids, Waiting(n, ip))
              /\ \A jp \in DOMAIN n.pending :
                   jp # ip => Held(Ids, Waiting(n, ip)) \cap Held(Ids, n.pending[jp]) = {}
<1>1. CASE ip \in DOMAIN n.pending
  <2>1. Waiting(n, ip) = n.pending[ip]
    BY <1>1 DEF Waiting
  <2> QED BY <1>1, <2>1 DEF PendingIds, PendingOnce
<1>2. CASE ip \notin DOMAIN n.pending
  <2>1. Waiting(n, ip) = <<>>
    BY <1>2 DEF Waiting
  <2> QED BY <2>1, HeldByNone
<1> QED BY <1>1, <1>2

\* A frame with a datagram holds its id.
LEMMA FrameHolds ==
  ASSUME NEW n, NEW d \in Datagrams, NEW mac, IPv4Frame(n, mac, d) \in Frames
  PROVE  FrameIds[IPv4Frame(n, mac, d)] = {d.id}
BY DEF FrameIds, IPv4Frame

\* An ARP message holds none.
LEMMA ARPHoldsNothing ==
  ASSUME NEW f \in ARPFrames
  PROVE  FrameIds[f] = {}
BY DEF FrameIds, ARPFrames, Frames

\* send_datagram() transmits the datagram or lets it wait, not both.
LEMMA SendMoves ==
  ASSUME NEW n, NEW name \in Nics, Sound(n, name), NicOnce(n),
         NEW hop \in Addresses, NEW d \in For(hop), d.id \notin NicIds(n)
  PROVE  Moves(n, {d.id}, SendDatagram(n, d, hop), SendDatagramTransmits(n, d, hop))
<1> DEFINE m   == SendDatagram(n, d, hop)
           out == SendDatagramTransmits(n, d, hop)
<1>1. d \in Datagrams /\ Ids[d] = {d.id}
  BY DEF For, Ids
<1>2. out \in Seq(Frames)
  BY SendIsSound
<1>3. CASE hop \in DOMAIN n.arp_cache
  <2> DEFINE f == IPv4Frame(n, n.arp_cache[hop].mac, d)
  <2>1. m = n /\ out = << f >>
    BY <1>3 DEF SendDatagram, SendDatagramTransmits
  <2>2. f \in Frames
    <3> HIDE DEF f, out
    <3>1. << f >> \in Seq(Frames)
      BY <1>2, <2>1
    <3>2. << f >>[1] = f /\ 1 \in 1..Len(<< f >>)
      OBVIOUS
    <3> QED BY <3>1, <3>2, ElementOfSeq
  <2>3. FrameIds[f] = {d.id}
    BY <1>1, <2>2, FrameHolds
  <2> HIDE DEF f, out, m
  <2>4. Held(FrameIds, out) = {d.id} /\ Apart(FrameIds, out)
    BY <2>1, <2>3, HeldBySingle
  <2>5. Moves(n, {d.id}, m, out)
    BY <2>1, <2>4 DEF Moves
  <2> QED BY <2>5 DEF m, out
<1>4. CASE hop \notin DOMAIN n.arp_cache
  <2> DEFINE queue == Append(Waiting(n, hop), d)
             books == Put(n.pending, hop, queue)
             timer == IF MayAsk(n, hop) THEN Put(n.arp_timer, hop, 0) ELSE n.arp_timer
  <2>1. /\ m.pending = books /\ m.datagrams_in = n.datagrams_in
    <3>1. m = [n EXCEPT !.pending = books, !.arp_timer = timer]
      BY <1>4 DEF SendDatagram
    <3>2. n \in NetworkInterfaces
      BY DEF Sound
    <3> HIDE DEF books, timer, m
    <3> QED BY <3>1, <3>2 DEF NetworkInterfaces
  <2>2. /\ Held(Ids, queue) = Held(Ids, Waiting(n, hop)) \union {d.id}
        /\ Apart(Ids, queue)
    <3>1. Waiting(n, hop) \in Seq(Datagrams)
      BY Waits
    <3>2. /\ Apart(Ids, Waiting(n, hop))
          /\ Held(Ids, Waiting(n, hop)) \cap Ids[d] = {}
      BY <1>1, WaitingIds DEF NicOnce, NicIds
    <3> DEFINE w == Waiting(n, hop)
    <3> HIDE DEF w
    <3>3. /\ Held(Ids, Append(w, d)) = Held(Ids, w) \union Ids[d]
          /\ Apart(Ids, w) /\ Held(Ids, w) \cap Ids[d] = {} => Apart(Ids, Append(w, d))
      BY <1>1, <3>1, HeldWithOneMore DEF w
    <3> QED BY <1>1, <3>2, <3>3 DEF w
  <2>3. /\ DOMAIN books = DOMAIN n.pending \union {hop}
        /\ books[hop] = queue
        /\ \A ip \in DOMAIN n.pending : ip # hop => books[ip] = n.pending[ip]
    BY DEF Put
  <2>4. /\ PendingOnce(n.pending)
        /\ d.id \notin PendingIds(n.pending) /\ d.id \notin Held(Ids, n.datagrams_in)
        /\ Apart(Ids, n.datagrams_in)
        /\ Held(Ids, n.datagrams_in) \cap PendingIds(n.pending) = {}
    BY DEF NicOnce, NicIds
  <2> HIDE DEF queue, books, m
  <2>5. /\ Held(Ids, Waiting(n, hop)) \subseteq PendingIds(n.pending)
        /\ \A jp \in DOMAIN n.pending :
             jp # hop => Held(Ids, Waiting(n, hop)) \cap Held(Ids, n.pending[jp]) = {}
    BY <2>4, WaitingIds
  <2>6. \A ip \in DOMAIN n.pending : Held(Ids, n.pending[ip]) \subseteq PendingIds(n.pending)
    BY DEF PendingIds
  <2>7. PendingIds(books) \subseteq PendingIds(n.pending) \union {d.id}
    <3> SUFFICES ASSUME NEW ip \in DOMAIN books
                 PROVE  Held(Ids, books[ip]) \subseteq PendingIds(n.pending) \union {d.id}
      BY DEF PendingIds
    <3> QED BY <2>2, <2>3, <2>5, <2>6
  <2>8. PendingOnce(books)
    <3>1. \A ip \in DOMAIN books : Apart(Ids, books[ip])
      BY <2>2, <2>3, <2>4 DEF PendingOnce
    <3>2. ASSUME NEW ip \in DOMAIN books, ip # hop
          PROVE  /\ ip \in DOMAIN n.pending /\ books[ip] = n.pending[ip]
                 /\ Held(Ids, queue) \cap Held(Ids, books[ip]) = {}
      BY <2>2, <2>3, <2>4, <2>5, <2>6, <3>2
    <3>3. ASSUME NEW ip \in DOMAIN books, NEW jp \in DOMAIN books, ip # jp
          PROVE  Held(Ids, books[ip]) \cap Held(Ids, books[jp]) = {}
      <4>1. CASE ip = hop
        BY <2>3, <3>2, <3>3, <4>1
      <4>2. CASE jp = hop
        BY <2>3, <3>2, <3>3, <4>2
      <4>3. CASE ip # hop /\ jp # hop
        <5>1. /\ ip \in DOMAIN n.pending /\ jp \in DOMAIN n.pending
              /\ books[ip] = n.pending[ip] /\ books[jp] = n.pending[jp]
          BY <3>2, <4>3
        <5> QED BY <2>4, <3>3, <5>1 DEF PendingOnce
      <4> QED BY <4>1, <4>2, <4>3
    <3> QED BY <3>1, <3>3 DEF PendingOnce
  <2>9. NicOnce(m)
    BY <2>1, <2>4, <2>7, <2>8 DEF NicOnce
  <2>10. Held(FrameIds, out) = {} /\ Apart(FrameIds, out)
    <3>1. CASE out = <<>>
      BY <3>1, HeldByNone
    <3>2. CASE out = << ARPRequest(n, hop) >>
      <4>1. ARPRequest(n, hop) \in Frames /\ ARPRequest(n, hop).type = "ARP"
        BY RequestOK DEF ARPRequest
      <4>2. FrameIds[ARPRequest(n, hop)] = {}
        BY <4>1 DEF FrameIds
      <4> QED BY <3>2, <4>2, HeldBySingle
    <3> QED BY <1>4, <3>1, <3>2 DEF SendDatagramTransmits
  <2> HIDE DEF out
  <2>11. NicIds(m) \subseteq NicIds(n) \union {d.id}
    BY <2>1, <2>7 DEF NicIds
  <2>12. Moves(n, {d.id}, m, out)
    BY <2>9, <2>10, <2>11 DEF Moves
  <2> QED BY <2>12 DEF m, out
<1> QED BY <1>3, <1>4

\* What waited for an address leaves the map when it is transmitted.
LEMMA LearnMoves ==
  ASSUME NEW n, NEW name \in Nics, Sound(n, name), NicOnce(n), NEW mac \in Nics
  PROVE  Moves(n, {}, Learn(n, IpAddress[mac], mac), LearnTransmits(n, IpAddress[mac], mac))
<1> DEFINE ip    == IpAddress[mac]
           m     == Learn(n, ip, mac)
           out   == LearnTransmits(n, ip, mac)
           w     == Waiting(n, ip)
           cache == Put(n.arp_cache, ip, [mac |-> mac, ttl_ms |-> ARP_TTL_MS])
           timer == Restrict(n.arp_timer, DOMAIN n.arp_timer \ {ip})
           books == Restrict(n.pending, DOMAIN n.pending \ {ip})
<1>1. m.pending = books /\ m.datagrams_in = n.datagrams_in
  <2>1. m = [n EXCEPT !.arp_cache = cache, !.arp_timer = timer, !.pending = books]
    BY DEF Learn
  <2>2. n \in NetworkInterfaces
    BY DEF Sound
  <2> HIDE DEF cache, timer, books, m
  <2> QED BY <2>1, <2>2 DEF NetworkInterfaces
<1>2. /\ DOMAIN books = DOMAIN n.pending \ {ip}
      /\ \A y \in DOMAIN books : books[y] = n.pending[y]
  BY DEF Restrict
<1>3. w \in Seq(For(ip)) /\ out \in Seq(Frames)
  BY Waits, LearnIsSound
<1>4. Len(out) = Len(w) /\ \A k \in 1..Len(w) : FrameIds[out[k]] = Ids[w[k]]
  <2>1. out = [k \in DOMAIN w |-> IPv4Frame(n, mac, w[k])]
    BY DEF LearnTransmits
  <2> HIDE DEF w, ip, out
  <2>2. DOMAIN w = 1..Len(w) /\ Len(w) \in Nat
    BY <1>3
  <2>3. Len(out) = Len(w)
    BY <1>3, <2>1, <2>2
  <2>4. ASSUME NEW k \in 1..Len(w)
        PROVE  FrameIds[out[k]] = Ids[w[k]]
    <3>1. w[k] \in For(ip)
      BY <1>3
    <3>2. w[k] \in Datagrams
      BY <3>1 DEF For
    <3>3. IPv4Frame(n, mac, w[k]) \in Frames
      BY <3>1, DatagramFrameOK DEF ip
    <3>4. out[k] = IPv4Frame(n, mac, w[k])
      BY <2>1, <2>2
    <3>5. FrameIds[IPv4Frame(n, mac, w[k])] = {w[k].id}
      BY <3>2, <3>3, FrameHolds
    <3>6. Ids[w[k]] = {w[k].id}
      BY <3>2 DEF Ids
    <3> QED BY <3>4, <3>5, <3>6, Zenon
  <2> QED BY <2>3, <2>4
<1>5. Held(FrameIds, out) = Held(Ids, w) /\ (Apart(FrameIds, out) <=> Apart(Ids, w))
  <2> HIDE DEF w, out
  <2> QED BY <1>4, HeldAlike
<1>6. /\ PendingOnce(n.pending) /\ Apart(Ids, n.datagrams_in)
      /\ Held(Ids, n.datagrams_in) \cap PendingIds(n.pending) = {}
  BY DEF NicOnce
<1>7. /\ Held(Ids, w) \subseteq PendingIds(n.pending)
      /\ Apart(Ids, w)
      /\ \A jp \in DOMAIN n.pending :
           jp # ip => Held(Ids, w) \cap Held(Ids, n.pending[jp]) = {}
  BY <1>6, WaitingIds
<1> HIDE DEF m, out, w, books
<1>8. /\ PendingIds(books) \subseteq PendingIds(n.pending)
      /\ PendingIds(books) \cap Held(Ids, w) = {}
      /\ PendingOnce(books)
  <2>1. PendingIds(books) \subseteq PendingIds(n.pending)
    BY <1>2 DEF PendingIds
  <2>2. PendingIds(books) \cap Held(Ids, w) = {}
    BY <1>2, <1>7 DEF PendingIds
  <2>3. PendingOnce(books)
    BY <1>2, <1>6 DEF PendingOnce
  <2> QED BY <2>1, <2>2, <2>3
<1>9. NicOnce(m)
  BY <1>1, <1>6, <1>8 DEF NicOnce
<1>10. /\ NicIds(m) \union Held(FrameIds, out) \subseteq NicIds(n)
       /\ NicIds(m) \cap Held(FrameIds, out) = {}
  BY <1>1, <1>5, <1>6, <1>7, <1>8 DEF NicIds
<1>11. Moves(n, {}, m, out)
  BY <1>5, <1>7, <1>9, <1>10 DEF Moves
<1> QED BY <1>11 DEF m, out, ip

\* What an interface gets of a frame.
Gets(name, frame) == IF frame.dst = name THEN FrameIds[frame] ELSE {}

\* recv_frame() takes what the frame brings, once.
LEMMA RecvMoves ==
  ASSUME NEW n, NEW name \in Nics, Sound(n, name), NicOnce(n), NEW frame \in Frames,
         Gets(name, frame) \cap NicIds(n) = {}
  PROVE  Moves(n, Gets(name, frame), RecvFrame(n, frame), RecvFrameTransmits(n, frame))
<1> DEFINE m   == RecvFrame(n, frame)
           out == RecvFrameTransmits(n, frame)
           X   == Gets(name, frame)
<1>1. Held(FrameIds, <<>>) = {} /\ Apart(FrameIds, <<>>)
  BY HeldByNone
<1>2. CASE ~AddressedTo(n, frame)
  <2>1. m = n /\ out = <<>>
    BY <1>2 DEF RecvFrame, RecvFrameTransmits
  <2> QED BY <1>1, <2>1 DEF Moves
<1>3. CASE AddressedTo(n, frame) /\ frame \in DatagramFrames
  <2> DEFINE d     == frame.datagram
             queue == Append(n.datagrams_in, d)
  <2>1. frame.type = "IPv4" /\ frame.dst = name /\ d \in Datagrams
    BY <1>3, InternetAssumption DEF AddressedTo, DatagramFrames, Sound
  <2>2. X = Ids[d]
    BY <2>1 DEF Gets, FrameIds, Ids
  <2>3. m = [n EXCEPT !.datagrams_in = queue] /\ out = <<>>
    BY <1>3, <2>1 DEF RecvFrame, RecvFrameTransmits
  <2>4. n \in NetworkInterfaces
    BY DEF Sound
  <2>5. n.datagrams_in \in Seq(Datagrams)
    BY <2>4 DEF NetworkInterfaces
  <2>6. /\ Held(Ids, queue) = Held(Ids, n.datagrams_in) \union Ids[d]
        /\ Apart(Ids, n.datagrams_in) /\ Held(Ids, n.datagrams_in) \cap Ids[d] = {}
             => Apart(Ids, queue)
    <3> DEFINE old == n.datagrams_in
    <3>1. old \in Seq(Datagrams)
      BY <2>5
    <3> HIDE DEF old, d
    <3>2. /\ Held(Ids, Append(old, d)) = Held(Ids, old) \union Ids[d]
          /\ Apart(Ids, old) /\ Held(Ids, old) \cap Ids[d] = {} => Apart(Ids, Append(old, d))
      BY <2>1, <3>1, HeldWithOneMore
    <3> QED BY <3>2 DEF old
  <2> HIDE DEF queue, m, out, d, X
  <2>7. m.datagrams_in = queue /\ m.pending = n.pending
    BY <2>3, <2>4 DEF NetworkInterfaces
  <2>8. /\ PendingOnce(n.pending) /\ Apart(Ids, n.datagrams_in)
        /\ Held(Ids, n.datagrams_in) \cap PendingIds(n.pending) = {}
    BY DEF NicOnce
  <2>9. Ids[d] \cap NicIds(n) = {}
    BY <2>2 DEF X
  <2>10. NicOnce(m) /\ NicIds(m) \subseteq NicIds(n) \union X
    BY <2>2, <2>6, <2>7, <2>8, <2>9 DEF NicOnce, NicIds
  <2>11. Moves(n, X, m, out)
    BY <1>1, <2>3, <2>10 DEF Moves
  <2> QED BY <2>11 DEF X, m, out
<1>4. CASE AddressedTo(n, frame) /\ frame \in ARPFrames
  <2> DEFINE ip    == frame.sender_ip
             mac   == frame.sender_mac
             sent  == LearnTransmits(n, ip, mac)
             reply == IF Replies(n, frame) THEN << ARPReply(n, ip, mac) >> ELSE <<>>
  <2>1. frame.type = "ARP" /\ mac \in Nics /\ ip = IpAddress[mac] /\ ip \in Addresses
    BY <1>4 DEF ARPFrames
  <2>2. m = Learn(n, ip, mac) /\ out = sent \o reply
    BY <1>4, <2>1 DEF RecvFrame, RecvFrameTransmits
  <2>3. Moves(n, {}, m, sent)
    <3> HIDE DEF ip, mac, m
    <3> QED BY <2>1, <2>2, LearnMoves
  <2>4. sent \in Seq(Frames)
    <3> HIDE DEF ip, mac
    <3> QED BY <2>1, LearnIsSound
  <2>5. reply \in Seq(Frames) /\ Held(FrameIds, reply) = {} /\ Apart(FrameIds, reply)
    <3> DEFINE answer == ARPReply(n, ip, mac)
    <3>1. answer \in Frames /\ answer.type = "ARP"
      <4>1. ARPReply(n, ip, mac) \in Frames
        BY <2>1, ReplyOK
      <4> QED BY <4>1 DEF ARPReply
    <3> HIDE DEF answer
    <3>2. FrameIds[answer] = {}
      BY <3>1 DEF FrameIds
    <3>3. /\ << answer >> \in Seq(Frames) /\ <<>> \in Seq(Frames)
          /\ Held(FrameIds, << answer >>) = {} /\ Apart(FrameIds, << answer >>)
      BY <3>1, <3>2, HeldBySingle
    <3>4. reply = << answer >> \/ reply = <<>>
      BY DEF answer
    <3> HIDE DEF reply
    <3> QED BY <1>1, <3>3, <3>4
  <2>6. X = {}
    BY <1>4, ARPHoldsNothing DEF Gets
  <2> HIDE DEF m, out, sent, reply, X
  <2>7. /\ Held(FrameIds, sent \o reply) = Held(FrameIds, sent) \union Held(FrameIds, reply)
        /\ Apart(FrameIds, sent) => Apart(FrameIds, sent \o reply)
    <3>1. /\ Held(FrameIds, sent \o reply) = Held(FrameIds, sent) \union Held(FrameIds, reply)
          /\ Apart(FrameIds, sent) /\ Apart(FrameIds, reply)
               /\ Held(FrameIds, sent) \cap Held(FrameIds, reply) = {}
                 => Apart(FrameIds, sent \o reply)
      BY <2>4, <2>5, HeldByBoth
    <3> QED BY <2>5, <3>1
  <2>8. Moves(n, X, m, out)
    BY <2>2, <2>3, <2>5, <2>6, <2>7 DEF Moves
  <2> QED BY <2>8 DEF X, m, out
<1> QED BY <1>2, <1>3, <1>4 DEF Frames

\* ARP messages are no datagrams.
LEMMA ARPMessagesHoldNothing ==
  ASSUME NEW frames \in Seq(ARPFrames)
  PROVE  Held(FrameIds, frames) = {} /\ Apart(FrameIds, frames)
<1>1. \A k \in 1..Len(frames) : FrameIds[frames[k]] = {}
  BY ElementOfSeq, ARPHoldsNothing
<1> QED BY <1>1 DEF Held, Apart

\* tick() drops what waits and transmits no datagram.
LEMMA TickMoves ==
  ASSUME NEW n, NEW name \in Nics, Sound(n, name), NicOnce(n), NEW ms \in Nat,
         NEW frames \in Seq(ARPFrames)
  PROVE  Moves(n, {}, InterfaceTick(n, ms), frames)
<1> DEFINE m     == InterfaceTick(n, ms)
           again == Retries(n, ms)
           cache == Aged(n.arp_cache, ms)
           timer == [ip \in DOMAIN n.arp_timer |->
                       IF ip \in again THEN 0 ELSE n.arp_timer[ip] + ms]
           books == [ip \in DOMAIN n.pending |->
                       IF ip \in again THEN <<>> ELSE n.pending[ip]]
<1>1. m.pending = books /\ m.datagrams_in = n.datagrams_in
  <2>1. m = [n EXCEPT !.arp_cache = cache, !.arp_timer = timer, !.pending = books]
    BY DEF InterfaceTick
  <2>2. n \in NetworkInterfaces
    BY DEF Sound
  <2> HIDE DEF cache, timer, books, m
  <2> QED BY <2>1, <2>2 DEF NetworkInterfaces
<1>2. Held(Ids, <<>>) = {} /\ Apart(Ids, <<>>)
  BY HeldByNone
<1>3. /\ DOMAIN books = DOMAIN n.pending
      /\ \A ip \in DOMAIN books : books[ip] = <<>> \/ books[ip] = n.pending[ip]
  OBVIOUS
<1> HIDE DEF m, books
<1>4. /\ PendingOnce(n.pending) /\ Apart(Ids, n.datagrams_in)
      /\ Held(Ids, n.datagrams_in) \cap PendingIds(n.pending) = {}
  BY DEF NicOnce
<1>5. PendingIds(books) \subseteq PendingIds(n.pending)
  BY <1>2, <1>3 DEF PendingIds
<1>6. PendingOnce(books)
  BY <1>2, <1>3, <1>4 DEF PendingOnce
<1>7. NicOnce(m) /\ NicIds(m) \subseteq NicIds(n)
  BY <1>1, <1>4, <1>5, <1>6 DEF NicOnce, NicIds
<1>8. Held(FrameIds, frames) = {} /\ Apart(FrameIds, frames)
  BY ARPMessagesHoldNothing
<1> QED BY <1>7, <1>8 DEF Moves, m

\* The queue of what has arrived gets shorter.
LEMMA QueueMoves ==
  ASSUME NEW n, NEW name \in Nics, Sound(n, name), NicOnce(n)
  PROVE  /\ LET m == [n EXCEPT !.datagrams_in = <<>>]
            IN  /\ NicOnce(m) /\ NicIds(m) \subseteq NicIds(n)
                /\ NicIds(m) \cap Held(Ids, n.datagrams_in) = {}
                /\ Held(Ids, n.datagrams_in) \subseteq NicIds(n)
         /\ n.datagrams_in # <<>> =>
              LET m  == [n EXCEPT !.datagrams_in = Tail(@)]
                  id == Head(n.datagrams_in).id
              IN  /\ NicOnce(m) /\ NicIds(m) \subseteq NicIds(n)
                  /\ id \in NicIds(n) /\ id \notin NicIds(m)
<1>1. n \in NetworkInterfaces /\ n.datagrams_in \in Seq(Datagrams)
  BY DEF Sound, NetworkInterfaces
<1>2. /\ PendingOnce(n.pending) /\ Apart(Ids, n.datagrams_in)
      /\ Held(Ids, n.datagrams_in) \cap PendingIds(n.pending) = {}
  BY DEF NicOnce
<1>3. ASSUME NEW q, NEW m, m = [n EXCEPT !.datagrams_in = q],
             Apart(Ids, q), Held(Ids, q) \subseteq Held(Ids, n.datagrams_in)
      PROVE  /\ NicOnce(m) /\ NicIds(m) \subseteq NicIds(n)
             /\ NicIds(m) = Held(Ids, q) \union PendingIds(n.pending)
  <2>1. m.datagrams_in = q /\ m.pending = n.pending
    BY <1>1, <1>3 DEF NetworkInterfaces
  <2> QED BY <1>2, <1>3, <2>1 DEF NicOnce, NicIds
<1>4. LET m == [n EXCEPT !.datagrams_in = <<>>]
      IN  /\ NicOnce(m) /\ NicIds(m) \subseteq NicIds(n)
          /\ NicIds(m) \cap Held(Ids, n.datagrams_in) = {}
          /\ Held(Ids, n.datagrams_in) \subseteq NicIds(n)
  <2> DEFINE m == [n EXCEPT !.datagrams_in = <<>>]
  <2>1. Held(Ids, <<>>) = {} /\ Apart(Ids, <<>>)
    BY HeldByNone
  <2>2. m = [n EXCEPT !.datagrams_in = <<>>]
    OBVIOUS
  <2> HIDE DEF m
  <2>3. /\ NicOnce(m) /\ NicIds(m) \subseteq NicIds(n)
        /\ NicIds(m) = Held(Ids, <<>>) \union PendingIds(n.pending)
    BY <1>3, <2>1, <2>2
  <2>4. Held(Ids, n.datagrams_in) \subseteq NicIds(n)
    BY DEF NicIds
  <2> QED BY <1>2, <2>1, <2>3, <2>4 DEF m
<1>5. ASSUME n.datagrams_in # <<>>
      PROVE  LET m  == [n EXCEPT !.datagrams_in = Tail(@)]
                 id == Head(n.datagrams_in).id
             IN  /\ NicOnce(m) /\ NicIds(m) \subseteq NicIds(n)
                 /\ id \in NicIds(n) /\ id \notin NicIds(m)
  <2> DEFINE q  == n.datagrams_in
             t  == Tail(q)
             d  == Head(q)
             m  == [n EXCEPT !.datagrams_in = t]
  <2>1. q \in Seq(Datagrams) /\ q # <<>>
    BY <1>1, <1>5
  <2>2. m = [n EXCEPT !.datagrams_in = t] /\ m = [n EXCEPT !.datagrams_in = Tail(@)]
    OBVIOUS
  <2> HIDE DEF m
  <2>3. d \in Datagrams
    <3> HIDE DEF q
    <3> QED BY <2>1, HeadTailProperties
  <2>4. Ids[d] = {d.id}
    <3> HIDE DEF d
    <3> QED BY <2>3 DEF Ids
  <2>5. /\ Held(Ids, q) = Ids[d] \union Held(Ids, t)
        /\ Apart(Ids, t) /\ Ids[d] \cap Held(Ids, t) = {}
    <3>1. Apart(Ids, q)
      BY <1>2
    <3> HIDE DEF q
    <3> QED BY <2>1, <3>1, HeldByTail
  <2> HIDE DEF t, d
  <2>6. /\ NicOnce(m) /\ NicIds(m) \subseteq NicIds(n)
        /\ NicIds(m) = Held(Ids, t) \union PendingIds(n.pending)
    BY <1>3, <2>2, <2>5
  <2>7. d.id \in NicIds(n) /\ d.id \notin NicIds(m)
    BY <1>2, <2>4, <2>5, <2>6 DEF NicIds
  <2> QED BY <2>2, <2>6, <2>7 DEF d
<1> QED BY <1>4, <1>5

-----------------------------------------------------------------------------
(* Nothing is at two places: interfaces, segments, and what hosts took.     *)

NicsOnce(ns) ==
  /\ \A n \in Nics : NicOnce(ns[n])
  /\ \A m, n \in Nics : m # n => NicIds(ns[m]) \cap NicIds(ns[n]) = {}

InNics(ns) == UNION {NicIds(ns[n]) : n \in Nics}

WiresOnce(ws) ==
  /\ \A s \in Segments : Apart(WireIds, ws[s])
  /\ \A s, t \in Segments :
       s # t => Held(WireIds, ws[s]) \cap Held(WireIds, ws[t]) = {}

OnWires(ws) == UNION {Held(WireIds, ws[s]) : s \in Segments}

Once(ns, ws, rc) ==
  /\ NicsOnce(ns) /\ WiresOnce(ws) /\ Apart(ReceiptIds, rc)
  /\ InNics(ns) \cap OnWires(ws) = {}
  /\ InNics(ns) \cap Held(ReceiptIds, rc) = {}
  /\ OnWires(ws) \cap Held(ReceiptIds, rc) = {}

Anywhere(ns, ws, rc) == InNics(ns) \union OnWires(ws) \union Held(ReceiptIds, rc)

OnceInv ==
  /\ Once(nics, wires, received)
  /\ Anywhere(nics, wires, received) \subseteq 1..Len(launched)

\* Frames hold the same once they are on a segment.
LEMMA SentByMoves ==
  ASSUME NEW n \in Nics, NEW frames \in Seq(Frames)
  PROVE  /\ Held(WireIds, SentBy(n, frames)) = Held(FrameIds, frames)
         /\ Apart(WireIds, SentBy(n, frames)) <=> Apart(FrameIds, frames)
<1> DEFINE w == SentBy(n, frames)
<1>1. Len(w) = Len(frames) /\ \A k \in 1..Len(frames) : w[k] = << n, frames[k] >>
  BY SentByIsWire
<1>2. ASSUME NEW k \in 1..Len(frames)
      PROVE  WireIds[w[k]] = FrameIds[frames[k]]
  <2>1. frames[k] \in Frames
    OBVIOUS
  <2>2. << n, frames[k] >> \in Nics \X Frames /\ << n, frames[k] >>[2] = frames[k]
    BY <2>1
  <2> HIDE DEF w
  <2> QED BY <1>1, <2>2 DEF WireIds
<1> HIDE DEF w
<1>3. /\ Held(WireIds, w) = Held(FrameIds, frames)
      /\ Apart(WireIds, w) <=> Apart(FrameIds, frames)
  BY <1>1, <1>2, HeldAlike
<1> QED BY <1>3 DEF w

\* What a segment drops or carries elsewhere it does not have.
LEMMA CarryMoves ==
  ASSUME NEW ws \in [Segments -> Wires], NEW frames \in Wires,
         WiresOnce(ws), Apart(WireIds, frames),
         OnWires(ws) \cap Held(WireIds, frames) = {}
  PROVE  /\ WiresOnce(Carry(ws, frames))
         /\ OnWires(Carry(ws, frames)) \subseteq OnWires(ws) \union Held(WireIds, frames)
<1> DEFINE T     == Nics \X Frames
           W     == WireIds
           on(s) == Onto(s, frames)
           new   == Carry(ws, frames)
<1>1. frames \in Seq(T) /\ \A s \in Segments : ws[s] \in Seq(T)
  BY DEF Wires
<1> HIDE DEF T
<1>2. ASSUME NEW s \in Segments
      PROVE  /\ on(s) \in Seq(T)
             /\ Apart(W, on(s))
             /\ \A x \in Held(W, on(s)) :
                  \E i \in 1..Len(frames) : x \in W[frames[i]] /\ SegmentOf(frames[i][1]) = s
  <2> DEFINE S == {f \in ToSet(frames) : SegmentOf(f[1]) = s}
             p == Selected(frames, S)
  <2>1. on(s) = p
    BY DEF Onto
  <2>2. \A f \in S : SegmentOf(f[1]) = s
    OBVIOUS
  <2> HIDE DEF S
  <2>3. p \in Seq(T)
    BY <1>1, SelectedEmbeds
  <2>4. PICK e : Embeds(e, p, frames, Len(frames), S)
    BY <1>1, SelectedEmbeds
  <2> HIDE DEF p, on
  <2>5. Len(p) \in Nat
    BY <2>3
  <2>6. Apart(W, p)
    BY <2>4, <2>5, HeldByPart
  <2>7. ASSUME NEW x \in Held(W, p)
        PROVE  \E i \in 1..Len(frames) : x \in W[frames[i]] /\ SegmentOf(frames[i][1]) = s
    <3>1. PICK k \in 1..Len(p) : x \in W[p[k]]
      BY HeldByOne
    <3>2. e[k] \in 1..Len(frames) /\ p[k] = frames[e[k]] /\ p[k] \in S
      BY <2>4 DEF Embeds
    <3>3. x \in W[frames[e[k]]] /\ SegmentOf(frames[e[k]][1]) = s
      BY <2>2, <3>1, <3>2
    <3> QED BY <3>2, <3>3
  <2> QED BY <2>1, <2>3, <2>6, <2>7
<1>3. ASSUME NEW s \in Segments
      PROVE  Held(W, on(s)) \subseteq Held(W, frames)
  BY <1>2, HeldByOne
<1> HIDE DEF on, new, W
<1>4. ASSUME NEW s \in Segments
      PROVE  Apart(W, new[s]) /\ Held(W, new[s]) \subseteq Held(W, ws[s]) \union Held(W, on(s))
  <2> DEFINE q == ws[s] \o on(s)
             p == Clipped(q)
             e == [k \in 1..Len(p) |-> k]
  <2>1. new[s] = p
    BY CarryIsWires DEF new, on
  <2>2. q \in Seq(T)
    BY <1>1, <1>2, ConcatProperties
  <2>3. /\ Held(W, q) = Held(W, ws[s]) \union Held(W, on(s))
        /\ Apart(W, q)
    <3>1. Apart(W, ws[s]) /\ Held(W, ws[s]) \subseteq OnWires(ws)
      BY DEF WiresOnce, OnWires, W
    <3>2. Held(W, ws[s]) \cap Held(W, on(s)) = {}
      BY <1>3, <3>1 DEF W
    <3> QED BY <1>1, <1>2, <3>1, <3>2, HeldByBoth
  <2> HIDE DEF q
  <2>4. /\ p \in Seq(T) /\ Len(p) <= Len(q)
        /\ \A k \in 1..Len(p) : p[k] = q[k]
    BY <2>2, ClippedIsPrefix
  <2> HIDE DEF p
  <2>5. Len(p) \in Nat /\ Len(q) \in Nat /\ \A k \in 1..Len(p) : p[k] \in T
    BY <2>2, <2>4
  <2>6. Embeds(e, p, q, Len(q), T)
    BY <2>4, <2>5 DEF Embeds
  <2> HIDE DEF e
  <2>7. Held(W, p) \subseteq Held(W, q) /\ Apart(W, p)
    BY <2>3, <2>5, <2>6, HeldByPart
  <2> QED BY <2>1, <2>3, <2>7
<1>5. ASSUME NEW s \in Segments, NEW t \in Segments, s # t
      PROVE  Held(W, new[s]) \cap Held(W, new[t]) = {}
  <2> SUFFICES ASSUME NEW x, x \in Held(W, new[s]), x \in Held(W, new[t]) PROVE FALSE
    OBVIOUS
  <2>1. /\ x \in Held(W, ws[s]) \/ x \in Held(W, on(s))
        /\ x \in Held(W, ws[t]) \/ x \in Held(W, on(t))
    BY <1>4
  <2>2. /\ Held(W, ws[s]) \subseteq OnWires(ws) /\ Held(W, ws[t]) \subseteq OnWires(ws)
        /\ Held(W, ws[s]) \cap Held(W, ws[t]) = {}
    BY <1>5 DEF OnWires, WiresOnce, W
  <2>3. x \in Held(W, on(s)) /\ x \in Held(W, on(t))
    BY <1>3, <2>1, <2>2 DEF W
  <2>4. PICK i \in 1..Len(frames) : x \in W[frames[i]] /\ SegmentOf(frames[i][1]) = s
    BY <1>2, <2>3
  <2>5. PICK j \in 1..Len(frames) : x \in W[frames[j]] /\ SegmentOf(frames[j][1]) = t
    BY <1>2, <2>3
  <2>6. i # j
    BY <1>5, <2>4, <2>5
  <2> QED BY <2>4, <2>5, <2>6 DEF Apart, W
<1>6. OnWires(new) \subseteq OnWires(ws) \union Held(W, frames)
  BY <1>3, <1>4 DEF OnWires, W
<1> QED BY <1>4, <1>5, <1>6 DEF WiresOnce, new, W

\* Interfaces that pass on what they have and what is new to the network, X.
LEMMA MoveOn ==
  ASSUME NEW ns, NEW ws \in [Segments -> Wires], NEW rc, Once(ns, ws, rc),
         NEW X, X \cap Anywhere(ns, ws, rc) = {},
         NEW ms, NEW frames \in Wires, NicsOnce(ms), Apart(WireIds, frames),
         InNics(ms) \union Held(WireIds, frames) \subseteq InNics(ns) \union X,
         InNics(ms) \cap Held(WireIds, frames) = {}
  PROVE  /\ Once(ms, Carry(ws, frames), rc)
         /\ Anywhere(ms, Carry(ws, frames), rc) \subseteq Anywhere(ns, ws, rc) \union X
<1>1. OnWires(ws) \cap Held(WireIds, frames) = {}
  BY DEF Once, Anywhere
<1>2. /\ WiresOnce(Carry(ws, frames))
      /\ OnWires(Carry(ws, frames)) \subseteq OnWires(ws) \union Held(WireIds, frames)
  BY <1>1, CarryMoves DEF Once
<1> DEFINE new == Carry(ws, frames)
<1> HIDE DEF new
<1>3. WiresOnce(new) /\ OnWires(new) \subseteq OnWires(ws) \union Held(WireIds, frames)
  BY <1>2 DEF new
<1>4. Once(ms, new, rc)
  BY <1>3 DEF Once, Anywhere
<1>5. Anywhere(ms, new, rc) \subseteq Anywhere(ns, ws, rc) \union X
  BY <1>3 DEF Anywhere
<1> QED BY <1>4, <1>5 DEF new

\* One interface that does.
LEMMA OneMovesOn ==
  ASSUME NEW ns \in [Nics -> NetworkInterfaces], NicsOnce(ns), NEW n \in Nics,
         NEW X, X \cap InNics(ns) = {}, NEW m, NEW out, Moves(ns[n], X, m, out)
  PROVE  LET ms == [ns EXCEPT ![n] = m]
         IN  /\ NicsOnce(ms)
             /\ InNics(ms) \union Held(FrameIds, out) \subseteq InNics(ns) \union X
             /\ InNics(ms) \cap Held(FrameIds, out) = {}
<1> DEFINE ms == [ns EXCEPT ![n] = m]
<1>1. /\ ms[n] = m
      /\ \A i \in Nics : i # n => ms[i] = ns[i]
  OBVIOUS
<1> HIDE DEF ms
<1>2. /\ NicOnce(m)
      /\ NicIds(m) \subseteq NicIds(ns[n]) \union X
      /\ Held(FrameIds, out) \subseteq NicIds(ns[n]) \union X
      /\ NicIds(m) \cap Held(FrameIds, out) = {}
  BY DEF Moves
<1>3. \A i \in Nics : NicIds(ns[i]) \subseteq InNics(ns) /\ NicIds(ns[i]) \cap X = {}
  BY DEF InNics
<1>4. \A i \in Nics : i # n => NicIds(ns[i]) \cap NicIds(ns[n]) = {}
  BY DEF NicsOnce
<1>5. \A i \in Nics : i # n => /\ NicIds(ms[i]) \cap NicIds(m) = {}
                               /\ NicIds(ms[i]) \cap Held(FrameIds, out) = {}
  BY <1>1, <1>2, <1>3, <1>4
<1>6. NicsOnce(ms)
  <2>1. \A i \in Nics : NicOnce(ms[i])
    BY <1>1, <1>2 DEF NicsOnce
  <2>2. ASSUME NEW i \in Nics, NEW j \in Nics, i # j
        PROVE  NicIds(ms[i]) \cap NicIds(ms[j]) = {}
    <3>1. CASE i = n
      BY <1>1, <1>5, <2>2, <3>1
    <3>2. CASE j = n
      BY <1>1, <1>5, <2>2, <3>2
    <3>3. CASE i # n /\ j # n
      BY <1>1, <2>2, <3>3 DEF NicsOnce
    <3> QED BY <3>1, <3>2, <3>3
  <2> QED BY <2>1, <2>2 DEF NicsOnce
<1>7. \A i \in Nics : NicIds(ms[i]) \subseteq InNics(ns) \union X
  BY <1>1, <1>2, <1>3
<1>8. InNics(ms) \union Held(FrameIds, out) \subseteq InNics(ns) \union X
  BY <1>2, <1>3, <1>7 DEF InNics
<1>9. InNics(ms) \cap Held(FrameIds, out) = {}
  BY <1>1, <1>2, <1>5 DEF InNics
<1> QED BY <1>6, <1>8, <1>9 DEF ms

\* What route() has so far: each datagram once.
Tidy(v) ==
  /\ NicsOnce(v.nics) /\ Apart(WireIds, v.frames)
  /\ InNics(v.nics) \cap Held(WireIds, v.frames) = {}

IdsIn(v) == InNics(v.nics) \union Held(WireIds, v.frames)

\* What is forwarded was nowhere else, and is in one place afterwards.
LEMMA ForwardMoves ==
  ASSUME NEW r \in Routers, NEW rt \in RoutersOf(r), NEW v \in Results, Tidy(v),
         NEW d \in Datagrams, d.id \notin IdsIn(v)
  PROVE  Tidy(Forward(rt, v, d)) /\ IdsIn(Forward(rt, v, d)) \subseteq IdsIn(v) \union {d.id}
<1>1. CASE Forward(rt, v, d) = v
  BY <1>1
<1>2. ASSUME NEW i \in Nics, NEW hop \in Addresses,
             Older(d) \in For(hop), Older(d).id = d.id,
             Forward(rt, v, d) = Sends(i, hop, v, Older(d))
      PROVE  Tidy(Forward(rt, v, d)) /\ IdsIn(Forward(rt, v, d)) \subseteq IdsIn(v) \union {d.id}
  <2> DEFINE old == Older(d)
             n   == v.nics[i]
             m   == SendDatagram(n, old, hop)
             out == SendDatagramTransmits(n, old, hop)
             ns  == [v.nics EXCEPT ![i] = m]
             sb  == SentBy(i, out)
             fs  == v.frames \o sb
             w   == Forward(rt, v, d)
  <2>1. v.nics \in [Nics -> NetworkInterfaces] /\ v.frames \in Wires /\ AllSound(v.nics)
    BY DEF Results
  <2>2. Sound(n, i) /\ NicOnce(n) /\ d.id \notin NicIds(n)
    BY <2>1 DEF AllSound, Tidy, NicsOnce, IdsIn, InNics
  <2>3. w.nics = ns /\ w.frames = fs
    <3>1. w = [nics |-> ns, frames |-> fs]
      BY <1>2, Zenon DEF Sends
    <3> HIDE DEF w, ns, fs
    <3> QED BY <3>1
  <2>4. old \in For(hop) /\ old.id = d.id
    BY <1>2
  <2> HIDE DEF old, w
  <2>5. Moves(n, {d.id}, m, out) /\ out \in Seq(Frames)
    <3> HIDE DEF n
    <3>1. old.id \notin NicIds(n)
      BY <2>2, <2>4
    <3>2. Moves(n, {old.id}, m, out)
      BY <2>2, <2>4, <3>1, SendMoves
    <3> QED BY <2>2, <2>4, <3>2, SendIsSound
  <2>6. /\ NicsOnce(ns)
        /\ InNics(ns) \union Held(FrameIds, out) \subseteq InNics(v.nics) \union {d.id}
        /\ InNics(ns) \cap Held(FrameIds, out) = {}
    <3>1. {d.id} \cap InNics(v.nics) = {}
      BY DEF IdsIn
    <3>2. Moves(v.nics[i], {d.id}, m, out)
      BY <2>5
    <3>3. NicsOnce(v.nics)
      BY DEF Tidy
    <3> HIDE DEF m, out, n
    <3> QED BY <2>1, <3>1, <3>2, <3>3, OneMovesOn
  <2> HIDE DEF m, out, n
  <2>7. sb \in Wires /\ Held(WireIds, sb) = Held(FrameIds, out) /\ Apart(WireIds, sb)
    <3>1. Apart(FrameIds, out)
      BY <2>5 DEF Moves
    <3> QED BY <2>5, <3>1, SentByIsWire, SentByMoves
  <2> HIDE DEF ns, sb
  <2>8. /\ Held(WireIds, v.frames) \cap InNics(v.nics) = {}
        /\ d.id \notin Held(WireIds, v.frames) /\ Apart(WireIds, v.frames)
    BY DEF Tidy, IdsIn
  <2>9. Held(WireIds, v.frames) \cap Held(WireIds, sb) = {}
    BY <2>6, <2>7, <2>8
  <2>10. Held(WireIds, fs) = Held(WireIds, v.frames) \union Held(WireIds, sb)
         /\ Apart(WireIds, fs)
    BY <2>1, <2>7, <2>8, <2>9, HeldByBoth DEF Wires
  <2> HIDE DEF fs
  <2>11. InNics(ns) \cap Held(WireIds, fs) = {}
    BY <2>6, <2>7, <2>8, <2>10
  <2>12. InNics(ns) \union Held(WireIds, fs) \subseteq IdsIn(v) \union {d.id}
    BY <2>6, <2>7, <2>10 DEF IdsIn
  <2>13. Tidy(w) /\ IdsIn(w) \subseteq IdsIn(v) \union {d.id}
    BY <2>3, <2>6, <2>10, <2>11, <2>12 DEF Tidy, IdsIn
  <2> QED BY <2>13 DEF w
<1> QED BY <1>1, <1>2, ForwardSends

\* What has arrived is in no interface any more.
LEMMA EmptiedMoves ==
  ASSUME NEW r \in Routers, NEW rt \in RoutersOf(r), NEW ns, AllSound(ns), NicsOnce(ns)
  PROVE  /\ Tidy(Emptied(rt, ns))
         /\ Apart(Ids, Arrived(rt, ns))
         /\ IdsIn(Emptied(rt, ns)) \union Held(Ids, Arrived(rt, ns)) \subseteq InNics(ns)
         /\ IdsIn(Emptied(rt, ns)) \cap Held(Ids, Arrived(rt, ns)) = {}
<1> DEFINE q  == rt.interfaces
           qs == Queues(rt, ns)
           v  == Emptied(rt, ns)
           ms == v.nics
<1>1. /\ q \in Seq(Nics) /\ IsInjective(q)
      /\ qs \in Seq(Seq(Datagrams)) /\ Arrived(rt, ns) = FlattenSeq(qs)
  <2>1. IsInjective(Interfaces[r])
    BY InternetAssumption
  <2> QED BY <2>1, ArrivedIsSeq
<1>2. Len(qs) = Len(q) /\ \A k \in 1..Len(q) : qs[k] = ns[q[k]].datagrams_in
  <2>1. DOMAIN q = 1..Len(q) /\ DOMAIN qs = 1..Len(qs) /\ Len(q) \in Nat /\ Len(qs) \in Nat
    BY <1>1
  <2>2. DOMAIN qs = DOMAIN q /\ \A k \in DOMAIN q : qs[k] = ns[q[k]].datagrams_in
    BY DEF Queues
  <2> HIDE DEF q, qs
  <2>3. \A m, n \in Nat : 1..m = 1..n => m = n
    <3>1. \A m, n \in Nat : m < n => n \in 1..n /\ n \notin 1..m
      OBVIOUS
    <3>2. \A m, n \in Nat : m = n \/ m < n \/ n < m
      OBVIOUS
    <3> QED BY <3>1, <3>2, Zenon
  <2> QED BY <2>1, <2>2, <2>3, Zenon
<1>3. v.frames = <<>>
  BY DEF Emptied
<1>4. \A n \in Nics : ms[n] = IF n \in ToSet(q) THEN [ns[n] EXCEPT !.datagrams_in = <<>>]
                              ELSE ns[n]
  BY EmptiedIsSound
<1> HIDE DEF v, ms, q, qs
<1>5. \A n : n \in ToSet(q) <=> \E k \in 1..Len(q) : q[k] = n
  BY <1>1 DEF ToSet
<1>6. \A j, k \in 1..Len(q) : j # k => q[j] # q[k]
  BY <1>1 DEF IsInjective
<1>7. ASSUME NEW n \in Nics
      PROVE  /\ NicOnce(ms[n]) /\ NicIds(ms[n]) \subseteq NicIds(ns[n])
             /\ n \in ToSet(q) => NicIds(ms[n]) \cap Held(Ids, ns[n].datagrams_in) = {}
             /\ Held(Ids, ns[n].datagrams_in) \subseteq NicIds(ns[n])
             /\ Apart(Ids, ns[n].datagrams_in)
  <2>1. Sound(ns[n], n) /\ NicOnce(ns[n])
    BY DEF AllSound, NicsOnce
  <2> DEFINE m == [ns[n] EXCEPT !.datagrams_in = <<>>]
  <2>2. /\ NicOnce(m) /\ NicIds(m) \subseteq NicIds(ns[n])
        /\ NicIds(m) \cap Held(Ids, ns[n].datagrams_in) = {}
        /\ Held(Ids, ns[n].datagrams_in) \subseteq NicIds(ns[n])
    BY <2>1, QueueMoves
  <2>3. ms[n] = IF n \in ToSet(q) THEN m ELSE ns[n]
    BY <1>4
  <2>4. Apart(Ids, ns[n].datagrams_in)
    BY <2>1 DEF NicOnce
  <2> HIDE DEF m
  <2> QED BY <2>1, <2>2, <2>3, <2>4
<1>8. \A i, j \in Nics : i # j => NicIds(ns[i]) \cap NicIds(ns[j]) = {}
  BY DEF NicsOnce
<1>9. NicsOnce(ms)
  <2>1. ASSUME NEW i \in Nics, NEW j \in Nics, i # j
        PROVE  NicIds(ms[i]) \cap NicIds(ms[j]) = {}
    <3>1. NicIds(ms[i]) \subseteq NicIds(ns[i]) /\ NicIds(ms[j]) \subseteq NicIds(ns[j])
      BY <1>7
    <3> QED BY <1>8, <2>1, <3>1
  <2> QED BY <1>7, <2>1 DEF NicsOnce
<1>10. /\ Apart(Ids, FlattenSeq(qs))
       /\ \A x : x \in Held(Ids, FlattenSeq(qs)) <=>
                   \E k \in 1..Len(qs) : x \in Held(Ids, qs[k])
  <2>1. \A k \in 1..Len(q) : q[k] \in Nics
    BY <1>1, ElementOfSeq
  <2>2. \A k \in 1..Len(qs) : Apart(Ids, qs[k])
    BY <1>2, <1>7, <2>1
  <2>3. ASSUME NEW j \in 1..Len(qs), NEW k \in 1..Len(qs), j # k
        PROVE  Held(Ids, qs[j]) \cap Held(Ids, qs[k]) = {}
    <3>1. q[j] \in Nics /\ q[k] \in Nics /\ q[j] # q[k]
      BY <1>2, <1>6, <2>1, <2>3
    <3>2. /\ Held(Ids, qs[j]) \subseteq NicIds(ns[q[j]])
          /\ Held(Ids, qs[k]) \subseteq NicIds(ns[q[k]])
      BY <1>2, <1>7, <3>1
    <3> QED BY <1>8, <3>1, <3>2
  <2> QED BY <1>1, <2>2, <2>3, HeldByFlattened
<1>11. ASSUME NEW x, x \in Held(Ids, FlattenSeq(qs))
       PROVE  x \in InNics(ns) /\ x \notin InNics(ms)
  <2>1. PICK k \in 1..Len(qs) : x \in Held(Ids, qs[k])
    BY <1>10, <1>11
  <2> DEFINE n == q[k]
  <2>2. n \in Nics /\ n \in ToSet(q) /\ x \in Held(Ids, ns[n].datagrams_in)
    <3>1. k \in 1..Len(q) /\ q[k] \in Nics
      BY <1>1, <1>2, ElementOfSeq
    <3> QED BY <1>2, <1>5, <2>1, <3>1
  <2> HIDE DEF n
  <2>3. x \in NicIds(ns[n]) /\ x \notin NicIds(ms[n])
    BY <1>7, <2>2
  <2>4. ASSUME NEW i \in Nics, i # n
        PROVE  x \notin NicIds(ms[i])
    BY <1>7, <1>8, <2>2, <2>3, <2>4
  <2> QED BY <2>2, <2>3, <2>4 DEF InNics
<1>12. InNics(ms) \subseteq InNics(ns)
  BY <1>7 DEF InNics
<1>13. Held(WireIds, v.frames) = {} /\ Apart(WireIds, v.frames)
  BY <1>3, HeldByNone
<1>14. Tidy(v) /\ IdsIn(v) = InNics(ms)
  BY <1>9, <1>13 DEF Tidy, IdsIn, ms
<1> QED BY <1>1, <1>10, <1>11, <1>12, <1>14 DEF v

\* Routing moves what has arrived (Router::route).
LEMMA RouteMoves ==
  ASSUME NEW r \in Routers, NEW rt \in RoutersOf(r), NEW ns, AllSound(ns), NicsOnce(ns)
  PROVE  Tidy(Route(rt, ns)) /\ IdsIn(Route(rt, ns)) \subseteq InNics(ns)
<1> DEFINE q == Arrived(rt, ns)
           n == Len(q)
           Left(i) == UNION {Ids[q[k]] : k \in (i + 1)..n}
<1>1. q \in Seq(Datagrams)
  BY ArrivedIsSeq
<1>2. PICK f \in [0..n -> Results] : Forwards(f, rt, ns) /\ Route(rt, ns) = f[n]
  BY RouteIsSound
<1>3. f[0] = Emptied(rt, ns) /\ \A i \in 1..n : f[i] = Forward(rt, f[i - 1], q[i])
  BY <1>2 DEF Forwards
<1>4. /\ Tidy(f[0]) /\ Apart(Ids, q)
      /\ IdsIn(f[0]) \union Held(Ids, q) \subseteq InNics(ns)
      /\ IdsIn(f[0]) \cap Held(Ids, q) = {}
  BY <1>3, EmptiedMoves
<1> HIDE DEF q
<1>5. n \in Nat /\ n \in 0..n
  BY <1>1
<1>6. \A k \in 1..n : q[k] \in Datagrams /\ Ids[q[k]] = {q[k].id}
  BY <1>1, ElementOfSeq DEF Ids
<1> HIDE DEF n
<1>7. \A i : \A x : x \in Left(i) <=> \E k \in (i + 1)..n : x \in Ids[q[k]]
  OBVIOUS
<1> HIDE DEF Left
<1> DEFINE Good == {i \in 0..n : /\ Tidy(f[i]) /\ IdsIn(f[i]) \subseteq InNics(ns)
                                 /\ IdsIn(f[i]) \cap Left(i) = {}}
<1>8. 0 \in Good
  <2>1. Left(0) \subseteq Held(Ids, q)
    <3> SUFFICES ASSUME NEW x, x \in Left(0) PROVE x \in Held(Ids, q)
      OBVIOUS
    <3>1. PICK k \in (0 + 1)..n : x \in Ids[q[k]]
      BY <1>7
    <3> QED BY <3>1, HeldByOne DEF n
  <2> QED BY <1>4, <1>5, <2>1
<1>9. ASSUME NEW i \in 1..n, i - 1 \in Good
      PROVE  i \in Good
  <2>1. /\ Tidy(f[i - 1]) /\ IdsIn(f[i - 1]) \subseteq InNics(ns)
        /\ IdsIn(f[i - 1]) \cap Left(i - 1) = {}
    BY <1>9
  <2>2. f[i - 1] \in Results /\ i \in 0..n
    BY <1>5
  <2>3. q[i].id \in Left(i - 1) /\ Left(i) \subseteq Left(i - 1) /\ q[i].id \notin Left(i)
    <3>1. i \in ((i - 1) + 1)..n /\ \A k \in (i + 1)..n : k \in ((i - 1) + 1)..n /\ k # i
      BY <1>5
    <3>2. q[i].id \in Ids[q[i]]
      BY <1>6
    <3>3. q[i].id \in Left(i - 1) /\ Left(i) \subseteq Left(i - 1)
      BY <1>7, <3>1, <3>2
    <3>4. \A k \in (i + 1)..n : Ids[q[i]] \cap Ids[q[k]] = {}
      <4>1. \A k \in (i + 1)..n : k \in 1..n /\ k # i
        BY <1>5
      <4> QED BY <1>4, <4>1 DEF Apart, n
    <3> QED BY <1>7, <3>2, <3>3, <3>4
  <2>4. q[i].id \in InNics(ns)
    <3>1. q[i].id \in Held(Ids, q)
      BY <1>6, HeldByOne DEF n
    <3> QED BY <1>4, <3>1
  <2>5. q[i].id \notin IdsIn(f[i - 1])
    BY <2>1, <2>3
  <2>6. Tidy(f[i]) /\ IdsIn(f[i]) \subseteq IdsIn(f[i - 1]) \union {q[i].id}
    <3>1. q[i] \in Datagrams /\ f[i] = Forward(rt, f[i - 1], q[i])
      BY <1>3, <1>6
    <3> QED BY <2>1, <2>2, <2>5, <3>1, ForwardMoves
  <2> QED BY <2>1, <2>2, <2>3, <2>4, <2>6
<1>10. \A i \in 0..n : i \in Good
  <2> HIDE DEF Good
  <2> QED BY <1>5, <1>8, <1>9, InductionUpTo
<1> QED BY <1>2, <1>5, <1>10

\* The first frame on a segment is gone.
LEMMA HeadGone ==
  ASSUME NEW ws \in [Segments -> Wires], WiresOnce(ws), NEW s \in Segments, ws[s] # <<>>
  PROVE  LET rest == [ws EXCEPT ![s] = Tail(@)]
             X    == FrameIds[Head(ws[s])[2]]
         IN  /\ Head(ws[s]) \in Nics \X Frames
             /\ rest \in [Segments -> Wires] /\ WiresOnce(rest)
             /\ OnWires(rest) \union X \subseteq OnWires(ws)
             /\ OnWires(rest) \cap X = {}
<1> DEFINE q    == ws[s]
           T    == Nics \X Frames
           head == Head(q)
           tail == Tail(q)
           X    == FrameIds[head[2]]
           rest == [ws EXCEPT ![s] = tail]
<1>1. q \in Seq(T) /\ q # <<>>
  BY DEF Wires
<1>2. /\ rest[s] = tail
      /\ \A t \in Segments : t # s => rest[t] = ws[t]
  OBVIOUS
<1>3. rest = [ws EXCEPT ![s] = Tail(@)]
  OBVIOUS
<1>4. Apart(WireIds, q) /\ Held(WireIds, q) \subseteq OnWires(ws)
  BY DEF WiresOnce, OnWires
<1>5. \A t \in Segments : t # s => Held(WireIds, ws[t]) \cap Held(WireIds, q) = {}
  BY DEF WiresOnce
<1>6. head \in T /\ tail \in Seq(T)
  <2> HIDE DEF q, T
  <2> QED BY <1>1, HeadTailProperties
<1>7. WireIds[head] = X
  <2> HIDE DEF head
  <2> QED BY <1>6 DEF WireIds
<1>8. rest \in [Segments -> Wires]
  <2> HIDE DEF tail
  <2> QED BY <1>6 DEF Wires
<1> HIDE DEF T
<1>9. /\ Held(WireIds, q) = WireIds[head] \union Held(WireIds, tail)
      /\ Apart(WireIds, tail) /\ WireIds[head] \cap Held(WireIds, tail) = {}
  <2> HIDE DEF q
  <2> QED BY <1>1, <1>4, HeldByTail
<1> HIDE DEF rest, X, head, tail
<1>10. \A t \in Segments : Held(WireIds, rest[t]) \subseteq Held(WireIds, ws[t])
  BY <1>2, <1>9
<1>11. WiresOnce(rest)
  <2>1. \A t \in Segments : Apart(WireIds, rest[t])
    BY <1>2, <1>9 DEF WiresOnce
  <2>2. ASSUME NEW t \in Segments, NEW u \in Segments, t # u
        PROVE  Held(WireIds, rest[t]) \cap Held(WireIds, rest[u]) = {}
    <3>1. Held(WireIds, ws[t]) \cap Held(WireIds, ws[u]) = {}
      BY <2>2 DEF WiresOnce
    <3> QED BY <1>10, <3>1
  <2> QED BY <2>1, <2>2 DEF WiresOnce
<1>12. OnWires(rest) \union X \subseteq OnWires(ws)
  BY <1>4, <1>7, <1>9, <1>10 DEF OnWires
<1>13. OnWires(rest) \cap X = {}
  <2>1. ASSUME NEW t \in Segments
        PROVE  Held(WireIds, rest[t]) \cap X = {}
    <3>1. CASE t = s
      BY <1>2, <1>7, <1>9, <3>1
    <3>2. CASE t # s
      BY <1>5, <1>7, <1>9, <1>10, <3>2
    <3> QED BY <3>1, <3>2
  <2> QED BY <2>1 DEF OnWires
<1> QED BY <1>3, <1>6, <1>8, <1>11, <1>12, <1>13 DEF X, head, T

\* A frame that others get, one after another, is taken by one at most.
LEMMA OthersMoveOn ==
  ASSUME NEW ns, AllSound(ns), NicsOnce(ns), NEW frame \in Frames,
         FrameIds[frame] \cap InNics(ns) = {},
         NEW others \in Seq(Nics),
         \A j, k \in 1..Len(others) : j # k => others[j] # others[k]
  PROVE  LET ms   == [n \in Nics |-> IF n \in ToSet(others)
                                     THEN RecvFrame(ns[n], frame) ELSE ns[n]]
             sent == [k \in DOMAIN others |->
                        SentBy(others[k], RecvFrameTransmits(ns[others[k]], frame))]
             fs   == FlattenSeq(sent)
         IN  /\ NicsOnce(ms) /\ Apart(WireIds, fs) /\ fs \in Wires
             /\ InNics(ms) \union Held(WireIds, fs) \subseteq InNics(ns) \union FrameIds[frame]
             /\ InNics(ms) \cap Held(WireIds, fs) = {}
<1> DEFINE out(n) == RecvFrameTransmits(ns[n], frame)
           ms     == [n \in Nics |-> IF n \in ToSet(others)
                                     THEN RecvFrame(ns[n], frame) ELSE ns[n]]
           sent   == [k \in DOMAIN others |-> SentBy(others[k], out(others[k]))]
           fs     == FlattenSeq(sent)
           X      == FrameIds[frame]
           Has(n) == NicIds(ns[n]) \union Gets(n, frame)
<1>1. /\ Len(others) \in Nat /\ DOMAIN others = 1..Len(others)
      /\ \A k \in 1..Len(others) : others[k] \in Nics /\ others[k] \in ToSet(others)
      /\ \A n : n \in ToSet(others) <=> \E k \in 1..Len(others) : others[k] = n
  BY DEF ToSet
<1>2. \A n \in Nics : Gets(n, frame) \subseteq X
  BY DEF Gets
<1>3. \A i, j \in Nics : i # j => Gets(i, frame) \cap Gets(j, frame) = {}
  BY DEF Gets
<1>4. /\ \A n \in Nics : NicIds(ns[n]) \subseteq InNics(ns)
      /\ \A i, j \in Nics : i # j => NicIds(ns[i]) \cap NicIds(ns[j]) = {}
  BY DEF InNics, NicsOnce
<1>5. ASSUME NEW n \in Nics
      PROVE  /\ Moves(ns[n], Gets(n, frame), RecvFrame(ns[n], frame), out(n))
             /\ out(n) \in Seq(Frames)
  <2>1. Sound(ns[n], n) /\ NicOnce(ns[n])
    BY DEF AllSound, NicsOnce
  <2>2. Gets(n, frame) \cap NicIds(ns[n]) = {}
    BY <1>2, <1>4
  <2> QED BY <2>1, <2>2, RecvMoves, RecvIsSound
<1>6. \A n \in Nics : ms[n] = IF n \in ToSet(others) THEN RecvFrame(ns[n], frame) ELSE ns[n]
  OBVIOUS
<1>7. /\ Len(sent) = Len(others)
      /\ \A k \in 1..Len(others) : sent[k] = SentBy(others[k], out(others[k]))
      /\ sent \in Seq(Wires)
  <2>1. \A k \in 1..Len(others) : SentBy(others[k], out(others[k])) \in Wires
    <3> HIDE DEF out
    <3> QED BY <1>1, <1>5, SentByIsWire
  <2>2. sent = [k \in 1..Len(others) |-> SentBy(others[k], out(others[k]))]
    BY <1>1
  <2> HIDE DEF sent, out
  <2> QED BY <1>1, <2>1, <2>2, IsASeq
<1> HIDE DEF ms, sent, fs, X, out
<1>8. \A n \in Nics : Has(n) \subseteq InNics(ns) \union X
  BY <1>2, <1>4
<1>9. \A i, j \in Nics : i # j => Has(i) \cap Has(j) = {}
  BY <1>2, <1>3, <1>4 DEF X
<1>10. ASSUME NEW n \in Nics
       PROVE  /\ NicOnce(ms[n]) /\ NicIds(ms[n]) \subseteq Has(n)
              /\ Apart(FrameIds, out(n)) /\ Held(FrameIds, out(n)) \subseteq Has(n)
              /\ n \in ToSet(others) => NicIds(ms[n]) \cap Held(FrameIds, out(n)) = {}
  BY <1>5, <1>6 DEF Moves, NicsOnce
<1> HIDE DEF Has
<1>11. NicsOnce(ms)
  <2>1. ASSUME NEW i \in Nics, NEW j \in Nics, i # j
        PROVE  NicIds(ms[i]) \cap NicIds(ms[j]) = {}
    <3>1. NicIds(ms[i]) \subseteq Has(i) /\ NicIds(ms[j]) \subseteq Has(j)
      BY <1>10
    <3>2. Has(i) \cap Has(j) = {}
      BY <1>9, <2>1
    <3> QED BY <3>1, <3>2
  <2> QED BY <1>10, <2>1 DEF NicsOnce
<1>12. ASSUME NEW k \in 1..Len(others)
       PROVE  /\ Held(WireIds, sent[k]) = Held(FrameIds, out(others[k]))
              /\ Apart(WireIds, sent[k])
  <2>1. others[k] \in Nics
    BY <1>1
  <2> QED BY <1>5, <1>7, <1>10, <2>1, SentByMoves
<1>13. /\ Apart(WireIds, fs)
       /\ \A x : x \in Held(WireIds, fs) <=>
                   \E k \in 1..Len(sent) : x \in Held(WireIds, sent[k])
       /\ fs \in Wires
  <2> DEFINE T == Nics \X Frames
  <2>1. sent \in Seq(Seq(T))
    BY <1>7 DEF Wires
  <2> HIDE DEF T
  <2>2. ASSUME NEW j \in 1..Len(sent), NEW k \in 1..Len(sent), j # k
        PROVE  Held(WireIds, sent[j]) \cap Held(WireIds, sent[k]) = {}
    <3>1. others[j] \in Nics /\ others[k] \in Nics /\ others[j] # others[k]
      BY <1>1, <1>7, <2>2
    <3>2. Held(WireIds, sent[j]) \subseteq Has(others[j])
      BY <1>7, <1>10, <1>12, <3>1
    <3>3. Held(WireIds, sent[k]) \subseteq Has(others[k])
      BY <1>7, <1>10, <1>12, <3>1
    <3> QED BY <1>9, <3>1, <3>2, <3>3
  <2>3. \A k \in 1..Len(sent) : Apart(WireIds, sent[k])
    BY <1>7, <1>12
  <2>4. /\ Apart(WireIds, FlattenSeq(sent))
        /\ \A x : x \in Held(WireIds, FlattenSeq(sent)) <=>
                    \E k \in 1..Len(sent) : x \in Held(WireIds, sent[k])
    BY <2>1, <2>2, <2>3, HeldByFlattened
  <2>5. FlattenSeq(sent) \in Wires
    <3>1. PICK f \in [0..Len(sent) -> Seq(T)] : FlattenSeq(sent) = f[Len(sent)]
      BY <2>1, FlattenJoins
    <3>2. Len(sent) \in 0..Len(sent)
      BY <2>1
    <3> QED BY <3>1, <3>2 DEF T, Wires
  <2> QED BY <2>4, <2>5 DEF fs
<1>14. ASSUME NEW x, x \in Held(WireIds, fs)
       PROVE  x \in InNics(ns) \union X /\ x \notin InNics(ms)
  <2>1. PICK k \in 1..Len(sent) : x \in Held(WireIds, sent[k])
    BY <1>13, <1>14
  <2> DEFINE n == others[k]
  <2>2. n \in Nics /\ n \in ToSet(others) /\ x \in Held(FrameIds, out(n))
    BY <1>1, <1>7, <1>12, <2>1
  <2> HIDE DEF n
  <2>3. x \in Has(n) /\ x \notin NicIds(ms[n])
    BY <1>10, <2>2
  <2>4. ASSUME NEW i \in Nics, i # n
        PROVE  x \notin NicIds(ms[i])
    BY <1>9, <1>10, <2>2, <2>3, <2>4
  <2> QED BY <1>8, <2>2, <2>3, <2>4 DEF InNics
<1>15. InNics(ms) \subseteq InNics(ns) \union X
  BY <1>8, <1>10 DEF InNics
<1> QED BY <1>11, <1>13, <1>14, <1>15 DEF ms, sent, fs, X, out

\* An interface that passes on what it has, or what is new to the network, X.
LEMMA NicMovesOn ==
  ASSUME NetworkInv, OnceInv, NEW n \in Nics,
         NEW X, X \cap Anywhere(nics, wires, received) = {},
         NEW m, NEW out \in Seq(Frames), Moves(nics[n], X, m, out),
         nics' = [nics EXCEPT ![n] = m], wires' = Carry(wires, SentBy(n, out)),
         received' = received
  PROVE  /\ Once(nics', wires', received')
         /\ Anywhere(nics', wires', received') \subseteq Anywhere(nics, wires, received) \union X
<1> DEFINE sb == SentBy(n, out)
<1>1. /\ nics \in [Nics -> NetworkInterfaces] /\ wires \in [Segments -> Wires]
      /\ NicsOnce(nics) /\ Once(nics, wires, received)
  BY DEF NetworkInv, AllSound, OnceInv, Once
<1>2. X \cap InNics(nics) = {}
  BY DEF Anywhere
<1>3. /\ NicsOnce(nics')
      /\ InNics(nics') \union Held(FrameIds, out) \subseteq InNics(nics) \union X
      /\ InNics(nics') \cap Held(FrameIds, out) = {}
  BY <1>1, <1>2, OneMovesOn
<1>4. sb \in Wires /\ Held(WireIds, sb) = Held(FrameIds, out) /\ Apart(WireIds, sb)
  <2>1. Apart(FrameIds, out)
    BY DEF Moves
  <2> QED BY <2>1, SentByIsWire, SentByMoves
<1> HIDE DEF sb
<1>5. wires' = Carry(wires, sb)
  BY DEF sb
<1> DEFINE ms == nics'
<1>6. /\ NicsOnce(ms)
      /\ InNics(ms) \union Held(WireIds, sb) \subseteq InNics(nics) \union X
      /\ InNics(ms) \cap Held(WireIds, sb) = {}
  BY <1>3, <1>4
<1> HIDE DEF ms
<1>7. /\ Once(ms, Carry(wires, sb), received)
      /\ Anywhere(ms, Carry(wires, sb), received)
           \subseteq Anywhere(nics, wires, received) \union X
  BY <1>1, <1>4, <1>6, MoveOn
<1> QED BY <1>5, <1>7 DEF ms

\* A new datagram has an id that is nowhere.
LEMMA LaunchKeepsOnce ==
  ASSUME NetworkInv, OnceInv, NEW h \in Senders, NEW dst \in Destinations,
         NEW ttl \in Lifetimes, Launch(h, dst, ttl)
  PROVE  OnceInv'
<1> DEFINE id  == Len(launched) + 1
           d   == [id |-> id, dst |-> dst, ttl |-> ttl]
           hop == Gateways[h]
           m   == SendDatagram(nics[h], d, hop)
           out == SendDatagramTransmits(nics[h], d, hop)
           all == Anywhere(nics, wires, received)
<1>1. /\ nics' = [nics EXCEPT ![h] = m]
      /\ wires' = Carry(wires, SentBy(h, out))
      /\ \E e : launched' = Append(launched, e)
      /\ received' = received
  BY DEF Launch
<1>2. Len(launched) \in Nat /\ Len(launched') = id
  <2>1. launched \in Seq([src : Hosts, dst : Addresses, ttl : Nat, routed : BOOLEAN])
    BY DEF NetworkInv
  <2> QED BY <1>1, <2>1
<1>3. h \in Nics /\ dst \in Addresses /\ ttl \in Nat /\ hop \in Addresses \ HostAddresses
  <2>1. h \in Hosts /\ h \in Nics /\ dst \in Addresses /\ ttl \in 0..255
    BY InternetAssumption, Zenon
  <2>2. 0..255 \subseteq Nat
    OBVIOUS
  <2> QED BY <2>1, <2>2, RoutesAssumption
<1>4. d \in For(hop) /\ d.id = id
  BY <1>2, <1>3 DEF Datagrams, For
<1>5. all \subseteq 1..Len(launched)
  BY DEF OnceInv
<1>6. {id} \cap all = {}
  <2> HIDE DEF all
  <2> QED BY <1>2, <1>5
<1>7. Sound(nics[h], h) /\ NicOnce(nics[h]) /\ id \notin NicIds(nics[h])
  <2>1. NicIds(nics[h]) \subseteq all
    BY <1>3 DEF Anywhere, InNics
  <2> HIDE DEF all, id
  <2> QED BY <1>3, <1>6, <2>1 DEF NetworkInv, AllSound, OnceInv, Once, NicsOnce
<1> HIDE DEF hop, d, id
<1>8. Moves(nics[h], {id}, m, out) /\ out \in Seq(Frames)
  <2>1. Moves(nics[h], {d.id}, m, out) /\ out \in Seq(Frames)
    BY <1>3, <1>4, <1>7, SendMoves, SendIsSound
  <2> QED BY <1>4, <2>1
<1> HIDE DEF m, out
<1>9. /\ Once(nics', wires', received')
      /\ Anywhere(nics', wires', received') \subseteq all \union {id}
  BY <1>1, <1>3, <1>6, <1>8, NicMovesOn
<1>10. all \union {id} \subseteq 1..Len(launched')
  <2> DEFINE n == Len(launched)
  <2>1. n \in Nat /\ id = n + 1 /\ all \subseteq 1..n
    BY <1>2, <1>5 DEF id
  <2> HIDE DEF all, n
  <2>2. all \union {id} \subseteq 1..id
    BY <2>1
  <2> QED BY <1>2, <2>2
<1> QED BY <1>9, <1>10 DEF OnceInv

\* A frame leaves the segment, and one interface at most takes its datagram.
LEMMA ArriveKeepsOnce ==
  ASSUME NetworkInv, OnceInv, NEW s \in Segments, Arrive(s)
  PROVE  OnceInv'
<1> DEFINE head   == Head(wires[s])
           frame  == head[2]
           S      == Nics \ {head[1]}
           others == Selected(Connections[s], S)
           ms     == [n \in Nics |-> IF n \in ToSet(others)
                                     THEN RecvFrame(nics[n], frame) ELSE nics[n]]
           sent   == [k \in DOMAIN others |->
                        SentBy(others[k], RecvFrameTransmits(nics[others[k]], frame))]
           fs     == FlattenSeq(sent)
           rest   == [wires EXCEPT ![s] = Tail(@)]
           X      == FrameIds[frame]
           all    == Anywhere(nics, wires, received)
           left   == Anywhere(nics, rest, received)
<1>1. /\ wires[s] # <<>> /\ nics' = ms /\ wires' = Carry(rest, fs)
      /\ received' = received /\ launched' = launched
  BY Zenon DEF Arrive
<1>2. /\ wires \in [Segments -> Wires] /\ AllSound(nics)
      /\ Once(nics, wires, received) /\ NicsOnce(nics) /\ WiresOnce(wires)
      /\ all \subseteq 1..Len(launched)
  BY DEF NetworkInv, OnceInv, Once
<1>3. /\ head \in Nics \X Frames
      /\ rest \in [Segments -> Wires] /\ WiresOnce(rest)
      /\ OnWires(rest) \union X \subseteq OnWires(wires)
      /\ OnWires(rest) \cap X = {}
  BY <1>1, <1>2, HeadGone
<1>4. others \in Seq(Nics) /\ \A j, k \in 1..Len(others) : j # k => others[j] # others[k]
  <2> DEFINE q == Connections[s]
  <2>1. q \in Seq(Nics) /\ IsInjective(q)
    BY InternetAssumption
  <2>2. \A j, k \in 1..Len(q) : j # k => q[j] # q[k]
    BY <2>1 DEF IsInjective
  <2> HIDE DEF S, q
  <2>3. others \in Seq(Nics)
    BY <2>1, SelectedEmbeds DEF q
  <2>4. PICK e : Embeds(e, others, q, Len(q), S)
    BY <2>1, SelectedEmbeds DEF q
  <2> HIDE DEF others
  <2>5. ASSUME NEW j \in 1..Len(others), NEW k \in 1..Len(others), j # k
        PROVE  others[j] # others[k]
    <3>1. /\ e[j] \in 1..Len(q) /\ e[k] \in 1..Len(q)
          /\ others[j] = q[e[j]] /\ others[k] = q[e[k]]
      BY <2>4 DEF Embeds
    <3>2. j < k \/ k < j
      BY <2>3, <2>5
    <3>3. e[j] < e[k] \/ e[k] < e[j]
      BY <2>4, <3>2 DEF Embeds
    <3>4. e[j] # e[k]
      BY <2>1, <3>1, <3>3
    <3> QED BY <2>2, <3>1, <3>4
  <2> QED BY <2>3, <2>5
<1>5. frame \in Frames
  <2> HIDE DEF head
  <2> QED BY <1>3
<1> HIDE DEF rest, S, others, frame
<1>6. X \cap InNics(nics) = {} /\ X \cap left = {} /\ Once(nics, rest, received)
  <2>1. /\ X \subseteq OnWires(wires) /\ OnWires(rest) \subseteq OnWires(wires)
        /\ OnWires(rest) \cap X = {} /\ WiresOnce(rest)
    BY <1>3
  <2> HIDE DEF X
  <2> QED BY <1>2, <2>1 DEF Once, Anywhere
<1>7. left \union X \subseteq all
  <2> HIDE DEF X
  <2> QED BY <1>3 DEF Anywhere, X
<1>8. /\ NicsOnce(ms) /\ Apart(WireIds, fs) /\ fs \in Wires
      /\ InNics(ms) \union Held(WireIds, fs) \subseteq InNics(nics) \union X
      /\ InNics(ms) \cap Held(WireIds, fs) = {}
  BY <1>2, <1>4, <1>5, <1>6, OthersMoveOn
<1> HIDE DEF ms, sent, fs, X, left, all
<1>9. Once(ms, Carry(rest, fs), received)
      /\ Anywhere(ms, Carry(rest, fs), received) \subseteq left \union X
  BY <1>3, <1>6, <1>8, MoveOn DEF left
<1>10. Once(nics', wires', received') /\ Anywhere(nics', wires', received') \subseteq all
  BY <1>1, <1>7, <1>9
<1> QED BY <1>1, <1>2, <1>10 DEF OnceInv

\* A host takes what no interface has then any more.
LEMMA TakeKeepsOnce ==
  ASSUME NetworkInv, OnceInv, NEW h \in Hosts, Take(h)
  PROVE  OnceInv'
<1> DEFINE old == nics[h]
           d   == Head(old.datagrams_in)
           m   == [old EXCEPT !.datagrams_in = Tail(@)]
           x   == [host |-> h, datagram |-> d]
<1>1. /\ old.datagrams_in # <<>>
      /\ nics' = [nics EXCEPT ![h] = m]
      /\ received' = Append(received, x)
      /\ wires' = wires /\ launched' = launched
  BY DEF Take
<1>2. /\ nics \in [Nics -> NetworkInterfaces] /\ h \in Nics /\ Sound(old, h) /\ NicOnce(old)
      /\ old.datagrams_in \in Seq(Datagrams) /\ received \in Seq(Receipts)
  <2>1. h \in Nics
    BY InternetAssumption
  <2>2. /\ nics \in [Nics -> NetworkInterfaces] /\ Sound(old, h) /\ NicOnce(old)
        /\ received \in Seq(Receipts)
    BY <2>1 DEF NetworkInv, AllSound, OnceInv, Once, NicsOnce, Receipts
  <2>3. old.datagrams_in \in Seq(Datagrams)
    <3> HIDE DEF old
    <3> QED BY <2>2 DEF Sound, NetworkInterfaces
  <2> QED BY <2>1, <2>2, <2>3
<1>3. /\ NicOnce(m) /\ NicIds(m) \subseteq NicIds(old)
      /\ d.id \in NicIds(old) /\ d.id \notin NicIds(m)
  <2> HIDE DEF old
  <2> QED BY <1>1, <1>2, QueueMoves
<1>4. d \in Datagrams
  <2> HIDE DEF old
  <2> QED BY <1>1, <1>2, HeadTailProperties
<1>5. x \in Receipts /\ ReceiptIds[x] = {d.id}
  <2> HIDE DEF d
  <2>1. x \in Receipts /\ x.datagram = d
    BY <1>4 DEF Receipts
  <2> HIDE DEF x
  <2> QED BY <2>1 DEF ReceiptIds
<1> HIDE DEF x, m, d, old
<1> DEFINE id == d.id
           ms == nics'
           rc == received
<1>6. /\ ms[h] = m
      /\ \A n \in Nics : n # h => ms[n] = nics[n]
  BY <1>1, <1>2
<1>7. /\ NicsOnce(nics) /\ WiresOnce(wires) /\ Apart(ReceiptIds, rc)
      /\ InNics(nics) \cap OnWires(wires) = {}
      /\ InNics(nics) \cap Held(ReceiptIds, rc) = {}
      /\ OnWires(wires) \cap Held(ReceiptIds, rc) = {}
      /\ Anywhere(nics, wires, rc) \subseteq 1..Len(launched)
  BY DEF OnceInv, Once
<1> HIDE DEF ms
<1>8. /\ \A n \in Nics : NicOnce(ms[n]) /\ NicIds(ms[n]) \subseteq NicIds(nics[n])
      /\ \A n \in Nics : id \notin NicIds(ms[n])
      /\ id \in NicIds(nics[h])
  <2>1. id \in NicIds(nics[h])
    BY <1>3 DEF old
  <2>2. ASSUME NEW n \in Nics
        PROVE  /\ NicOnce(ms[n]) /\ NicIds(ms[n]) \subseteq NicIds(nics[n])
               /\ id \notin NicIds(ms[n])
    <3>1. CASE n = h
      BY <1>3, <1>6, <3>1 DEF old
    <3>2. CASE n # h
      <4>1. NicIds(nics[n]) \cap NicIds(nics[h]) = {} /\ NicOnce(nics[n])
        BY <1>2, <1>7, <3>2 DEF NicsOnce
      <4> QED BY <1>6, <2>1, <3>2, <4>1
    <3> QED BY <3>1, <3>2
  <2> QED BY <2>1, <2>2
<1> HIDE DEF id
<1>9. NicsOnce(ms)
  <2>1. ASSUME NEW i \in Nics, NEW j \in Nics, i # j
        PROVE  NicIds(ms[i]) \cap NicIds(ms[j]) = {}
    <3>1. NicIds(nics[i]) \cap NicIds(nics[j]) = {}
      BY <1>7, <2>1 DEF NicsOnce
    <3> QED BY <1>8, <3>1
  <2> QED BY <1>8, <2>1 DEF NicsOnce
<1>10. InNics(ms) \subseteq InNics(nics) /\ id \in InNics(nics) /\ id \notin InNics(ms)
  BY <1>2, <1>8 DEF InNics
<1>11. /\ Held(ReceiptIds, received') = Held(ReceiptIds, rc) \union {id}
       /\ Apart(ReceiptIds, received')
  <2>1. Held(ReceiptIds, rc) \cap ReceiptIds[x] = {}
    BY <1>5, <1>7, <1>10 DEF id
  <2> QED BY <1>1, <1>2, <1>5, <1>7, <2>1, HeldWithOneMore DEF id
<1>12. Once(ms, wires, received')
  BY <1>7, <1>9, <1>10, <1>11 DEF Once
<1>13. Anywhere(ms, wires, received') \subseteq Anywhere(nics, wires, rc)
  BY <1>10, <1>11 DEF Anywhere
<1> QED BY <1>1, <1>7, <1>12, <1>13 DEF OnceInv, ms

\* Every id stays in one place at most.
LEMMA OnceInvariant == Spec => []OnceInv
<1>1. Init => OnceInv
  <2> SUFFICES ASSUME Init PROVE OnceInv
    OBVIOUS
  <2>1. \A load : Held(load, <<>>) = {} /\ Apart(load, <<>>)
    BY HeldByNone
  <2>2. ASSUME NEW n \in Nics
        PROVE  NicOnce(nics[n]) /\ NicIds(nics[n]) = {}
    <3>1. nics[n] = NewInterface(n, IpAddress[n])
      BY DEF Init
    <3>2. nics[n].datagrams_in = <<>> /\ nics[n].pending = NoEntries
      BY <3>1 DEF NewInterface
    <3>3. DOMAIN NoEntries = {}
      BY DEF NoEntries
    <3> QED BY <2>1, <3>2, <3>3 DEF NicOnce, NicIds, PendingOnce, PendingIds
  <2>3. \A s \in Segments : wires[s] = <<>>
    BY DEF Init
  <2>4. received = <<>>
    BY DEF Init
  <2>5. InNics(nics) = {} /\ NicsOnce(nics)
    BY <2>2 DEF InNics, NicsOnce
  <2>6. OnWires(wires) = {} /\ WiresOnce(wires)
    BY <2>1, <2>3 DEF OnWires, WiresOnce
  <2> QED BY <2>1, <2>4, <2>5, <2>6 DEF OnceInv, Once, Anywhere
<1>2. NetworkInv /\ OnceInv /\ [Next]_vars => OnceInv'
  <2> SUFFICES ASSUME NetworkInv, OnceInv, [Next]_vars PROVE OnceInv'
    OBVIOUS
  <2> DEFINE all == Anywhere(nics, wires, received)
  <2>1. /\ Once(nics, wires, received) /\ all \subseteq 1..Len(launched)
        /\ NicsOnce(nics) /\ WiresOnce(wires)
    BY DEF OnceInv, Once
  <2>2. AllSound(nics) /\ wires \in [Segments -> Wires]
    BY DEF NetworkInv
  <2>3. ASSUME NEW r \in Routers, Configure(r)
        PROVE  OnceInv'
    BY <2>3 DEF Configure, OnceInv
  <2>4. ASSUME NEW r \in Routers, RouteAll(r)
        PROVE  OnceInv'
    <3> DEFINE result == Route(routers[r], nics)
               ms     == result.nics
               fs     == result.frames
    <3>1. /\ nics' = ms /\ wires' = Carry(wires, fs)
          /\ received' = received /\ launched' = launched
      BY <2>4 DEF RouteAll
    <3>2. routers[r] \in RoutersOf(r)
      BY DEF NetworkInv
    <3>3. result \in Results /\ Tidy(result) /\ IdsIn(result) \subseteq InNics(nics)
      BY <2>1, <2>2, <3>2, RouteIsSound, RouteMoves
    <3> HIDE DEF result
    <3>4. /\ NicsOnce(ms) /\ Apart(WireIds, fs) /\ fs \in Wires
          /\ InNics(ms) \union Held(WireIds, fs) \subseteq InNics(nics) \union {}
          /\ InNics(ms) \cap Held(WireIds, fs) = {}
      BY <3>3 DEF Tidy, IdsIn, Results
    <3> HIDE DEF ms, fs
    <3>5. {} \cap all = {}
      OBVIOUS
    <3>6. /\ Once(ms, Carry(wires, fs), received)
          /\ Anywhere(ms, Carry(wires, fs), received) \subseteq all \union {}
      BY <2>1, <2>2, <3>4, <3>5, MoveOn
    <3> QED BY <2>1, <3>1, <3>6 DEF OnceInv
  <2>5. ASSUME NEW s \in Segments, Lose(s)
        PROVE  OnceInv'
    <3> DEFINE rest == [wires EXCEPT ![s] = Tail(@)]
    <3>1. /\ wires[s] # <<>> /\ wires' = rest
          /\ nics' = nics /\ received' = received /\ launched' = launched
      BY <2>5 DEF Lose
    <3>2. WiresOnce(rest) /\ OnWires(rest) \subseteq OnWires(wires)
      BY <2>1, <2>2, <3>1, HeadGone
    <3> HIDE DEF rest
    <3>3. Once(nics, rest, received) /\ Anywhere(nics, rest, received) \subseteq all
      BY <2>1, <3>2 DEF Once, Anywhere
    <3> QED BY <2>1, <3>1, <3>3 DEF OnceInv
  <2>6. ASSUME NEW n \in Nics, Tick(n)
        PROVE  OnceInv'
    <3> DEFINE out == InterfaceTickTransmits(nics[n], TickMs)
               m   == InterfaceTick(nics[n], TickMs)
    <3>1. PICK frames \in SetToSeqs(out) :
            /\ nics' = [nics EXCEPT ![n] = m]
            /\ wires' = Carry(wires, SentBy(n, frames))
            /\ received' = received /\ launched' = launched
      BY <2>6 DEF Tick
    <3>2. Sound(nics[n], n) /\ NicOnce(nics[n]) /\ TickMs \in Nat
      BY <2>1, <2>2, InternetAssumption DEF AllSound, NicsOnce
    <3>3. out \subseteq ARPFrames /\ IsFiniteSet(out)
      BY <3>2, TickIsSound
    <3> HIDE DEF out
    <3>4. frames \in Seq(ARPFrames) /\ frames \in Seq(Frames)
      <4>1. Cardinality(out) \in Nat
        BY <3>3, FS_CardinalityType
      <4>2. frames \in [1..Cardinality(out) -> out]
        BY DEF SetToSeqs
      <4>3. frames \in Seq(out)
        BY <4>1, <4>2
      <4>4. out \subseteq Frames
        BY <3>3 DEF Frames
      <4> QED BY <3>3, <4>3, <4>4, SeqMonotonic, Zenon
    <3>5. Moves(nics[n], {}, m, frames)
      BY <3>2, <3>4, TickMoves
    <3> HIDE DEF m
    <3>6. {} \cap all = {}
      OBVIOUS
    <3>7. /\ Once(nics', wires', received')
          /\ Anywhere(nics', wires', received') \subseteq all \union {}
      BY <3>1, <3>4, <3>5, <3>6, NicMovesOn
    <3> QED BY <2>1, <3>1, <3>7 DEF OnceInv
  <2>7. CASE UNCHANGED vars
    BY <2>7 DEF vars, OnceInv
  <2> QED BY <2>3, <2>4, <2>5, <2>6, <2>7, ArriveKeepsOnce, LaunchKeepsOnce,
             TakeKeepsOnce DEF Next
<1> QED BY <1>1, <1>2, NetworkInvariant, PTL DEF Spec

\* Places that are all one have at most one.
LEMMA OnePlace ==
  ASSUME NEW S, \A x, y \in S : x = y
  PROVE  Cardinality(S) \in {0, 1} /\ (S = {} => Cardinality(S) = 0)
<1>1. CASE S = {}
  BY <1>1, FS_EmptySet
<1>2. CASE S # {}
  <2>1. PICK x \in S : TRUE
    BY <1>2
  <2>2. S = {x}
    BY <2>1
  <2> QED BY <1>2, <2>2, FS_Singleton
<1> QED BY <1>1, <1>2

\* Elements that hold the same are one.
LEMMA OneHolder ==
  ASSUME NEW load, NEW q, Apart(load, q), NEW x,
         NEW j \in 1..Len(q), NEW k \in 1..Len(q), x \in load[q[j]], x \in load[q[k]]
  PROVE  j = k
BY DEF Apart

\* No step of an interface, a router or a segment duplicates a datagram, so that
\* of each there is one copy at most, waiting for an ARP reply, in flight,
\* queued or received (NetworkInterface, Router::route).
THEOREM OneCopyAtMost == Spec => []AtMostOneCopy
<1>1. NetworkInv /\ OnceInv => AtMostOneCopy
  <2> SUFFICES ASSUME NetworkInv, OnceInv, NEW id \in DOMAIN launched
               PROVE  Cardinality(InFlight(id)) + Cardinality(InQueue(id))
                        + Cardinality(WaitingAt(id)) + Cardinality(ReceivedAt(id)) <= 1
    BY DEF AtMostOneCopy
  <2>1. /\ NicsOnce(nics) /\ WiresOnce(wires) /\ Apart(ReceiptIds, received)
        /\ InNics(nics) \cap OnWires(wires) = {}
        /\ InNics(nics) \cap Held(ReceiptIds, received) = {}
        /\ OnWires(wires) \cap Held(ReceiptIds, received) = {}
    BY DEF OnceInv, Once
  <2>2. /\ \A n \in Nics : Sound(nics[n], n) /\ NicOnce(nics[n])
        /\ wires \in [Segments -> Wires] /\ received \in Seq(Receipts)
    BY <2>1 DEF NetworkInv, AllSound, NicsOnce, Receipts
  <2>3. ASSUME NEW p \in InFlight(id)
        PROVE  /\ p = << p[1], p[2] >> /\ p[1] \in Segments
               /\ p[2] \in 1..Len(wires[p[1]]) /\ id \in WireIds[wires[p[1]][p[2]]]
               /\ id \in Held(WireIds, wires[p[1]]) /\ id \in OnWires(wires)
    <3> DEFINE s == p[1]
               k == p[2]
               w == wires[s]
    <3>1. /\ p \in Segments \X (1..WireCapacity) /\ k \in DOMAIN w
          /\ w[k][2].type = "IPv4" /\ w[k][2].datagram.id = id
      BY DEF InFlight
    <3>2. p = << p[1], p[2] >> /\ s \in Segments
      BY <3>1
    <3>3. w \in Seq(Nics \X Frames)
      BY <2>2, <3>2 DEF Wires
    <3> HIDE DEF w, s, k
    <3>4. k \in 1..Len(w) /\ w[k] \in Nics \X Frames /\ w[k][2] \in Frames
      BY <3>1, <3>3
    <3>5. id \in WireIds[w[k]]
      <4> DEFINE x == w[k]
      <4> HIDE DEF x
      <4>1. id \in WireIds[x]
        BY <3>1, <3>4 DEF WireIds, FrameIds, x
      <4> QED BY <4>1 DEF x
    <3>6. id \in Held(WireIds, w)
      BY <3>4, <3>5, HeldByOne
    <3>7. id \in OnWires(wires)
      BY <3>2, <3>6 DEF OnWires, w
    <3> QED BY <3>2, <3>4, <3>5, <3>6, <3>7 DEF w, s, k
  <2>4. ASSUME NEW p \in InQueue(id)
        PROVE  /\ p = << p[1], p[2] >> /\ p[1] \in Nics
               /\ p[2] \in 1..Len(nics[p[1]].datagrams_in)
               /\ id \in Ids[nics[p[1]].datagrams_in[p[2]]]
               /\ id \in Held(Ids, nics[p[1]].datagrams_in)
    <3> DEFINE n == p[1]
               k == p[2]
               q == nics[n].datagrams_in
    <3>1. /\ p \in Nics \X (1..MaxLaunched) /\ k \in DOMAIN q /\ q[k].id = id
      BY DEF InQueue
    <3>2. p = << p[1], p[2] >> /\ n \in Nics
      BY <3>1
    <3>3. q \in Seq(Datagrams)
      BY <2>2, <3>2 DEF Sound, NetworkInterfaces
    <3> HIDE DEF q, n, k
    <3>4. k \in 1..Len(q) /\ q[k] \in Datagrams
      BY <3>1, <3>3
    <3>5. id \in Ids[q[k]]
      BY <3>1, <3>4 DEF Ids
    <3>6. id \in Held(Ids, q)
      BY <3>4, <3>5, HeldByOne
    <3> QED BY <3>2, <3>4, <3>5, <3>6 DEF q, n, k
  <2>5. ASSUME NEW p \in WaitingAt(id)
        PROVE  /\ p = << p[1], p[2], p[3] >> /\ p[1] \in Nics
               /\ p[2] \in DOMAIN nics[p[1]].pending
               /\ p[3] \in 1..Len(nics[p[1]].pending[p[2]])
               /\ id \in Ids[nics[p[1]].pending[p[2]][p[3]]]
               /\ id \in Held(Ids, nics[p[1]].pending[p[2]])
               /\ id \in PendingIds(nics[p[1]].pending)
    <3> DEFINE n  == p[1]
               ip == p[2]
               k  == p[3]
               q  == Waiting(nics[n], ip)
    <3>1. /\ p \in Nics \X Addresses \X (1..MaxLaunched) /\ k \in DOMAIN q /\ q[k].id = id
      BY DEF WaitingAt
    <3>2. p = << p[1], p[2], p[3] >> /\ n \in Nics
      BY <3>1
    <3>3. q \in Seq(Datagrams)
      <4> HIDE DEF n, ip
      <4> QED BY <2>2, <3>2, Waits
    <3>4. ip \in DOMAIN nics[n].pending /\ q = nics[n].pending[ip]
      <4>1. ASSUME ip \notin DOMAIN nics[n].pending
            PROVE  FALSE
        <5>1. q = <<>>
          BY <4>1 DEF Waiting
        <5> HIDE DEF q, k
        <5> QED BY <3>1, <5>1
      <4> QED BY <4>1 DEF Waiting
    <3> HIDE DEF q, n, k, ip
    <3>5. k \in 1..Len(q) /\ q[k] \in Datagrams
      BY <3>1, <3>3
    <3>6. id \in Ids[q[k]]
      BY <3>1, <3>5 DEF Ids
    <3>7. id \in Held(Ids, q)
      BY <3>5, <3>6, HeldByOne
    <3>8. id \in PendingIds(nics[n].pending)
      BY <3>4, <3>7 DEF PendingIds
    <3> QED BY <3>2, <3>4, <3>5, <3>6, <3>7, <3>8 DEF n, ip, k
  <2>6. ASSUME NEW k \in ReceivedAt(id)
        PROVE  /\ k \in 1..Len(received) /\ id \in ReceiptIds[received[k]]
               /\ id \in Held(ReceiptIds, received)
    <3>1. k \in DOMAIN received /\ received[k].datagram.id = id
      BY DEF ReceivedAt
    <3>2. k \in 1..Len(received) /\ received[k] \in Receipts
      BY <2>2, <3>1
    <3>3. id \in ReceiptIds[received[k]]
      BY <3>1, <3>2 DEF ReceiptIds
    <3> QED BY <3>2, <3>3, HeldByOne
  <2>7. \A n \in Nics : \A x : x \in NicIds(nics[n]) => x \in InNics(nics)
    BY DEF InNics
  <2>8. \A m, n \in Nics : m # n => NicIds(nics[m]) \cap NicIds(nics[n]) = {}
    BY <2>1 DEF NicsOnce
  <2>9. \A p \in InQueue(id) : id \in NicIds(nics[p[1]]) /\ id \in InNics(nics)
    BY <2>4, <2>7 DEF NicIds
  <2>10. \A p \in WaitingAt(id) : id \in NicIds(nics[p[1]]) /\ id \in InNics(nics)
    BY <2>5, <2>7 DEF NicIds
  <2>11. \A p, o \in InFlight(id) : p = o
    <3> SUFFICES ASSUME NEW p \in InFlight(id), NEW o \in InFlight(id) PROVE p = o
      OBVIOUS
    <3>1. p[1] = o[1]
      BY <2>1, <2>3 DEF WiresOnce
    <3>2. p[2] = o[2]
      <4>1. Apart(WireIds, wires[p[1]])
        BY <2>1, <2>3 DEF WiresOnce
      <4>2. /\ p[2] \in 1..Len(wires[p[1]]) /\ id \in WireIds[wires[p[1]][p[2]]]
            /\ o[2] \in 1..Len(wires[p[1]]) /\ id \in WireIds[wires[p[1]][o[2]]]
        BY <2>3, <3>1
      <4> QED BY <4>1, <4>2, OneHolder
    <3> QED BY <2>3, <3>1, <3>2
  <2>12. \A p, o \in InQueue(id) : p = o
    <3> SUFFICES ASSUME NEW p \in InQueue(id), NEW o \in InQueue(id) PROVE p = o
      OBVIOUS
    <3>1. p[1] = o[1]
      BY <2>4, <2>8, <2>9
    <3>2. p[2] = o[2]
      <4>1. Apart(Ids, nics[p[1]].datagrams_in)
        BY <2>2, <2>4 DEF NicOnce
      <4>2. /\ p[2] \in 1..Len(nics[p[1]].datagrams_in)
            /\ id \in Ids[nics[p[1]].datagrams_in[p[2]]]
            /\ o[2] \in 1..Len(nics[p[1]].datagrams_in)
            /\ id \in Ids[nics[p[1]].datagrams_in[o[2]]]
        BY <2>4, <3>1
      <4> QED BY <4>1, <4>2, OneHolder
    <3> QED BY <2>4, <3>1, <3>2
  <2>13. \A p, o \in WaitingAt(id) : p = o
    <3> SUFFICES ASSUME NEW p \in WaitingAt(id), NEW o \in WaitingAt(id) PROVE p = o
      OBVIOUS
    <3>1. p[1] = o[1]
      BY <2>5, <2>8, <2>10
    <3> DEFINE pending == nics[p[1]].pending
    <3>2. PendingOnce(pending)
      BY <2>2, <2>5 DEF NicOnce
    <3>3. p[2] = o[2]
      BY <2>5, <3>1, <3>2 DEF PendingOnce
    <3>4. p[3] = o[3]
      <4>1. Apart(Ids, pending[p[2]])
        BY <2>5, <3>2 DEF PendingOnce
      <4>2. /\ p[3] \in 1..Len(pending[p[2]]) /\ id \in Ids[pending[p[2]][p[3]]]
            /\ o[3] \in 1..Len(pending[p[2]]) /\ id \in Ids[pending[p[2]][o[3]]]
        BY <2>5, <3>1, <3>3
      <4> HIDE DEF pending
      <4> QED BY <4>1, <4>2, OneHolder
    <3> QED BY <2>5, <3>1, <3>3, <3>4
  <2>14. \A j, k \in ReceivedAt(id) : j = k
    BY <2>1, <2>6, OneHolder
  <2>15. \A p \in InQueue(id), o \in WaitingAt(id) : FALSE
    <3> SUFFICES ASSUME NEW p \in InQueue(id), NEW o \in WaitingAt(id) PROVE FALSE
      OBVIOUS
    <3>1. p[1] = o[1]
      BY <2>4, <2>5, <2>8, <2>9, <2>10
    <3>2. Held(Ids, nics[p[1]].datagrams_in) \cap PendingIds(nics[p[1]].pending) = {}
      BY <2>2, <2>4 DEF NicOnce
    <3> QED BY <2>4, <2>5, <3>1, <3>2
  <2> DEFINE flight == InFlight(id)
             queue  == InQueue(id)
             wait   == WaitingAt(id)
             got    == ReceivedAt(id)
  <2>16. /\ flight = {} \/ (queue = {} /\ wait = {} /\ got = {})
         /\ got = {} \/ (queue = {} /\ wait = {})
         /\ queue = {} \/ wait = {}
    BY <2>1, <2>3, <2>6, <2>9, <2>10, <2>15
  <2>17. /\ Cardinality(flight) \in {0, 1} /\ (flight = {} => Cardinality(flight) = 0)
         /\ Cardinality(queue) \in {0, 1} /\ (queue = {} => Cardinality(queue) = 0)
         /\ Cardinality(wait) \in {0, 1} /\ (wait = {} => Cardinality(wait) = 0)
         /\ Cardinality(got) \in {0, 1} /\ (got = {} => Cardinality(got) = 0)
    BY <2>11, <2>12, <2>13, <2>14, OnePlace
  <2> HIDE DEF flight, queue, wait, got
  <2>18. Cardinality(flight) + Cardinality(queue) + Cardinality(wait) + Cardinality(got) <= 1
    BY <2>16, <2>17
  <2> QED BY <2>18 DEF flight, queue, wait, got
<1> QED BY <1>1, NetworkInvariant, OnceInvariant, PTL

-----------------------------------------------------------------------------
(* III. In order.  Hops, which the TTL counts: l is the history of what was *)
(* launched.                                                                *)

Hops(l, d) == l[d.id].ttl - d.ttl

\* Launched when all routes were there, by one host for one address.
Alike(l, d, e) ==
  /\ l[d.id].routed /\ l[e.id].routed
  /\ l[d.id].src = l[e.id].src /\ l[d.id].dst = l[e.id].dst

\* d may be where it is while e is where it is, and it may be there behind e.
NotBehind(l, d, e) == Alike(l, d, e) /\ d.id < e.id => Hops(l, d) >= Hops(l, e)
MayFollow(l, d, e) == Alike(l, d, e) /\ d.id < e.id => Hops(l, d) > Hops(l, e)

-----------------------------------------------------------------------------
(* Sequences in order.                                                      *)

Orderly(l, load, q) ==
  \A i, j \in 1..Len(q) :
    i < j => \A e \in load[q[i]], d \in load[q[j]] : MayFollow(l, d, e)

\* Part of an orderly sequence is orderly.
LEMMA OrderlyPart ==
  ASSUME NEW l, NEW load, NEW p, NEW q, NEW S, NEW e, Embeds(e, p, q, Len(q), S),
         Orderly(l, load, q)
  PROVE  Orderly(l, load, p)
<1>1. /\ e \in [1..Len(p) -> 1..Len(q)]
      /\ \A k \in 1..Len(p) : p[k] = q[e[k]]
      /\ \A j, k \in 1..Len(p) : j < k => e[j] < e[k]
  BY DEF Embeds
<1> SUFFICES ASSUME NEW i \in 1..Len(p), NEW j \in 1..Len(p), i < j,
                    NEW x \in load[p[i]], NEW y \in load[p[j]]
             PROVE  MayFollow(l, y, x)
  BY DEF Orderly
<1>2. e[i] \in 1..Len(q) /\ e[j] \in 1..Len(q) /\ e[i] < e[j]
  BY <1>1
<1>3. x \in load[q[e[i]]] /\ y \in load[q[e[j]]]
  BY <1>1
<1> QED BY <1>2, <1>3 DEF Orderly

\* One orderly sequence after another.
LEMMA OrderlyBoth ==
  ASSUME NEW l, NEW load, NEW T, NEW p \in Seq(T), NEW q \in Seq(T),
         Orderly(l, load, p), Orderly(l, load, q),
         \A e \in Held(load, p), d \in Held(load, q) : MayFollow(l, d, e)
  PROVE  Orderly(l, load, p \o q)
<1> DEFINE r == p \o q
           m == Len(p)
           n == Len(q)
<1>1. /\ r \in Seq(T) /\ Len(r) = m + n /\ m \in Nat /\ n \in Nat
      /\ \A i \in 1..(m + n) : IF i <= m THEN i \in 1..m /\ r[i] = p[i]
                               ELSE i - m \in 1..n /\ r[i] = q[i - m]
  BY Concatenation
<1> HIDE DEF r
<1> SUFFICES ASSUME NEW i \in 1..Len(r), NEW j \in 1..Len(r), i < j,
                    NEW e \in load[r[i]], NEW d \in load[r[j]]
             PROVE  MayFollow(l, d, e)
  BY DEF Orderly, r
<1> HIDE DEF m, n
<1>2. i \in 1..(m + n) /\ j \in 1..(m + n)
  BY <1>1
<1>3. CASE j <= m
  <2>1. i \in 1..m /\ j \in 1..m /\ r[i] = p[i] /\ r[j] = p[j]
    BY <1>1, <1>2, <1>3
  <2> QED BY <2>1 DEF Orderly, m
<1>4. CASE ~(i <= m)
  <2>1. /\ i - m \in 1..n /\ j - m \in 1..n /\ i - m < j - m
        /\ r[i] = q[i - m] /\ r[j] = q[j - m]
    BY <1>1, <1>2, <1>4
  <2> QED BY <2>1 DEF Orderly, n
<1>5. CASE i <= m /\ ~(j <= m)
  <2>1. i \in 1..m /\ j - m \in 1..n /\ r[i] = p[i] /\ r[j] = q[j - m]
    BY <1>1, <1>2, <1>5
  <2>2. e \in Held(load, p) /\ d \in Held(load, q)
    BY <2>1, HeldByOne DEF m, n
  <2> QED BY <2>2
<1> QED BY <1>1, <1>2, <1>3, <1>4, <1>5

\* The empty sequence is orderly.
LEMMA OrderlyNone ==
  ASSUME NEW l, NEW load
  PROVE  Orderly(l, load, <<>>)
<1>1. Len(<<>>) = 0
  OBVIOUS
<1> QED BY <1>1 DEF Orderly

\* One element is orderly, whatever it holds.
LEMMA OrderlySingle ==
  ASSUME NEW l, NEW load, NEW x
  PROVE  Orderly(l, load, <<x>>)
<1>1. Len(<<x>>) = 1
  OBVIOUS
<1>2. ~ \E i, j \in 1..1 : i < j
  OBVIOUS
<1> QED BY <1>1, <1>2 DEF Orderly

\* One more element at the end.
LEMMA OrderlyWithOneMore ==
  ASSUME NEW l, NEW load, NEW T, NEW q \in Seq(T), NEW x \in T,
         Orderly(l, load, q),
         \A e \in Held(load, q), d \in load[x] : MayFollow(l, d, e)
  PROVE  Orderly(l, load, Append(q, x))
<1> DEFINE one == <<x>>
<1>1. Append(q, x) = q \o one /\ one \in Seq(T)
  OBVIOUS
<1>2. Held(load, one) = load[x] /\ Orderly(l, load, one)
  BY HeldBySingle, OrderlySingle
<1> HIDE DEF one
<1>3. Orderly(l, load, q \o one)
  BY <1>1, <1>2, OrderlyBoth
<1> QED BY <1>1, <1>3

\* What comes after the first element may follow it.
LEMMA OrderlyTail ==
  ASSUME NEW l, NEW load, NEW T, NEW q \in Seq(T), q # <<>>, Orderly(l, load, q)
  PROVE  /\ Orderly(l, load, Tail(q))
         /\ \A e \in load[Head(q)], d \in Held(load, Tail(q)) : MayFollow(l, d, e)
<1> DEFINE t == Tail(q)
<1>1. /\ t \in Seq(T) /\ Len(q) \in Nat \ {0} /\ Len(t) = Len(q) - 1
      /\ Head(q) = q[1] /\ \A k \in 1..Len(t) : t[k] = q[k + 1]
  OBVIOUS
<1> HIDE DEF t
<1>2. Orderly(l, load, t)
  <2> SUFFICES ASSUME NEW i \in 1..Len(t), NEW j \in 1..Len(t), i < j,
                      NEW e \in load[t[i]], NEW d \in load[t[j]]
               PROVE  MayFollow(l, d, e)
    BY DEF Orderly
  <2>1. /\ i + 1 \in 1..Len(q) /\ j + 1 \in 1..Len(q) /\ i + 1 < j + 1
        /\ t[i] = q[i + 1] /\ t[j] = q[j + 1]
    BY <1>1
  <2> QED BY <2>1 DEF Orderly
<1>3. ASSUME NEW e \in load[Head(q)], NEW d \in Held(load, t)
      PROVE  MayFollow(l, d, e)
  <2>1. PICK j \in 1..Len(t) : d \in load[t[j]]
    BY HeldByOne
  <2>2. /\ 1 \in 1..Len(q) /\ j + 1 \in 1..Len(q) /\ 1 < j + 1
        /\ t[j] = q[j + 1] /\ e \in load[q[1]]
    BY <1>1
  <2> QED BY <2>1, <2>2 DEF Orderly
<1> QED BY <1>2, <1>3 DEF t

\* Orderly sequences joined, when what is in a later one may follow what is in
\* an earlier one.
LEMMA OrderlyFlattened ==
  ASSUME NEW l, NEW T, NEW qs \in Seq(Seq(T)), NEW load,
         \A k \in 1..Len(qs) : Orderly(l, load, qs[k]),
         \A j, k \in 1..Len(qs) :
           j < k => \A e \in Held(load, qs[j]), d \in Held(load, qs[k]) : MayFollow(l, d, e)
  PROVE  /\ Orderly(l, load, FlattenSeq(qs))
         /\ \A x : x \in Held(load, FlattenSeq(qs)) <=>
                     \E k \in 1..Len(qs) : x \in Held(load, qs[k])
<1>1. PICK f \in [0..Len(qs) -> Seq(T)] : Joins(f, qs) /\ FlattenSeq(qs) = f[Len(qs)]
  BY FlattenJoins
<1> DEFINE n == Len(qs)
           Good == {i \in 0..n : /\ Orderly(l, load, f[i])
                                 /\ \A x : x \in Held(load, f[i]) <=>
                                             \E k \in 1..i : x \in Held(load, qs[k])}
<1>2. n \in Nat /\ n \in 0..n
  OBVIOUS
<1>3. 0 \in Good
  <2>1. f[0] = <<>>
    BY <1>1 DEF Joins
  <2> QED BY <1>2, <2>1, HeldByNone, OrderlyNone
<1>4. ASSUME NEW i \in 1..n, i - 1 \in Good
      PROVE  i \in Good
  <2> DEFINE old == f[i - 1]
             q   == qs[i]
  <2>1. i - 1 \in 0..n /\ i \in 0..n
    BY <1>2
  <2>2. f[i] = old \o q
    BY <1>1 DEF Joins
  <2>3. old \in Seq(T) /\ q \in Seq(T)
    <3>1. \A k \in 0..n : f[k] \in Seq(T)
      BY <1>1, Zenon
    <3>2. \A k \in 1..n : qs[k] \in Seq(T)
      BY ElementOfSeq, Zenon
    <3> HIDE DEF n
    <3> QED BY <2>1, <3>1, <3>2, Zenon
  <2>4. /\ Orderly(l, load, old)
        /\ \A x : x \in Held(load, old) <=> \E k \in 1..(i - 1) : x \in Held(load, qs[k])
    BY <1>4
  <2>5. \A k : k \in 1..i <=> k \in 1..(i - 1) \/ k = i
    OBVIOUS
  <2>6. \A k \in 1..(i - 1) : k \in 1..Len(qs) /\ k < i
    BY <1>2
  <2> HIDE DEF old
  <2>7. \A e \in Held(load, old), d \in Held(load, q) : MayFollow(l, d, e)
    <3>1. i \in 1..Len(qs)
      OBVIOUS
    <3> QED BY <2>4, <2>6, <3>1
  <2> HIDE DEF q
  <2>8. Orderly(l, load, q)
    BY DEF q
  <2>9. /\ Orderly(l, load, f[i])
        /\ Held(load, f[i]) = Held(load, old) \union Held(load, q)
    BY <2>2, <2>3, <2>4, <2>7, <2>8, HeldByBoth, OrderlyBoth
  <2>10. \A x : x \in Held(load, f[i]) <=> \E k \in 1..i : x \in Held(load, qs[k])
    BY <2>4, <2>5, <2>9 DEF q
  <2> QED BY <2>1, <2>9, <2>10
<1> HIDE DEF Good
<1>5. \A i \in 0..n : i \in Good
  BY <1>2, <1>3, <1>4, InductionUpTo
<1> QED BY <1>1, <1>2, <1>5 DEF Good

\* Nothing held, nothing out of order.
LEMMA OrderlyUnladen ==
  ASSUME NEW l, NEW load, NEW q, Held(load, q) = {}
  PROVE  Orderly(l, load, q)
BY HeldByOne DEF Orderly

-----------------------------------------------------------------------------
(* Paths.  On hop k a datagram is with an interface that transmits it, for  *)
(* the address of the next hop.                                             *)

Places == Nics \X Addresses

\* The router that has the address to which a datagram was transmitted
\* transmits it by the interface, and to the address, of its best route.
Leads(at, to, dst) ==
  \E r \in Routers, u \in Nics :
    LET best  == BestMatch(RoutePlan[r], dst)
        route == RoutePlan[r][best]
    IN  /\ u \in ToSet(Interfaces[r]) /\ IpAddress[u] = at[2]
        /\ best # 0
        /\ to = << Interfaces[r][route.interface_num + 1], NextHop(route, [dst |-> dst]) >>

IsPath(p, src, dst, k) ==
  /\ p \in [0..k -> Places]
  /\ p[0] = << src, Gateways[src] >>
  /\ \A m \in 1..k : Leads(p[m - 1], p[m], dst)

Goes(src, dst, k, n, ip) == \E p : IsPath(p, src, dst, k) /\ p[k] = << n, ip >>

\* One place leads to one other at most, since an address belongs to one
\* interface and an interface to one router.
LEMMA LeadsToOne ==
  ASSUME NEW at, NEW to, NEW other, NEW dst, Leads(at, to, dst), Leads(at, other, dst)
  PROVE  to = other
<1> DEFINE best(r)  == BestMatch(RoutePlan[r], dst)
           route(r) == RoutePlan[r][best(r)]
           next(r)  == << Interfaces[r][route(r).interface_num + 1],
                          NextHop(route(r), [dst |-> dst]) >>
<1>1. PICK r \in Routers, u \in Nics :
        u \in ToSet(Interfaces[r]) /\ IpAddress[u] = at[2] /\ to = next(r)
  BY Zenon DEF Leads
<1>2. PICK q \in Routers, v \in Nics :
        v \in ToSet(Interfaces[q]) /\ IpAddress[v] = at[2] /\ other = next(q)
  BY Zenon DEF Leads
<1> HIDE DEF next
<1>3. u = v
  BY <1>1, <1>2, InternetAssumption DEF IsInjective
<1>4. r = q
  BY <1>1, <1>2, <1>3, OwnersAssumption
<1> QED BY <1>1, <1>2, <1>4

\* Nothing leads on from a host.
LEMMA HostLeadsNowhere ==
  ASSUME NEW at, NEW to, NEW dst, Leads(at, to, dst)
  PROVE  at[2] \notin HostAddresses
<1>1. PICK r \in Routers, u \in Nics : u \in ToSet(Interfaces[r]) /\ IpAddress[u] = at[2]
  BY DEF Leads
<1>2. u \notin Hosts
  <2>1. Interfaces[r] \in Seq(Nics \ Hosts)
    BY InternetAssumption
  <2> QED BY <1>1, <2>1 DEF ToSet
<1>3. \A h \in Hosts : h \in Nics /\ (IpAddress[h] = IpAddress[u] => h = u)
  BY InternetAssumption DEF IsInjective
<1> QED BY <1>1, <1>2, <1>3 DEF HostAddresses

\* There is one path.
LEMMA PathsAgree ==
  ASSUME NEW src, NEW dst, NEW k \in Nat, NEW h \in Nat, k <= h,
         NEW p, IsPath(p, src, dst, k), NEW q, IsPath(q, src, dst, h)
  PROVE  \A m \in 0..k : p[m] = q[m]
<1> DEFINE Same == {m \in 0..k : p[m] = q[m]}
<1>1. 0 \in Same
  <2>1. 0 \in 0..k
    OBVIOUS
  <2>2. p[0] = q[0]
    BY Zenon DEF IsPath
  <2> QED BY <2>1, <2>2
<1>2. ASSUME NEW m \in 1..k, m - 1 \in Same
      PROVE  m \in Same
  <2>1. m \in 1..h /\ m \in 0..k /\ p[m - 1] = q[m - 1]
    BY <1>2
  <2>2. Leads(p[m - 1], p[m], dst) /\ Leads(p[m - 1], q[m], dst)
    BY <2>1 DEF IsPath
  <2> QED BY <2>1, <2>2, LeadsToOne
<1>3. \A m \in 0..k : m \in Same
  <2> HIDE DEF Same
  <2> QED BY <1>1, <1>2, InductionUpTo
<1> QED BY <1>3

\* After as many hops a datagram is at the same place, and it goes no further
\* than to a host.
LEMMA GoesOneWay ==
  ASSUME NEW src, NEW dst, NEW k \in Nat, NEW h \in Nat, NEW n, NEW ip, NEW m, NEW jp,
         Goes(src, dst, k, n, ip), Goes(src, dst, h, m, jp)
  PROVE  /\ k = h => n = m /\ ip = jp
         /\ ip \in HostAddresses => h <= k
<1>1. PICK p : IsPath(p, src, dst, k) /\ p[k] = << n, ip >>
  BY DEF Goes
<1>2. PICK q : IsPath(q, src, dst, h) /\ q[h] = << m, jp >>
  BY DEF Goes
<1>3. ASSUME k = h
      PROVE  n = m /\ ip = jp
  <2>1. p[k] = q[h]
    BY <1>1, <1>2, <1>3, PathsAgree
  <2> QED BY <1>1, <1>2, <2>1
<1>4. ASSUME ip \in HostAddresses, ~(h <= k)
      PROVE  FALSE
  <2>1. k \in 0..k /\ k <= h /\ k + 1 \in 1..h /\ (k + 1) - 1 = k
    BY <1>4
  <2>2. q[k] = << n, ip >>
    <3>1. \A i \in 0..k : p[i] = q[i]
      BY <1>1, <1>2, <2>1, PathsAgree
    <3> QED BY <1>1, <2>1, <3>1, Zenon
  <2>3. Leads(q[k], q[k + 1], dst)
    BY <1>2, <2>1 DEF IsPath
  <2>4. q[k][2] \notin HostAddresses
    BY <2>3, HostLeadsNowhere
  <2> QED BY <1>4, <2>2, <2>4
<1> QED BY <1>3, <1>4

\* The path of a datagram starts with its host and gateway.
LEMMA GoesFrom ==
  ASSUME NEW src \in Hosts, NEW dst
  PROVE  Goes(src, dst, 0, src, Gateways[src])
<1> DEFINE p == [m \in 0..0 |-> << src, Gateways[src] >>]
<1>1. src \in Nics /\ Gateways[src] \in Addresses
  BY InternetAssumption, RoutesAssumption
<1>2. 0..0 = {0} /\ 1..0 = {}
  OBVIOUS
<1>3. p \in [0..0 -> Places] /\ p[0] = << src, Gateways[src] >>
  BY <1>1, <1>2 DEF Places
<1> HIDE DEF p
<1>4. IsPath(p, src, dst, 0)
  BY <1>2, <1>3 DEF IsPath
<1> QED BY <1>3, <1>4 DEF Goes

\* And goes on from a router.
LEMMA GoesOn ==
  ASSUME NEW src, NEW dst, NEW k \in Nat, NEW n, NEW ip, Goes(src, dst, k, n, ip),
         NEW m \in Nics, NEW jp \in Addresses, Leads(<< n, ip >>, << m, jp >>, dst)
  PROVE  Goes(src, dst, k + 1, m, jp)
<1>1. PICK p : IsPath(p, src, dst, k) /\ p[k] = << n, ip >>
  BY DEF Goes
<1> DEFINE to == << m, jp >>
           q  == [i \in 0..(k + 1) |-> IF i = k + 1 THEN to ELSE p[i]]
<1>2. to \in Places /\ p \in [0..k -> Places]
  BY <1>1 DEF IsPath, Places
<1> HIDE DEF to
<1>3. /\ q \in [0..(k + 1) -> Places]
      /\ q[k + 1] = to /\ \A i \in 0..k : q[i] = p[i]
  <2>1. \A i \in 0..(k + 1) : i = k + 1 \/ i \in 0..k
    OBVIOUS
  <2>2. k + 1 \in 0..(k + 1) /\ \A i \in 0..k : i \in 0..(k + 1) /\ i # k + 1
    OBVIOUS
  <2> QED BY <1>2, <2>1, <2>2
<1> HIDE DEF q
<1>4. q[0] = << src, Gateways[src] >>
  BY <1>1, <1>3 DEF IsPath
<1>5. ASSUME NEW i \in 1..(k + 1)
      PROVE  Leads(q[i - 1], q[i], dst)
  <2>1. CASE i = k + 1
    <3>1. q[i - 1] = << n, ip >> /\ q[i] = to
      <4>1. i - 1 = k /\ k \in 0..k
        BY <2>1
      <4> QED BY <1>1, <1>3, <2>1, <4>1
    <3> QED BY <3>1 DEF to
  <2>2. CASE i # k + 1
    <3>1. i \in 1..k /\ i \in 0..k /\ i - 1 \in 0..k
      BY <2>2
    <3> QED BY <1>1, <1>3, <3>1 DEF IsPath
  <2> QED BY <2>1, <2>2
<1>6. IsPath(q, src, dst, k + 1)
  BY <1>3, <1>4, <1>5 DEF IsPath
<1> QED BY <1>3, <1>6 DEF Goes, to

-----------------------------------------------------------------------------
(* Datagrams on their paths.                                                *)

History == Seq([src : Hosts, dst : Addresses, ttl : Nat, routed : BOOLEAN])

\* d is one of those launched, and if routed, interface n transmits it to ip.
Fits(l, d, n, ip) ==
  /\ d.id \in 1..Len(l) /\ d.dst = l[d.id].dst /\ d.ttl <= l[d.id].ttl
  /\ l[d.id].routed => Goes(l[d.id].src, d.dst, Hops(l, d), n, ip)

\* The hops of a datagram are counted.
LEMMA FitsHops ==
  ASSUME NEW l \in History, NEW d \in Datagrams, NEW n, NEW ip, Fits(l, d, n, ip)
  PROVE  Hops(l, d) \in Nat
<1>1. l[d.id] \in [src : Hosts, dst : Addresses, ttl : Nat, routed : BOOLEAN]
  BY ElementOfSeq DEF Fits, History
<1>2. l[d.id].ttl \in Nat /\ d.ttl \in Nat /\ d.ttl <= l[d.id].ttl
  BY <1>1 DEF Fits, Datagrams
<1> QED BY <1>2 DEF Hops

\* Datagrams of a kind at different places have gone different numbers of hops.
LEMMA Elsewhere ==
  ASSUME NEW l \in History, NEW d \in Datagrams, NEW e \in Datagrams,
         NEW n, NEW ip, Fits(l, d, n, ip), NEW m, NEW jp, Fits(l, e, m, jp),
         n # m \/ ip # jp, NotBehind(l, d, e)
  PROVE  MayFollow(l, d, e)
<1> SUFFICES ASSUME Alike(l, d, e), d.id < e.id
             PROVE  Hops(l, d) > Hops(l, e)
  BY DEF MayFollow
<1>1. Hops(l, d) \in Nat /\ Hops(l, e) \in Nat /\ Hops(l, d) >= Hops(l, e)
  BY FitsHops DEF NotBehind
<1>2. ASSUME Hops(l, d) = Hops(l, e)
      PROVE  FALSE
  <2>1. /\ Goes(l[d.id].src, l[d.id].dst, Hops(l, d), n, ip)
        /\ Goes(l[d.id].src, l[d.id].dst, Hops(l, d), m, jp)
    BY <1>2 DEF Fits, Alike
  <2> QED BY <1>1, <2>1, GoesOneWay
<1> QED BY <1>1, <1>2

\* Nothing has gone further than what a host got.
LEMMA HostIsLast ==
  ASSUME NEW l \in History, NEW d \in Datagrams, NEW e \in Datagrams,
         NEW n, NEW ip, Fits(l, d, n, ip), NEW m, NEW jp, Fits(l, e, m, jp),
         Alike(l, d, e), jp \in HostAddresses
  PROVE  Hops(l, d) <= Hops(l, e)
<1>1. Hops(l, d) \in Nat /\ Hops(l, e) \in Nat
  BY FitsHops
<1>2. /\ Goes(l[d.id].src, l[d.id].dst, Hops(l, d), n, ip)
      /\ Goes(l[d.id].src, l[d.id].dst, Hops(l, e), m, jp)
  BY DEF Fits, Alike
<1> QED BY <1>1, <1>2, GoesOneWay

\* A router whose routes are all there passes a datagram on along its path.
LEMMA FitsOn ==
  ASSUME NEW l \in History, NEW r \in Routers, NEW rt \in RoutersOf(r),
         NEW d \in Datagrams, Survives(d),
         l[d.id].routed => rt.routing_table = RoutePlan[r],
         NEW t, NEW u \in Nics, u \in ToSet(Interfaces[r]), Fits(l, d, t, IpAddress[u]),
         NEW i \in Nics, NEW hop \in Addresses, BestHop(rt, d, i, hop)
  PROVE  Fits(l, Older(d), i, hop) /\ Hops(l, Older(d)) = Hops(l, d) + 1
<1> DEFINE e == Older(d)
<1>1. l[d.id].ttl \in Nat /\ Hops(l, d) \in Nat
  <2>1. l[d.id] \in [src : Hosts, dst : Addresses, ttl : Nat, routed : BOOLEAN]
    BY ElementOfSeq DEF Fits, History
  <2> QED BY <2>1, FitsHops
<1>2. e.id = d.id /\ e.dst = d.dst /\ e.ttl = d.ttl - 1 /\ d.ttl \in Nat /\ d.ttl > 1
  BY DEF Older, Survives, Datagrams
<1> HIDE DEF e
<1>3. Hops(l, e) = Hops(l, d) + 1
  BY <1>1, <1>2 DEF Hops
<1>4. ASSUME l[d.id].routed
      PROVE  Goes(l[d.id].src, d.dst, Hops(l, d) + 1, i, hop)
  <2> DEFINE dst   == d.dst
             best  == BestMatch(RoutePlan[r], dst)
             route == RoutePlan[r][best]
  <2>1. /\ best # 0
        /\ i = Interfaces[r][route.interface_num + 1] /\ hop = NextHop(route, d)
    BY <1>4, Zenon DEF BestHop, RoutersOf
  <2>2. hop = NextHop(route, [dst |-> dst])
    BY <2>1 DEF NextHop
  <2>3. << t, IpAddress[u] >>[2] = IpAddress[u]
    OBVIOUS
  <2>4. Leads(<< t, IpAddress[u] >>, << i, hop >>, dst)
    BY <2>1, <2>2, <2>3, Zenon DEF Leads
  <2>5. Goes(l[d.id].src, dst, Hops(l, d), t, IpAddress[u])
    BY <1>4 DEF Fits
  <2> HIDE DEF dst
  <2>6. Goes(l[d.id].src, dst, Hops(l, d) + 1, i, hop)
    BY <1>1, <2>4, <2>5, GoesOn
  <2> QED BY <2>6 DEF dst
<1>5. d.id \in 1..Len(l) /\ d.dst = l[d.id].dst /\ d.ttl <= l[d.id].ttl
  BY DEF Fits
<1>6. Fits(l, e, i, hop)
  BY <1>1, <1>2, <1>3, <1>4, <1>5 DEF Fits
<1> QED BY <1>3, <1>6 DEF e

-----------------------------------------------------------------------------
(* What interfaces do with the datagrams that wait.                         *)

\* Nothing waits for an address that is known.
Quiet(n) == \A ip \in DOMAIN n.arp_cache : Waiting(n, ip) = <<>>

\* A datagram is transmitted when nothing waits for its next hop, or waits
\* behind what does (NetworkInterface::send_datagram).
LEMMA SendsLast ==
  ASSUME NEW n, NEW name \in Nics, Sound(n, name), Quiet(n),
         NEW hop \in Addresses, NEW d \in For(hop)
  PROVE  LET m   == SendDatagram(n, d, hop)
             out == SendDatagramTransmits(n, d, hop)
         IN  /\ m.datagrams_in = n.datagrams_in /\ Quiet(m)
             /\ \A ip : ip # hop => Waiting(m, ip) = Waiting(n, ip)
             /\ \/ /\ m = n /\ Waiting(n, hop) = <<>>
                   /\ \E mac \in Nics : IpAddress[mac] = hop /\ out = << IPv4Frame(n, mac, d) >>
                \/ /\ Waiting(m, hop) = Append(Waiting(n, hop), d)
                   /\ out \in Seq(ARPFrames)
<1> DEFINE m   == SendDatagram(n, d, hop)
           out == SendDatagramTransmits(n, d, hop)
<1>1. CASE hop \in DOMAIN n.arp_cache
  <2> DEFINE mac == n.arp_cache[hop].mac
  <2>1. m = n /\ out = << IPv4Frame(n, mac, d) >>
    BY <1>1 DEF SendDatagram, SendDatagramTransmits
  <2>2. mac \in Nics /\ IpAddress[mac] = hop
    <3>1. n.arp_cache \in Maps(Addresses, Entries)
      BY DEF Sound, NetworkInterfaces
    <3>2. n.arp_cache[hop] \in Entries
      BY <1>1, <3>1, MapValue
    <3> QED BY <1>1, <3>2 DEF Entries, Sound, Truthful
  <2>3. Waiting(n, hop) = <<>>
    BY <1>1 DEF Quiet
  <2> HIDE DEF m, out, mac
  <2> QED BY <2>1, <2>2, <2>3 DEF m, out
<1>2. CASE hop \notin DOMAIN n.arp_cache
  <2> DEFINE queue == Append(Waiting(n, hop), d)
             books == Put(n.pending, hop, queue)
             timer == IF MayAsk(n, hop) THEN Put(n.arp_timer, hop, 0) ELSE n.arp_timer
  <2>1. /\ m.pending = books /\ m.datagrams_in = n.datagrams_in
        /\ m.arp_cache = n.arp_cache
    <3>1. m = [n EXCEPT !.pending = books, !.arp_timer = timer]
      BY <1>2 DEF SendDatagram
    <3>2. n \in NetworkInterfaces
      BY DEF Sound
    <3> HIDE DEF books, timer, m
    <3> QED BY <3>1, <3>2 DEF NetworkInterfaces
  <2>2. Waiting(m, hop) = queue /\ \A ip : ip # hop => Waiting(m, ip) = Waiting(n, ip)
    <3>1. /\ DOMAIN books = DOMAIN n.pending \union {hop}
          /\ books[hop] = queue
          /\ \A ip \in DOMAIN n.pending : ip # hop => books[ip] = n.pending[ip]
      BY DEF Put
    <3> HIDE DEF books, queue, m
    <3> QED BY <2>1, <3>1 DEF Waiting
  <2>3. Quiet(m)
    <3> HIDE DEF m
    <3> QED BY <1>2, <2>1, <2>2 DEF Quiet
  <2>4. out \in Seq(ARPFrames)
    <3>1. ARPRequest(n, hop) \in ARPFrames
      BY RequestOK DEF ARPRequest, Frames, DatagramFrames
    <3>2. out = << ARPRequest(n, hop) >> \/ out = <<>>
      BY <1>2 DEF SendDatagramTransmits
    <3> DEFINE request == ARPRequest(n, hop)
    <3> HIDE DEF out, request
    <3>3. << request >> \in Seq(ARPFrames) /\ <<>> \in Seq(ARPFrames)
      BY <3>1 DEF request
    <3> QED BY <3>2, <3>3 DEF request
  <2> HIDE DEF m, out, queue
  <2> QED BY <2>1, <2>2, <2>3, <2>4 DEF m, out, queue
<1> QED BY <1>1, <1>2

\* When an address is learned, what waits for it is transmitted, in its order,
\* and nothing else (NetworkInterface::recv_frame).
LEMMA LearnsInOrder ==
  ASSUME NEW n, NEW name \in Nics, Sound(n, name), Quiet(n), NEW mac \in Nics
  PROVE  LET ip  == IpAddress[mac]
             m   == Learn(n, ip, mac)
             out == LearnTransmits(n, ip, mac)
             w   == Waiting(n, ip)
         IN  /\ m.datagrams_in = n.datagrams_in /\ Quiet(m)
             /\ Waiting(m, ip) = <<>>
             /\ \A jp : jp # ip => Waiting(m, jp) = Waiting(n, jp)
             /\ w \in Seq(For(ip)) /\ out \in Seq(Frames) /\ Len(out) = Len(w)
             /\ \A k \in 1..Len(w) : out[k] = IPv4Frame(n, mac, w[k])
<1> DEFINE ip    == IpAddress[mac]
           m     == Learn(n, ip, mac)
           out   == LearnTransmits(n, ip, mac)
           w     == Waiting(n, ip)
           cache == Put(n.arp_cache, ip, [mac |-> mac, ttl_ms |-> ARP_TTL_MS])
           timer == Restrict(n.arp_timer, DOMAIN n.arp_timer \ {ip})
           books == Restrict(n.pending, DOMAIN n.pending \ {ip})
<1>1. m.pending = books /\ m.datagrams_in = n.datagrams_in /\ m.arp_cache = cache
  <2>1. m = [n EXCEPT !.arp_cache = cache, !.arp_timer = timer, !.pending = books]
    BY DEF Learn
  <2>2. n \in NetworkInterfaces
    BY DEF Sound
  <2> HIDE DEF cache, timer, books, m
  <2> QED BY <2>1, <2>2 DEF NetworkInterfaces
<1>2. /\ DOMAIN books = DOMAIN n.pending \ {ip}
      /\ \A y \in DOMAIN books : books[y] = n.pending[y]
      /\ DOMAIN cache = DOMAIN n.arp_cache \union {ip}
  BY DEF Restrict, Put
<1>3. w \in Seq(For(ip)) /\ out \in Seq(Frames)
  BY Waits, LearnIsSound
<1>4. Len(out) = Len(w) /\ \A k \in 1..Len(w) : out[k] = IPv4Frame(n, mac, w[k])
  <2>1. out = [k \in DOMAIN w |-> IPv4Frame(n, mac, w[k])]
    BY DEF LearnTransmits
  <2> HIDE DEF w, ip, out
  <2>2. DOMAIN w = 1..Len(w) /\ Len(w) \in Nat
    BY <1>3
  <2>3. Len(out) = Len(w)
    BY <1>3, <2>1, <2>2
  <2> QED BY <2>1, <2>2, <2>3
<1> HIDE DEF ip, m, out, w, cache, books
<1>5. Waiting(m, ip) = <<>> /\ \A jp : jp # ip => Waiting(m, jp) = Waiting(n, jp)
  BY <1>1, <1>2 DEF Waiting
<1>6. Quiet(m)
  BY <1>1, <1>2, <1>5 DEF Quiet
<1> QED BY <1>1, <1>3, <1>4, <1>5, <1>6 DEF ip, m, out, w

\* As time passes, what waits is kept or dropped (NetworkInterface::tick).
LEMMA TickDrops ==
  ASSUME NEW n, NEW name \in Nics, Sound(n, name), Quiet(n), NEW ms \in Nat
  PROVE  LET m == InterfaceTick(n, ms)
         IN  /\ m.datagrams_in = n.datagrams_in /\ Quiet(m)
             /\ \A ip : Waiting(m, ip) = Waiting(n, ip) \/ Waiting(m, ip) = <<>>
<1> DEFINE m     == InterfaceTick(n, ms)
           again == Retries(n, ms)
           cache == Aged(n.arp_cache, ms)
           timer == [ip \in DOMAIN n.arp_timer |->
                       IF ip \in again THEN 0 ELSE n.arp_timer[ip] + ms]
           books == [ip \in DOMAIN n.pending |->
                       IF ip \in again THEN <<>> ELSE n.pending[ip]]
<1>1. m.pending = books /\ m.datagrams_in = n.datagrams_in /\ m.arp_cache = cache
  <2>1. m = [n EXCEPT !.arp_cache = cache, !.arp_timer = timer, !.pending = books]
    BY DEF InterfaceTick
  <2>2. n \in NetworkInterfaces
    BY DEF Sound
  <2> HIDE DEF cache, timer, books, m
  <2> QED BY <2>1, <2>2 DEF NetworkInterfaces
<1>2. /\ DOMAIN books = DOMAIN n.pending
      /\ \A ip \in DOMAIN books : books[ip] = <<>> \/ books[ip] = n.pending[ip]
      /\ DOMAIN cache \subseteq DOMAIN n.arp_cache
  BY DEF Aged
<1> HIDE DEF m, books, cache
<1>3. \A ip : Waiting(m, ip) = Waiting(n, ip) \/ Waiting(m, ip) = <<>>
  BY <1>1, <1>2 DEF Waiting
<1>4. Quiet(m)
  BY <1>1, <1>2, <1>3 DEF Quiet
<1> QED BY <1>1, <1>3, <1>4 DEF m

-----------------------------------------------------------------------------
(* Who is before whom: what hosts took, what has arrived (todo is what a    *)
(* router is about to route), what is on the segments, what is about to be  *)
(* put there (frames), and what waits.                                      *)

Grams        == [d \in Datagrams |-> {d}]
FrameGrams   == [f \in Frames |-> IF f.type = "IPv4" THEN {f.datagram} ELSE {}]
WireGrams    == [x \in Nics \X Frames |-> FrameGrams[x[2]]]
ReceiptGrams == [x \in Receipts |-> {x.datagram}]

Arrivals(ns) == UNION {Held(Grams, ns[n].datagrams_in) : n \in Nics}
Aloft(ws)    == UNION {Held(WireGrams, ws[s]) : s \in Segments}
Waiters(ns)  == UNION {Held(Grams, Waiting(ns[n], ip)) : n \in Nics, ip \in Addresses}

Staged(l, R, Q, F, G, W) ==
  /\ \A d, e \in R \union Q \union F \union G \union W : NotBehind(l, d, e)
  /\ \A e \in R, d \in Q \union F \union G \union W : MayFollow(l, d, e)
  /\ \A e \in Q, d \in F \union G \union W : MayFollow(l, d, e)
  /\ \A e \in F, d \in G \union W : MayFollow(l, d, e)
  /\ \A e \in G, d \in W : MayFollow(l, d, e)

Everything(ns, ws, rc, frames, todo) ==
  Held(ReceiptGrams, rc) \union (Arrivals(ns) \union Held(Grams, todo)) \union Aloft(ws)
    \union Held(WireGrams, frames) \union Waiters(ns)

Stages(l, ns, ws, rc, frames, todo) ==
  Staged(l, Held(ReceiptGrams, rc), Arrivals(ns) \union Held(Grams, todo), Aloft(ws),
         Held(WireGrams, frames), Waiters(ns))

Rows(l, ns, ws, rc, frames, todo) ==
  /\ \A n \in Nics : Orderly(l, Grams, ns[n].datagrams_in)
  /\ \A n \in Nics, ip \in Addresses : Orderly(l, Grams, Waiting(ns[n], ip))
  /\ \A s \in Segments : Orderly(l, WireGrams, ws[s])
  /\ Orderly(l, WireGrams, frames)
  /\ Orderly(l, Grams, todo)
  /\ Orderly(l, ReceiptGrams, rc)

\* What may wait with interface n for ip, arrive at n, be transmitted (on
\* segment s), and be taken by a host.
FitAt(l, n, ip) == {d \in Datagrams : Fits(l, d, n, ip)}
FitIn(l, n)     == {d \in Datagrams : \E t \in Nics : Fits(l, d, t, IpAddress[n])}
FitFrames(l)    == {x \in Nics \X Frames :
                      \A d \in WireGrams[x] : Fits(l, d, x[1], IpAddress[x[2].dst])}
FitOn(l, s)     == {x \in FitFrames(l) : SegmentOf(x[1]) = s}
FitReceipts(l)  == {x \in Receipts : /\ x.datagram \in FitIn(l, x.host)
                                     /\ x.datagram.dst = IpAddress[x.host]}

Placed(l, ns, ws, rc, frames) ==
  /\ \A n \in Nics : /\ ns[n].datagrams_in \in Seq(FitIn(l, n))
                     /\ Quiet(ns[n])
                     /\ \A ip \in Addresses : Waiting(ns[n], ip) \in Seq(FitAt(l, n, ip))
  /\ \A s \in Segments : ws[s] \in Seq(FitOn(l, s))
  /\ frames \in Seq(FitFrames(l))
  /\ rc \in Seq(FitReceipts(l))

InLine(l, ns, ws, rc, frames, todo) ==
  /\ Stages(l, ns, ws, rc, frames, todo)
  /\ Rows(l, ns, ws, rc, frames, todo)
  /\ Placed(l, ns, ws, rc, frames)

\* What a queue of datagrams holds.
LEMMA GramsHeld ==
  ASSUME NEW S, S \subseteq Datagrams, NEW q \in Seq(S), NEW d, d \in Held(Grams, q)
  PROVE  d \in S
<1>1. PICK k \in 1..Len(q) : d \in Grams[q[k]]
  BY HeldByOne
<1>2. q[k] \in S
  BY ElementOfSeq
<1> QED BY <1>1, <1>2 DEF Grams

\* What a frame holds, and the interface it comes from and goes to.
LEMMA WireGramsOf ==
  ASSUME NEW x \in Nics \X Frames, NEW d, d \in WireGrams[x]
  PROVE  /\ d \in Datagrams /\ x[1] \in Nics /\ x[2] \in DatagramFrames
         /\ x[2].dst \in Nics /\ d = x[2].datagram
<1>1. x[2] \in Frames /\ x[1] \in Nics /\ d \in FrameGrams[x[2]]
  BY DEF WireGrams
<1>2. x[2].type = "IPv4" /\ d = x[2].datagram
  BY <1>1 DEF FrameGrams
<1>3. x[2] \in DatagramFrames
  BY <1>1, <1>2 DEF Frames, ARPFrames
<1> QED BY <1>1, <1>2, <1>3 DEF DatagramFrames

\* What frames hold is on its path.
LEMMA FramesHeld ==
  ASSUME NEW l, NEW q \in Seq(FitFrames(l)), NEW d, d \in Held(WireGrams, q)
  PROVE  /\ d \in Datagrams
         /\ \E k \in 1..Len(q) : /\ q[k] \in FitFrames(l) /\ d \in WireGrams[q[k]]
                                 /\ Fits(l, d, q[k][1], IpAddress[q[k][2].dst])
<1>1. PICK k \in 1..Len(q) : d \in WireGrams[q[k]]
  BY HeldByOne
<1> DEFINE x == q[k]
<1>2. x \in FitFrames(l)
  BY ElementOfSeq
<1> HIDE DEF x
<1>3. d \in WireGrams[x]
  BY <1>1 DEF x
<1>4. d \in Datagrams /\ Fits(l, d, x[1], IpAddress[x[2].dst])
  BY <1>2, <1>3, WireGramsOf DEF FitFrames
<1> QED BY <1>2, <1>3, <1>4 DEF x

\* A datagram that waits is on its path.
LEMMA WaitersHeld ==
  ASSUME NEW l, NEW ns, NEW ws, NEW rc, NEW frames, Placed(l, ns, ws, rc, frames),
         NEW d, d \in Waiters(ns)
  PROVE  /\ d \in Datagrams
         /\ \E n \in Nics, ip \in Addresses :
              d \in Held(Grams, Waiting(ns[n], ip)) /\ Fits(l, d, n, ip)
<1>1. PICK n \in Nics, ip \in Addresses : d \in Held(Grams, Waiting(ns[n], ip))
  BY DEF Waiters
<1>2. Waiting(ns[n], ip) \in Seq(FitAt(l, n, ip)) /\ FitAt(l, n, ip) \subseteq Datagrams
  BY DEF Placed, FitAt
<1>3. d \in FitAt(l, n, ip)
  BY <1>1, <1>2, GramsHeld
<1> QED BY <1>1, <1>3 DEF FitAt

\* ARP messages are never out of order.
LEMMA ARPFits ==
  ASSUME NEW l, NEW n \in Nics, NEW out \in Seq(ARPFrames)
  PROVE  /\ Held(WireGrams, SentBy(n, out)) = {}
         /\ SentBy(n, out) \in Seq(FitFrames(l))
         /\ Orderly(l, WireGrams, SentBy(n, out))
<1> DEFINE w == SentBy(n, out)
<1>1. out \in Seq(Frames)
  <2>1. ARPFrames \subseteq Frames
    BY DEF Frames
  <2> QED BY <2>1, SeqMonotonic, Zenon
<1>2. w \in Seq(Nics \X Frames) /\ Len(w) = Len(out) /\ \A k \in 1..Len(out) : w[k] = << n, out[k] >>
  BY <1>1, SentByIsWire DEF Wires
<1>3. ASSUME NEW k \in 1..Len(out)
      PROVE  w[k] \in FitFrames(l) /\ WireGrams[w[k]] = {}
  <2>1. out[k] \in ARPFrames
    BY ElementOfSeq
  <2>2. << n, out[k] >> \in Nics \X Frames /\ << n, out[k] >>[2] = out[k] /\ out[k].type = "ARP"
    BY <2>1 DEF Frames, ARPFrames
  <2> HIDE DEF w
  <2>3. WireGrams[<< n, out[k] >>] = {}
    BY <2>2 DEF WireGrams, FrameGrams
  <2> QED BY <1>2, <2>2, <2>3 DEF FitFrames
<1> HIDE DEF w
<1>4. Held(WireGrams, w) = {}
  BY <1>2, <1>3, HeldByOne
<1>5. w \in Seq(FitFrames(l))
  <2>1. \A k \in 1..Len(w) : w[k] \in FitFrames(l)
    BY <1>2, <1>3
  <2>2. Len(w) \in Nat /\ w = [k \in 1..Len(w) |-> w[k]]
    BY <1>2
  <2> QED BY <2>1, <2>2, IsASeq
<1>6. Orderly(l, WireGrams, w)
  BY <1>4, OrderlyUnladen
<1> QED BY <1>4, <1>5, <1>6 DEF w

\* A frame with a datagram for an interface.
LEMMA DatagramFits ==
  ASSUME NEW l, NEW i \in Nics, NEW n, Sound(n, i), NEW mac \in Nics,
         NEW d \in For(IpAddress[mac]), Fits(l, d, i, IpAddress[mac])
  PROVE  LET x == << i, IPv4Frame(n, mac, d) >>
         IN  x \in FitFrames(l) /\ WireGrams[x] = {d}
<1> DEFINE f == IPv4Frame(n, mac, d)
           x == << i, f >>
<1>1. f \in Frames
  BY DatagramFrameOK
<1>2. f.type = "IPv4" /\ f.datagram = d /\ f.dst = mac
  BY DEF IPv4Frame
<1> HIDE DEF f
<1>3. x \in Nics \X Frames /\ x[2] = f /\ x[1] = i
  BY <1>1
<1> HIDE DEF x
<1>4. WireGrams[x] = {d}
  BY <1>1, <1>2, <1>3 DEF WireGrams, FrameGrams
<1>5. x \in FitFrames(l)
  BY <1>2, <1>3, <1>4 DEF FitFrames
<1> QED BY <1>4, <1>5 DEF x, f

-----------------------------------------------------------------------------
(* Moves that keep the order.                                               *)

\* Nobody is before or after itself.
LEMMA WithItself ==
  ASSUME NEW l, NEW d \in Datagrams
  PROVE  NotBehind(l, d, d) /\ MayFollow(l, d, d)
<1>1. d.id \in Nat
  BY DEF Datagrams
<1>2. ~(d.id < d.id)
  BY <1>1
<1> QED BY <1>2 DEF NotBehind, MayFollow

\* Fewer datagrams are in order too.
LEMMA StagedFewer ==
  ASSUME NEW l, NEW R, NEW Q, NEW F, NEW G, NEW W, Staged(l, R, Q, F, G, W),
         NEW R1 \in SUBSET R, NEW Q1 \in SUBSET Q, NEW F1 \in SUBSET F,
         NEW G1 \in SUBSET G, NEW W1 \in SUBSET W
  PROVE  Staged(l, R1, Q1, F1, G1, W1)
<1>1. \A d, e \in R1 \union Q1 \union F1 \union G1 \union W1 : NotBehind(l, d, e)
  BY DEF Staged
<1>2. \A e \in R1, d \in Q1 \union F1 \union G1 \union W1 : MayFollow(l, d, e)
  BY DEF Staged
<1>3. \A e \in Q1, d \in F1 \union G1 \union W1 : MayFollow(l, d, e)
  BY DEF Staged
<1>4. \A e \in F1, d \in G1 \union W1 : MayFollow(l, d, e)
  BY DEF Staged
<1>5. \A e \in G1, d \in W1 : MayFollow(l, d, e)
  BY DEF Staged
<1> QED BY <1>1, <1>2, <1>3, <1>4, <1>5 DEF Staged

\* d may come behind all of X.
ComesLast(l, X, d) ==
  \A e \in X : MayFollow(l, d, e) /\ NotBehind(l, d, e) /\ NotBehind(l, e, d)

\* One datagram that comes last.
LEMMA StagedLast ==
  ASSUME NEW l, NEW R, NEW Q, NEW F, NEW G, NEW W, Staged(l, R, Q, F, G, W),
         NEW d \in Datagrams, ComesLast(l, R \union Q \union F \union G \union W, d)
  PROVE  /\ Staged(l, R, Q, F, G, W \union {d})
         /\ (\A e \in W : MayFollow(l, e, d)) => Staged(l, R, Q, F, G \union {d}, W)
<1> DEFINE All == R \union Q \union F \union G \union W
<1>1. \A e \in All : MayFollow(l, d, e) /\ NotBehind(l, d, e) /\ NotBehind(l, e, d)
  BY DEF ComesLast
<1>2. NotBehind(l, d, d)
  BY WithItself
<1>3. \A x, y \in All \union {d} : NotBehind(l, x, y)
  BY <1>1, <1>2 DEF Staged
<1>4. /\ \A x, y \in R \union Q \union F \union G \union (W \union {d}) : NotBehind(l, x, y)
      /\ \A x, y \in R \union Q \union F \union (G \union {d}) \union W : NotBehind(l, x, y)
  BY <1>3
<1>5. Staged(l, R, Q, F, G, W \union {d})
  <2>1. \A e \in R, x \in Q \union F \union G \union (W \union {d}) : MayFollow(l, x, e)
    BY <1>1 DEF Staged
  <2>2. \A e \in Q, x \in F \union G \union (W \union {d}) : MayFollow(l, x, e)
    BY <1>1 DEF Staged
  <2>3. \A e \in F, x \in G \union (W \union {d}) : MayFollow(l, x, e)
    BY <1>1 DEF Staged
  <2>4. \A e \in G, x \in W \union {d} : MayFollow(l, x, e)
    BY <1>1 DEF Staged
  <2> QED BY <1>4, <2>1, <2>2, <2>3, <2>4 DEF Staged
<1>6. ASSUME \A e \in W : MayFollow(l, e, d)
      PROVE  Staged(l, R, Q, F, G \union {d}, W)
  <2>1. \A e \in R, x \in Q \union F \union (G \union {d}) \union W : MayFollow(l, x, e)
    BY <1>1 DEF Staged
  <2>2. \A e \in Q, x \in F \union (G \union {d}) \union W : MayFollow(l, x, e)
    BY <1>1 DEF Staged
  <2>3. \A e \in F, x \in (G \union {d}) \union W : MayFollow(l, x, e)
    BY <1>1 DEF Staged
  <2>4. \A e \in G \union {d}, x \in W : MayFollow(l, x, e)
    BY <1>6 DEF Staged
  <2> QED BY <1>4, <2>1, <2>2, <2>3, <2>4 DEF Staged
<1> QED BY <1>5, <1>6

\* An interface sends a datagram that may come last.
LEMMA SendKeepsLine ==
  ASSUME NEW l \in History, NEW ns, AllSound(ns), NEW ws, NEW rc, NEW frames, NEW todo,
         InLine(l, ns, ws, rc, frames, todo),
         NEW i \in Nics, NEW hop \in Addresses, NEW d \in For(hop), Fits(l, d, i, hop),
         ComesLast(l, Everything(ns, ws, rc, frames, todo), d)
  PROVE  InLine(l, [ns EXCEPT ![i] = SendDatagram(@, d, hop)], ws, rc,
                frames \o SentBy(i, SendDatagramTransmits(ns[i], d, hop)), todo)
<1> DEFINE n   == ns[i]
           m   == SendDatagram(n, d, hop)
           out == SendDatagramTransmits(n, d, hop)
           fs  == SentBy(i, out)
           ms  == [ns EXCEPT ![i] = m]
           R == Held(ReceiptGrams, rc)
           Q == Arrivals(ns) \union Held(Grams, todo)
           F == Aloft(ws)
           G == Held(WireGrams, frames)
           W == Waiters(ns)
<1>1. Sound(n, i) /\ Quiet(n) /\ d \in Datagrams /\ DOMAIN ns = Nics
  BY DEF AllSound, InLine, Placed, For
<1>2. /\ m.datagrams_in = n.datagrams_in /\ Quiet(m)
      /\ \A ip : ip # hop => Waiting(m, ip) = Waiting(n, ip)
      /\ \/ /\ m = n /\ Waiting(n, hop) = <<>>
            /\ \E mac \in Nics : IpAddress[mac] = hop /\ out = << IPv4Frame(n, mac, d) >>
         \/ /\ Waiting(m, hop) = Append(Waiting(n, hop), d)
            /\ out \in Seq(ARPFrames)
  <2> HIDE DEF n
  <2> QED BY <1>1, SendsLast
<1>3. Staged(l, R, Q, F, G, W) /\ ComesLast(l, R \union Q \union F \union G \union W, d)
  BY Zenon DEF InLine, Stages, Everything
<1>4. ms[i] = m /\ \A j \in Nics : j # i => ms[j] = ns[j]
  BY <1>1
<1>5. frames \in Seq(FitFrames(l)) /\ Orderly(l, WireGrams, frames)
  BY DEF InLine, Placed, Rows
<1>6. Waiting(n, hop) \in Seq(FitAt(l, i, hop)) /\ d \in FitAt(l, i, hop)
  BY <1>1 DEF InLine, Placed, FitAt
<1> HIDE DEF m, out, ms
<1>7. Arrivals(ms) = Arrivals(ns)
  <2>1. \A j \in Nics : ms[j].datagrams_in = ns[j].datagrams_in
    BY <1>2, <1>4
  <2> QED BY <2>1 DEF Arrivals
<1>8. ASSUME NEW mac \in Nics, m = n, Waiting(n, hop) = <<>>,
             IpAddress[mac] = hop, out = << IPv4Frame(n, mac, d) >>
      PROVE  InLine(l, ms, ws, rc, frames \o fs, todo)
  <2> DEFINE f == IPv4Frame(n, mac, d)
             x == << i, f >>
  <2>1. x \in FitFrames(l) /\ WireGrams[x] = {d}
    BY <1>1, <1>8, DatagramFits
  <2>2. fs = << x >>
    <3>1. Len(<< f >>) = 1 /\ DOMAIN << f >> = 1..1 /\ << f >>[1] = f
      OBVIOUS
    <3> HIDE DEF f
    <3>2. fs = [k \in 1..1 |-> << i, << f >>[k] >>]
      BY <1>8, <3>1 DEF SentBy, f
    <3> QED BY <3>1, <3>2
  <2>3. ms = ns
    <3>1. DOMAIN ms = Nics /\ ms = [j \in Nics |-> ms[j]] /\ ns = [j \in Nics |-> ns[j]]
      BY <1>1 DEF ms, AllSound
    <3>2. \A j \in Nics : ms[j] = ns[j]
      BY <1>4, <1>8
    <3> QED BY <3>1, <3>2, Zenon
  <2> HIDE DEF x, fs
  <2>4. frames \o fs = Append(frames, x)
    BY <1>5, <2>1, <2>2
  <2>5. /\ Append(frames, x) \in Seq(FitFrames(l))
        /\ Held(WireGrams, Append(frames, x)) = G \union {d}
    BY <1>5, <2>1, HeldWithOneMore, AppendProperties
  <2>6. \A e \in W : MayFollow(l, e, d)
    <3> SUFFICES ASSUME NEW e \in W PROVE MayFollow(l, e, d)
      OBVIOUS
    <3>1. Placed(l, ns, ws, rc, frames)
      BY DEF InLine
    <3>2. e \in Datagrams
      BY <3>1, WaitersHeld
    <3>3. PICK j \in Nics, jp \in Addresses :
            e \in Held(Grams, Waiting(ns[j], jp)) /\ Fits(l, e, j, jp)
      BY <3>1, WaitersHeld
    <3>4. j # i \/ jp # hop
      BY <1>8, <3>3, HeldByNone
    <3>5. NotBehind(l, e, d)
      BY <1>3 DEF ComesLast
    <3> QED BY <1>1, <3>2, <3>3, <3>4, <3>5, Elsewhere
  <2>7. Staged(l, R, Q, F, G \union {d}, W)
    <3> HIDE DEF R, Q, F, G, W
    <3> QED BY <1>1, <1>3, <2>6, StagedLast
  <2>8. Orderly(l, WireGrams, Append(frames, x))
    <3>1. \A e \in G, y \in WireGrams[x] : MayFollow(l, y, e)
      BY <1>3, <2>1 DEF ComesLast
    <3> QED BY <1>5, <2>1, <3>1, OrderlyWithOneMore
  <2>9. Stages(l, ms, ws, rc, frames \o fs, todo)
    BY <2>3, <2>4, <2>5, <2>7, Zenon DEF Stages
  <2>10. Rows(l, ms, ws, rc, frames \o fs, todo)
    BY <2>3, <2>4, <2>8, Zenon DEF InLine, Rows
  <2>11. Placed(l, ms, ws, rc, frames \o fs)
    BY <2>3, <2>4, <2>5, Zenon DEF InLine, Placed
  <2> QED BY <2>9, <2>10, <2>11 DEF InLine
<1>9. ASSUME Waiting(m, hop) = Append(Waiting(n, hop), d), out \in Seq(ARPFrames)
      PROVE  InLine(l, ms, ws, rc, frames \o fs, todo)
  <2>1. /\ Held(WireGrams, fs) = {} /\ fs \in Seq(FitFrames(l))
        /\ Orderly(l, WireGrams, fs)
    BY <1>9, ARPFits
  <2> HIDE DEF fs
  <2>2. /\ frames \o fs \in Seq(FitFrames(l))
        /\ Held(WireGrams, frames \o fs) = G
        /\ Orderly(l, WireGrams, frames \o fs)
    <3>1. frames \o fs \in Seq(FitFrames(l))
      BY <1>5, <2>1, ConcatProperties
    <3>2. Held(WireGrams, frames \o fs) = Held(WireGrams, frames) \union Held(WireGrams, fs)
      <4> DEFINE T == FitFrames(l)
                 load == WireGrams
      <4>1. frames \in Seq(T) /\ fs \in Seq(T)
        BY <1>5, <2>1
      <4> HIDE DEF T, load
      <4>2. Held(load, frames \o fs) = Held(load, frames) \union Held(load, fs)
        BY <4>1, HeldByBoth
      <4> QED BY <4>2 DEF load
    <3>3. Orderly(l, WireGrams, frames \o fs)
      BY <1>5, <2>1, OrderlyBoth
    <3> QED BY <2>1, <3>1, <3>2, <3>3
  <2>3. /\ Waiting(m, hop) \in Seq(FitAt(l, i, hop))
        /\ Held(Grams, Waiting(m, hop)) = Held(Grams, Waiting(n, hop)) \union {d}
        /\ Orderly(l, Grams, Waiting(m, hop))
    <3> DEFINE w == Waiting(n, hop)
    <3>1. w \in Seq(FitAt(l, i, hop)) /\ Grams[d] = {d} /\ Orderly(l, Grams, w)
      BY <1>1, <1>6 DEF Grams, InLine, Rows
    <3>2. Held(Grams, w) \subseteq W
      BY DEF Waiters
    <3>3. \A e \in Held(Grams, w), y \in Grams[d] : MayFollow(l, y, e)
      BY <1>3, <3>1, <3>2 DEF ComesLast
    <3> HIDE DEF w
    <3>4. Append(w, d) \in Seq(FitAt(l, i, hop))
      BY <1>6, <3>1, AppendProperties
    <3>5. Held(Grams, Append(w, d)) = Held(Grams, w) \union Grams[d]
      BY <1>6, <3>1, HeldWithOneMore
    <3>6. Orderly(l, Grams, Append(w, d))
      BY <1>6, <3>1, <3>3, OrderlyWithOneMore
    <3> QED BY <1>9, <3>1, <3>4, <3>5, <3>6 DEF w
  <2>4. Waiters(ms) \subseteq W \union {d}
    <3> SUFFICES ASSUME NEW j \in Nics, NEW jp \in Addresses,
                        NEW e \in Held(Grams, Waiting(ms[j], jp))
                 PROVE  e \in W \union {d}
      BY DEF Waiters
    <3>1. CASE j = i /\ jp = hop
      <4>1. e \in Held(Grams, Waiting(ns[i], hop)) \/ e = d
        BY <1>4, <2>3, <3>1
      <4> QED BY <4>1 DEF Waiters
    <3>2. CASE j # i \/ jp # hop
      <4>1. Waiting(ms[j], jp) = Waiting(ns[j], jp)
        BY <1>2, <1>4, <3>2
      <4> QED BY <4>1 DEF Waiters
    <3> QED BY <3>1, <3>2
  <2>5. Staged(l, R, Q, F, G, Waiters(ms))
    <3> DEFINE V == Waiters(ms)
    <3>1. V \in SUBSET (W \union {d})
      BY <2>4
    <3> HIDE DEF R, Q, F, G, W, V
    <3>2. Staged(l, R, Q, F, G, W \union {d})
      BY <1>1, <1>3, StagedLast
    <3>3. Staged(l, R, Q, F, G, V)
      BY <3>1, <3>2, StagedFewer
    <3> QED BY <3>3 DEF V
  <2>6. Stages(l, ms, ws, rc, frames \o fs, todo)
    BY <1>7, <2>2, <2>5, Zenon DEF Stages
  <2>7. \A j \in Nics, jp \in Addresses :
          /\ Orderly(l, Grams, Waiting(ms[j], jp))
          /\ Waiting(ms[j], jp) \in Seq(FitAt(l, j, jp))
    <3> SUFFICES ASSUME NEW j \in Nics, NEW jp \in Addresses
                 PROVE  /\ Orderly(l, Grams, Waiting(ms[j], jp))
                        /\ Waiting(ms[j], jp) \in Seq(FitAt(l, j, jp))
      OBVIOUS
    <3>1. CASE j = i /\ jp = hop
      BY <1>4, <2>3, <3>1
    <3>2. CASE j # i \/ jp # hop
      <4>1. Waiting(ms[j], jp) = Waiting(ns[j], jp)
        BY <1>2, <1>4, <3>2
      <4> QED BY <4>1 DEF InLine, Rows, Placed
    <3> QED BY <3>1, <3>2
  <2>8. \A j \in Nics : ms[j].datagrams_in = ns[j].datagrams_in /\ Quiet(ms[j])
    BY <1>2, <1>4 DEF InLine, Placed
  <2>9. Rows(l, ms, ws, rc, frames \o fs, todo)
    BY <2>2, <2>7, <2>8 DEF InLine, Rows
  <2>10. Placed(l, ms, ws, rc, frames \o fs)
    BY <2>2, <2>7, <2>8 DEF InLine, Placed
  <2> QED BY <2>6, <2>9, <2>10 DEF InLine
<1>10. InLine(l, ms, ws, rc, frames \o fs, todo)
  BY <1>2, <1>8, <1>9
<1> QED BY <1>10 DEF ms, m, out, fs

\* What is about to be transmitted goes onto the segments, behind what is there.
LEMMA StagedCarried ==
  ASSUME NEW l, NEW R, NEW Q, NEW F, NEW G, NEW W, Staged(l, R, Q, F, G, W),
         NEW H, H \subseteq F \union G
  PROVE  Staged(l, R, Q, H, {}, W)
<1>1. Staged(l, R, Q, F \union G, {}, W)
  <2>1. \A d, e \in R \union Q \union (F \union G) \union {} \union W : NotBehind(l, d, e)
    BY DEF Staged
  <2>2. \A e \in R, d \in Q \union (F \union G) \union {} \union W : MayFollow(l, d, e)
    BY DEF Staged
  <2>3. \A e \in Q, d \in (F \union G) \union {} \union W : MayFollow(l, d, e)
    BY DEF Staged
  <2>4. \A e \in F \union G, d \in {} \union W : MayFollow(l, d, e)
    BY DEF Staged
  <2> QED BY <2>1, <2>2, <2>3, <2>4 DEF Staged
<1> DEFINE FG == F \union G
           No == {}
<1>2. H \in SUBSET FG /\ No \in SUBSET No /\ R \in SUBSET R /\ Q \in SUBSET Q /\ W \in SUBSET W
  OBVIOUS
<1>3. Staged(l, R, Q, FG, No, W)
  BY <1>1
<1> HIDE DEF FG, No
<1>4. Staged(l, R, Q, H, No, W)
  BY <1>2, <1>3, StagedFewer
<1> QED BY <1>4 DEF No

\* Segments keep the order (what is left of it when they are full).
LEMMA CarryKeepsLine ==
  ASSUME NEW l \in History, NEW ns, NEW ws \in [Segments -> Wires], NEW rc,
         NEW frames \in Wires, NEW todo, InLine(l, ns, ws, rc, frames, todo)
  PROVE  InLine(l, ns, Carry(ws, frames), rc, <<>>, todo)
<1> DEFINE T     == FitFrames(l)
           load  == WireGrams
           on(s) == Onto(s, frames)
           new   == Carry(ws, frames)
           F     == Aloft(ws)
           G     == Held(load, frames)
<1>1. frames \in Seq(T) /\ Orderly(l, load, frames)
  BY DEF InLine, Placed, Rows
<1>2. \A s \in Segments : ws[s] \in Seq(FitOn(l, s)) /\ Orderly(l, load, ws[s])
  BY DEF InLine, Placed, Rows
<1>3. \A e \in F, d \in G : MayFollow(l, d, e)
  BY DEF InLine, Stages, Staged
<1> HIDE DEF T
<1>4. ASSUME NEW s \in Segments
      PROVE  /\ on(s) \in Seq(FitOn(l, s))
             /\ Orderly(l, load, on(s)) /\ Held(load, on(s)) \subseteq G
  <2> DEFINE S == {f \in ToSet(frames) : SegmentOf(f[1]) = s}
             p == Selected(frames, S)
  <2>1. on(s) = p
    BY DEF Onto
  <2>2. \A f \in S : SegmentOf(f[1]) = s
    OBVIOUS
  <2> HIDE DEF S, load
  <2>3. p \in Seq(T)
    BY <1>1, SelectedEmbeds
  <2>4. PICK e : Embeds(e, p, frames, Len(frames), S)
    BY <1>1, SelectedEmbeds
  <2> HIDE DEF p, on
  <2>5. Len(p) \in Nat
    BY <2>3
  <2>6. Orderly(l, load, p)
    BY <1>1, <2>4, OrderlyPart
  <2>7. Held(load, p) \subseteq G
    <3>1. Held(load, p) \subseteq Held(load, frames)
      BY <2>4, <2>5, HeldByPart
    <3> QED BY <3>1
  <2>8. p \in Seq(FitOn(l, s))
    <3>1. ASSUME NEW k \in 1..Len(p) PROVE p[k] \in FitOn(l, s)
      <4>1. p[k] \in T
        BY <2>3, ElementOfSeq
      <4>2. p[k] \in S
        BY <2>4 DEF Embeds
      <4>3. SegmentOf(p[k][1]) = s
        BY <2>2, <4>2
      <4> QED BY <4>1, <4>3 DEF FitOn, T
    <3>2. p = [k \in 1..Len(p) |-> p[k]]
      BY <2>3
    <3> QED BY <2>5, <3>1, <3>2, IsASeq
  <2> QED BY <2>1, <2>6, <2>7, <2>8
<1> HIDE DEF on, new, load
<1>5. ASSUME NEW s \in Segments
      PROVE  /\ new[s] \in Seq(FitOn(l, s)) /\ Orderly(l, load, new[s])
             /\ Held(load, new[s]) \subseteq F \union G
  <2> DEFINE q == ws[s] \o on(s)
             p == Clipped(q)
             e == [k \in 1..Len(p) |-> k]
             U == FitOn(l, s)
  <2>1. new[s] = p
    BY CarryIsWires DEF new, on
  <2>2. ws[s] \in Seq(U) /\ on(s) \in Seq(U)
    BY <1>2, <1>4
  <2>3. Held(load, ws[s]) \subseteq F
    BY DEF Aloft, load
  <2>4. \A x \in Held(load, ws[s]), y \in Held(load, on(s)) : MayFollow(l, y, x)
    BY <1>3, <1>4, <2>3
  <2> HIDE DEF U
  <2>5. q \in Seq(U)
    BY <2>2, ConcatProperties
  <2>6. Orderly(l, load, q)
    <3>1. Orderly(l, load, ws[s]) /\ Orderly(l, load, on(s))
      BY <1>2, <1>4
    <3> DEFINE a == ws[s]
               b == on(s)
    <3>2. a \in Seq(U) /\ b \in Seq(U) /\ Orderly(l, load, a) /\ Orderly(l, load, b)
          /\ \A x \in Held(load, a), y \in Held(load, b) : MayFollow(l, y, x)
      BY <2>2, <2>4, <3>1
    <3> HIDE DEF a, b
    <3>3. Orderly(l, load, a \o b)
      BY <3>2, OrderlyBoth
    <3> QED BY <3>3 DEF a, b
  <2>7. Held(load, q) \subseteq F \union G
    <3>1. Held(load, q) = Held(load, ws[s]) \union Held(load, on(s))
      BY <2>2, HeldByBoth
    <3> HIDE DEF F, G, q
    <3> QED BY <1>4, <2>3, <3>1
  <2> HIDE DEF q
  <2>8. /\ p \in Seq(U) /\ Len(p) <= Len(q)
        /\ \A k \in 1..Len(p) : p[k] = q[k]
    BY <2>5, ClippedIsPrefix
  <2> HIDE DEF p
  <2>9. Len(p) \in Nat /\ Len(q) \in Nat /\ \A k \in 1..Len(p) : p[k] \in U
    BY <2>5, <2>8
  <2>10. Embeds(e, p, q, Len(q), U)
    BY <2>8, <2>9 DEF Embeds
  <2> HIDE DEF e
  <2>11. Orderly(l, load, p)
    BY <2>6, <2>10, OrderlyPart
  <2>12. Held(load, p) \subseteq Held(load, q)
    BY <2>9, <2>10, HeldByPart
  <2> HIDE DEF F, G
  <2>13. Held(load, p) \subseteq F \union G
    BY <2>7, <2>12
  <2> QED BY <2>1, <2>8, <2>11, <2>13 DEF U
<1>6. Stages(l, ns, new, rc, <<>>, todo)
  <2> DEFINE R == Held(ReceiptGrams, rc)
             Q == Arrivals(ns) \union Held(Grams, todo)
             W == Waiters(ns)
             H == Aloft(new)
  <2>1. Staged(l, R, Q, F, G, W)
    BY Zenon DEF InLine, Stages, load
  <2>2. H \subseteq F \union G
    <3> HIDE DEF F, G
    <3> QED BY <1>5 DEF Aloft, load
  <2>3. Held(WireGrams, <<>>) = {}
    BY HeldByNone
  <2> HIDE DEF R, Q, W, H, F, G
  <2>4. Staged(l, R, Q, H, {}, W)
    BY <2>1, <2>2, StagedCarried
  <2> QED BY <2>3, <2>4 DEF Stages, R, Q, W, H
<1>7. Rows(l, ns, new, rc, <<>>, todo)
  <2>1. Orderly(l, WireGrams, <<>>)
    BY OrderlyNone
  <2> QED BY <1>5, <2>1 DEF InLine, Rows, load
<1>8. Placed(l, ns, new, rc, <<>>)
  <2>1. <<>> \in Seq(FitFrames(l))
    OBVIOUS
  <2> QED BY <1>5, <2>1 DEF InLine, Placed
<1> QED BY <1>6, <1>7, <1>8 DEF InLine, new

\* What has arrived at an interface was transmitted to its address.
LEMMA ArrivalsHeld ==
  ASSUME NEW l, NEW ns, NEW ws, NEW rc, NEW frames, Placed(l, ns, ws, rc, frames),
         NEW d, d \in Arrivals(ns)
  PROVE  /\ d \in Datagrams
         /\ \E n \in Nics : /\ d \in Held(Grams, ns[n].datagrams_in)
                            /\ \E t \in Nics : Fits(l, d, t, IpAddress[n])
<1>1. PICK n \in Nics : d \in Held(Grams, ns[n].datagrams_in)
  BY DEF Arrivals
<1>2. ns[n].datagrams_in \in Seq(FitIn(l, n)) /\ FitIn(l, n) \subseteq Datagrams
  BY DEF Placed, FitIn
<1>3. d \in FitIn(l, n)
  BY <1>1, <1>2, GramsHeld
<1> QED BY <1>1, <1>3 DEF FitIn

\* What a host took was transmitted to its address.
LEMMA ReceiptsHeld ==
  ASSUME NEW l, NEW ns, NEW ws, NEW rc, NEW frames, Placed(l, ns, ws, rc, frames),
         NEW d, d \in Held(ReceiptGrams, rc)
  PROVE  /\ d \in Datagrams
         /\ \E h \in Hosts, t \in Nics : Fits(l, d, t, IpAddress[h])
<1>1. PICK k \in 1..Len(rc) : d \in ReceiptGrams[rc[k]]
  BY HeldByOne
<1>2. rc[k] \in FitReceipts(l)
  <2>1. rc \in Seq(FitReceipts(l))
    BY DEF Placed
  <2> QED BY <2>1, ElementOfSeq
<1>3. rc[k] \in Receipts /\ d = rc[k].datagram
  BY <1>1, <1>2 DEF FitReceipts, ReceiptGrams
<1>4. rc[k].host \in Hosts /\ d \in FitIn(l, rc[k].host)
  BY <1>2, <1>3 DEF FitReceipts, Receipts
<1> QED BY <1>4 DEF FitIn

\* What is on a segment is on its path.
LEMMA AloftHeld ==
  ASSUME NEW l, NEW ns, NEW ws, NEW rc, NEW frames, Placed(l, ns, ws, rc, frames),
         NEW d, d \in Aloft(ws)
  PROVE  d \in Datagrams /\ \E n, ip : Fits(l, d, n, ip)
<1>1. PICK s \in Segments : d \in Held(WireGrams, ws[s])
  BY DEF Aloft
<1>2. ws[s] \in Seq(FitFrames(l))
  <2>1. ws[s] \in Seq(FitOn(l, s)) /\ FitOn(l, s) \subseteq FitFrames(l)
    BY DEF Placed, FitOn
  <2> QED BY <2>1, SeqMonotonic, Zenon
<1> QED BY <1>1, <1>2, FramesHeld

\* Whatever is anywhere is on its path.
LEMMA EverythingFits ==
  ASSUME NEW l, NEW ns, NEW ws, NEW rc, NEW frames, Placed(l, ns, ws, rc, frames),
         NEW todo, \A d \in Held(Grams, todo) : d \in Datagrams /\ \E n, ip : Fits(l, d, n, ip),
         NEW d \in Everything(ns, ws, rc, frames, todo)
  PROVE  d \in Datagrams /\ \E n, ip : Fits(l, d, n, ip)
<1>1. CASE d \in Held(ReceiptGrams, rc)
  BY <1>1, ReceiptsHeld
<1>2. CASE d \in Arrivals(ns)
  BY <1>2, ArrivalsHeld
<1>3. CASE d \in Held(Grams, todo)
  BY <1>3
<1>4. CASE d \in Aloft(ws)
  BY <1>4, AloftHeld
<1>5. CASE d \in Held(WireGrams, frames)
  <2>1. frames \in Seq(FitFrames(l))
    BY DEF Placed
  <2> QED BY <1>5, <2>1, FramesHeld
<1>6. CASE d \in Waiters(ns)
  BY <1>6, WaitersHeld
<1> QED BY <1>1, <1>2, <1>3, <1>4, <1>5, <1>6 DEF Everything

\* What was behind d, or may follow it, is behind it when it is one hop older.
LEMMA OlderComesLast ==
  ASSUME NEW l \in History, NEW d \in Datagrams, NEW e \in Datagrams,
         NEW n, NEW ip, Fits(l, d, n, ip), NEW m, NEW jp, Fits(l, e, m, jp),
         NotBehind(l, d, e), MayFollow(l, e, d),
         NEW o, o.id = d.id, Hops(l, o) = Hops(l, d) + 1
  PROVE  MayFollow(l, o, e) /\ NotBehind(l, o, e) /\ NotBehind(l, e, o)
<1>1. Hops(l, d) \in Nat /\ Hops(l, e) \in Nat
  BY FitsHops
<1>2. (Alike(l, o, e) <=> Alike(l, d, e)) /\ (Alike(l, e, o) <=> Alike(l, e, d))
  BY DEF Alike
<1> DEFINE x == Hops(l, d)
           y == Hops(l, e)
           z == Hops(l, o)
<1>3. x \in Nat /\ y \in Nat /\ z = x + 1
  BY <1>1
<1>4. Alike(l, d, e) /\ d.id < e.id => x >= y
  BY DEF NotBehind
<1>5. Alike(l, e, d) /\ e.id < d.id => y > x
  BY DEF MayFollow
<1> HIDE DEF x, y, z
<1>6. Alike(l, o, e) /\ o.id < e.id => z > y
  BY <1>2, <1>3, <1>4
<1>7. Alike(l, e, o) /\ e.id < o.id => y >= z
  BY <1>2, <1>3, <1>5
<1>8. MayFollow(l, o, e) /\ NotBehind(l, o, e)
  BY <1>3, <1>6 DEF MayFollow, NotBehind, y, z
<1>9. NotBehind(l, e, o)
  BY <1>7 DEF NotBehind, y, z
<1> QED BY <1>8, <1>9

-----------------------------------------------------------------------------
(* Routing.  The interfaces of router r are empty, and what it has yet to   *)
(* route was transmitted to one of them.                                    *)

AtRouter(l, r, d) ==
  \E u \in Nics, t \in Nics : u \in ToSet(Interfaces[r]) /\ Fits(l, d, t, IpAddress[u])

Underway(l, r, v, ws, rc, todo) ==
  /\ v \in Results
  /\ InLine(l, v.nics, ws, rc, v.frames, todo)
  /\ todo \in Seq(Datagrams)
  /\ \A d \in Held(Grams, todo) : AtRouter(l, r, d)
  /\ \A u \in Nics : u \in ToSet(Interfaces[r]) => v.nics[u].datagrams_in = <<>>

\* A router takes all that has arrived, and leaves all in line.
LEMMA EmptiedKeepsLine ==
  ASSUME NEW l \in History, NEW r \in Routers, NEW rt \in RoutersOf(r), NEW ns, AllSound(ns),
         NEW ws, NEW rc, InLine(l, ns, ws, rc, <<>>, <<>>)
  PROVE  Underway(l, r, Emptied(rt, ns), ws, rc, Arrived(rt, ns))
<1> DEFINE q    == Interfaces[r]
           qs   == Queues(rt, ns)
           v    == Emptied(rt, ns)
           ms   == v.nics
           todo == Arrived(rt, ns)
<1>1. /\ rt.interfaces = q /\ q \in Seq(Nics) /\ IsInjective(q)
      /\ qs \in Seq(Seq(Datagrams)) /\ todo = FlattenSeq(qs) /\ todo \in Seq(Datagrams)
  <2>1. IsInjective(Interfaces[r])
    BY InternetAssumption
  <2> QED BY <2>1, ArrivedIsSeq
<1>2. Len(qs) = Len(q) /\ \A k \in 1..Len(q) : qs[k] = ns[q[k]].datagrams_in
  <2>1. DOMAIN q = 1..Len(q) /\ DOMAIN qs = 1..Len(qs) /\ Len(q) \in Nat /\ Len(qs) \in Nat
    BY <1>1
  <2>2. DOMAIN qs = DOMAIN q /\ \A k \in DOMAIN q : qs[k] = ns[q[k]].datagrams_in
    BY <1>1 DEF Queues
  <2> HIDE DEF q, qs
  <2>3. \A m, n \in Nat : 1..m = 1..n => m = n
    <3>1. \A m, n \in Nat : m < n => n \in 1..n /\ n \notin 1..m
      OBVIOUS
    <3>2. \A m, n \in Nat : m = n \/ m < n \/ n < m
      OBVIOUS
    <3> QED BY <3>1, <3>2, Zenon
  <2> QED BY <2>1, <2>2, <2>3, Zenon
<1>3. v.frames = <<>> /\ v \in Results
  BY EmptiedIsSound DEF Emptied
<1>4. \A n \in Nics : ms[n] = IF n \in ToSet(q) THEN [ns[n] EXCEPT !.datagrams_in = <<>>]
                              ELSE ns[n]
  BY <1>1, EmptiedIsSound
<1>5. \A k \in 1..Len(q) : q[k] \in Nics /\ q[k] \in ToSet(q)
  <2>1. \A k \in 1..Len(q) : q[k] \in Nics
    BY <1>1, ElementOfSeq
  <2> QED BY <1>1, <2>1 DEF ToSet
<1>6. \A j, k \in 1..Len(q) : j # k => IpAddress[q[j]] # IpAddress[q[k]]
  <2>1. \A j, k \in 1..Len(q) : j # k => q[j] # q[k]
    BY <1>1 DEF IsInjective
  <2> QED BY <1>5, <2>1, InternetAssumption DEF IsInjective
<1> HIDE DEF v, ms, q, qs, todo
<1>7. ASSUME NEW n \in Nics
      PROVE  /\ ms[n].datagrams_in = IF n \in ToSet(q) THEN <<>> ELSE ns[n].datagrams_in
             /\ Quiet(ms[n]) /\ \A ip : Waiting(ms[n], ip) = Waiting(ns[n], ip)
  <2>1. ns[n] \in NetworkInterfaces /\ Quiet(ns[n])
    BY DEF AllSound, InLine, Placed
  <2> DEFINE old == ns[n]
             m   == [old EXCEPT !.datagrams_in = <<>>]
  <2>2. ms[n] = IF n \in ToSet(q) THEN m ELSE old
    BY <1>4
  <2>3. old \in NetworkInterfaces /\ Quiet(old)
    BY <2>1
  <2> HIDE DEF old
  <2>4. m.datagrams_in = <<>> /\ m.pending = old.pending /\ m.arp_cache = old.arp_cache
    BY <2>3 DEF NetworkInterfaces
  <2> HIDE DEF m
  <2>5. Quiet(m) /\ \A ip : Waiting(m, ip) = Waiting(old, ip)
    BY <2>3, <2>4 DEF Quiet, Waiting
  <2> QED BY <2>2, <2>3, <2>4, <2>5 DEF old
<1>8. ASSUME NEW k \in 1..Len(qs)
      PROVE  /\ Orderly(l, Grams, qs[k]) /\ Held(Grams, qs[k]) \subseteq Arrivals(ns)
             /\ \A d \in Held(Grams, qs[k]) :
                  d \in Datagrams /\ \E t \in Nics : Fits(l, d, t, IpAddress[q[k]])
  <2> DEFINE n == q[k]
  <2>1. n \in Nics /\ qs[k] = ns[n].datagrams_in
    BY <1>2, <1>5
  <2> HIDE DEF n
  <2>2. ns[n].datagrams_in \in Seq(FitIn(l, n)) /\ Orderly(l, Grams, ns[n].datagrams_in)
    BY <2>1 DEF InLine, Placed, Rows
  <2>3. FitIn(l, n) \subseteq Datagrams
    BY DEF FitIn
  <2>4. \A d \in Held(Grams, qs[k]) : d \in FitIn(l, n)
    BY <2>1, <2>2, <2>3, GramsHeld
  <2>5. Held(Grams, qs[k]) \subseteq Arrivals(ns)
    BY <2>1 DEF Arrivals
  <2> QED BY <2>1, <2>2, <2>4, <2>5 DEF FitIn, n
<1>9. ASSUME NEW j \in 1..Len(qs), NEW k \in 1..Len(qs), j < k,
             NEW e \in Held(Grams, qs[j]), NEW d \in Held(Grams, qs[k])
      PROVE  MayFollow(l, d, e)
  <2>1. PICK t \in Nics : Fits(l, e, t, IpAddress[q[j]])
    BY <1>8
  <2>2. PICK u \in Nics : Fits(l, d, u, IpAddress[q[k]])
    BY <1>8
  <2>3. IpAddress[q[j]] # IpAddress[q[k]]
    BY <1>2, <1>6, <1>9
  <2>4. d \in Datagrams /\ e \in Datagrams /\ d \in Arrivals(ns) /\ e \in Arrivals(ns)
    BY <1>8
  <2>5. NotBehind(l, d, e)
    BY <2>4 DEF InLine, Stages, Staged
  <2> QED BY <2>1, <2>2, <2>3, <2>4, <2>5, Elsewhere
<1>10. /\ Orderly(l, Grams, todo)
       /\ \A x : x \in Held(Grams, todo) <=> \E k \in 1..Len(qs) : x \in Held(Grams, qs[k])
  BY <1>1, <1>8, <1>9, OrderlyFlattened
<1>11. \A d \in Held(Grams, todo) : AtRouter(l, r, d) /\ d \in Arrivals(ns)
  <2> SUFFICES ASSUME NEW d \in Held(Grams, todo)
               PROVE  AtRouter(l, r, d) /\ d \in Arrivals(ns)
    OBVIOUS
  <2>1. PICK k \in 1..Len(qs) : d \in Held(Grams, qs[k])
    BY <1>10
  <2>2. q[k] \in Nics /\ q[k] \in ToSet(q)
    BY <1>2, <1>5
  <2> QED BY <1>8, <2>1, <2>2 DEF AtRouter, q
<1>12. Arrivals(ms) \subseteq Arrivals(ns) /\ Waiters(ms) = Waiters(ns)
  <2>1. \A n \in Nics : Held(Grams, ms[n].datagrams_in) \subseteq Held(Grams, ns[n].datagrams_in)
    BY <1>7, HeldByNone
  <2>2. Arrivals(ms) \subseteq Arrivals(ns)
    BY <2>1 DEF Arrivals
  <2>3. \A n \in Nics, ip \in Addresses :
          Held(Grams, Waiting(ms[n], ip)) = Held(Grams, Waiting(ns[n], ip))
    BY <1>7
  <2>4. Waiters(ms) = Waiters(ns)
    BY <2>3 DEF Waiters
  <2> QED BY <2>2, <2>4
<1>13. Stages(l, ms, ws, rc, <<>>, todo)
  <2> DEFINE R  == Held(ReceiptGrams, rc)
             Q  == Arrivals(ns) \union Held(Grams, <<>>)
             F  == Aloft(ws)
             G  == Held(WireGrams, <<>>)
             W  == Waiters(ns)
             Q1 == Arrivals(ms) \union Held(Grams, todo)
  <2>1. Staged(l, R, Q, F, G, W)
    BY Zenon DEF InLine, Stages
  <2>2. Q1 \in SUBSET Q
    BY <1>11, <1>12
  <2> HIDE DEF R, Q, F, G, W, Q1
  <2>3. R \in SUBSET R /\ F \in SUBSET F /\ G \in SUBSET G /\ W \in SUBSET W
    OBVIOUS
  <2>4. Staged(l, R, Q1, F, G, W)
    BY <2>1, <2>2, <2>3, StagedFewer
  <2> QED BY <1>12, <2>4, Zenon DEF Stages, R, Q1, F, G, W
<1>14. Rows(l, ms, ws, rc, <<>>, todo)
  <2>1. \A n \in Nics : Orderly(l, Grams, ms[n].datagrams_in)
    <3>1. Orderly(l, Grams, <<>>)
      BY OrderlyNone
    <3> QED BY <1>7, <3>1 DEF InLine, Rows
  <2> QED BY <1>7, <1>10, <2>1 DEF InLine, Rows
<1>15. Placed(l, ms, ws, rc, <<>>)
  <2>1. \A n \in Nics : ms[n].datagrams_in \in Seq(FitIn(l, n))
    <3> SUFFICES ASSUME NEW n \in Nics PROVE ms[n].datagrams_in \in Seq(FitIn(l, n))
      OBVIOUS
    <3>1. ns[n].datagrams_in \in Seq(FitIn(l, n)) /\ <<>> \in Seq(FitIn(l, n))
      BY DEF InLine, Placed
    <3> QED BY <1>7, <3>1
  <2> QED BY <1>7, <2>1 DEF InLine, Placed
<1>16. \A u \in Nics : u \in ToSet(Interfaces[r]) => v.nics[u].datagrams_in = <<>>
  BY <1>7 DEF q, ms
<1>17. InLine(l, v.nics, ws, rc, v.frames, todo)
  BY <1>3, <1>13, <1>14, <1>15 DEF InLine, ms
<1> QED BY <1>1, <1>3, <1>11, <1>16, <1>17 DEF Underway, v, todo

\* The first of what a router has yet to route comes last when it is older.
LEMMA ForwardedComesLast ==
  ASSUME NEW l \in History, NEW r \in Routers, NEW v, NEW ws, NEW rc, NEW todo,
         Underway(l, r, v, ws, rc, todo), todo # <<>>,
         NEW o, o.id = Head(todo).id, Hops(l, o) = Hops(l, Head(todo)) + 1
  PROVE  ComesLast(l, Everything(v.nics, ws, rc, v.frames, Tail(todo)), o)
<1> DEFINE d    == Head(todo)
           rest == Tail(todo)
           ns   == v.nics
           fs   == v.frames
           R == Held(ReceiptGrams, rc)
           Q == Arrivals(ns) \union Held(Grams, todo)
           F == Aloft(ws)
           G == Held(WireGrams, fs)
           W == Waiters(ns)
<1>1. todo \in Seq(Datagrams) /\ Orderly(l, Grams, todo) /\ Placed(l, ns, ws, rc, fs)
      /\ Staged(l, R, Q, F, G, W)
  BY Zenon DEF Underway, InLine, Rows, Stages
<1>2. d \in Datagrams /\ Grams[d] = {d} /\ rest \in Seq(Datagrams)
  BY <1>1 DEF Grams
<1>3. Held(Grams, todo) = Grams[d] \union Held(Grams, rest)
  BY <1>1, HeldByTail
<1>4. \A e \in Held(Grams, rest) : MayFollow(l, e, d)
  BY <1>1, <1>2, OrderlyTail
<1>5. \A e \in Held(Grams, todo) : e \in Datagrams /\ AtRouter(l, r, e)
  <2>1. \A e \in Held(Grams, todo) : e \in Datagrams
    BY <1>1, GramsHeld
  <2> QED BY <2>1 DEF Underway
<1>6. d \in Held(Grams, todo) /\ d \in Q
  BY <1>2, <1>3
<1>7. PICK u \in Nics, t \in Nics : u \in ToSet(Interfaces[r]) /\ Fits(l, d, t, IpAddress[u])
  BY <1>5, <1>6 DEF AtRouter
<1>8. u \notin Hosts
  <2>1. Interfaces[r] \in Seq(Nics \ Hosts)
    BY InternetAssumption
  <2> QED BY <1>7, <2>1 DEF ToSet
<1>9. ns[u].datagrams_in = <<>>
  BY <1>7 DEF Underway
<1> DEFINE X == Everything(ns, ws, rc, fs, rest)
<1>10. \A e \in X : e \in R \/ e \in Arrivals(ns) \/ e \in Held(Grams, rest)
                     \/ e \in F \/ e \in G \/ e \in W
  BY DEF Everything
<1>11. \A e \in X : e \in R \union Q \union F \union G \union W
  BY <1>3, <1>10
<1>12. \A e \in X : NotBehind(l, d, e) /\ NotBehind(l, e, d)
  <2>1. d \in R \union Q \union F \union G \union W
    BY <1>6
  <2> HIDE DEF R, Q, F, G, W, d, X
  <2> QED BY <1>1, <1>11, <2>1 DEF Staged
<1>13. \A e \in X : e \in Datagrams /\ \E n, ip : Fits(l, e, n, ip)
  <2>1. \A e \in Held(Grams, rest) : e \in Datagrams /\ \E n, ip : Fits(l, e, n, ip)
    BY <1>3, <1>5 DEF AtRouter
  <2> HIDE DEF ns, fs, rest
  <2> QED BY <1>1, <2>1, EverythingFits
<1> HIDE DEF X, rest, R, F, G, W
<1>14. \A e \in X : MayFollow(l, e, d)
  <2> SUFFICES ASSUME NEW e \in X PROVE MayFollow(l, e, d)
    OBVIOUS
  <2>1. CASE e \in R
    <3>1. PICK h \in Hosts, s \in Nics : Fits(l, e, s, IpAddress[h])
      BY <1>1, <2>1, ReceiptsHeld DEF R
    <3>2. IpAddress[h] # IpAddress[u]
      BY <1>8, InternetAssumption DEF IsInjective
    <3> HIDE DEF d
    <3> QED BY <1>2, <1>7, <1>12, <1>13, <3>1, <3>2, Elsewhere
  <2>2. CASE e \in Arrivals(ns)
    <3>1. PICK n \in Nics : e \in Held(Grams, ns[n].datagrams_in)
                            /\ \E s \in Nics : Fits(l, e, s, IpAddress[n])
      BY <1>1, <2>2, ArrivalsHeld
    <3>2. PICK s \in Nics : Fits(l, e, s, IpAddress[n])
      BY <3>1
    <3>3. n # u
      BY <1>9, <3>1, HeldByNone
    <3>4. IpAddress[n] # IpAddress[u]
      BY <3>3, InternetAssumption DEF IsInjective
    <3> HIDE DEF d
    <3> QED BY <1>2, <1>7, <1>12, <1>13, <3>2, <3>4, Elsewhere
  <2>3. CASE e \in Held(Grams, rest)
    BY <1>4, <2>3
  <2>4. CASE e \in F \/ e \in G \/ e \in W
    BY <1>1, <1>6, <2>4 DEF Staged
  <2> QED BY <1>10, <2>1, <2>2, <2>3, <2>4
<1>15. ASSUME NEW e \in X
       PROVE  MayFollow(l, o, e) /\ NotBehind(l, o, e) /\ NotBehind(l, e, o)
  <2>1. PICK n, ip : Fits(l, e, n, ip)
    BY <1>13
  <2>2. o.id = d.id /\ Hops(l, o) = Hops(l, d) + 1
    OBVIOUS
  <2> HIDE DEF d
  <2> QED BY <1>2, <1>7, <1>12, <1>13, <1>14, <2>1, <2>2, OlderComesLast
<1> QED BY <1>15 DEF ComesLast, X, rest

\* Forwarding the first of what has arrived leaves all in line (Router::route).
LEMMA ForwardKeepsLine ==
  ASSUME NEW l \in History, NEW r \in Routers, NEW rt \in RoutersOf(r),
         (\E k \in 1..Len(l) : l[k].routed) => rt.routing_table = RoutePlan[r],
         NEW v, NEW ws, NEW rc, NEW todo, Underway(l, r, v, ws, rc, todo), todo # <<>>
  PROVE  Underway(l, r, Forward(rt, v, Head(todo)), ws, rc, Tail(todo))
<1> DEFINE d    == Head(todo)
           rest == Tail(todo)
           w    == Forward(rt, v, d)
<1>1. /\ v \in Results /\ InLine(l, v.nics, ws, rc, v.frames, todo)
      /\ todo \in Seq(Datagrams) /\ \A e \in Held(Grams, todo) : AtRouter(l, r, e)
      /\ \A u \in Nics : u \in ToSet(Interfaces[r]) => v.nics[u].datagrams_in = <<>>
  BY DEF Underway
<1>2. d \in Datagrams /\ Grams[d] = {d} /\ rest \in Seq(Datagrams)
  BY <1>1 DEF Grams
<1>3. Held(Grams, todo) = Grams[d] \union Held(Grams, rest)
  BY <1>1, HeldByTail
<1>4. InLine(l, v.nics, ws, rc, v.frames, rest)
  <2>1. Stages(l, v.nics, ws, rc, v.frames, rest)
    <3> DEFINE R  == Held(ReceiptGrams, rc)
               Q  == Arrivals(v.nics) \union Held(Grams, todo)
               F  == Aloft(ws)
               G  == Held(WireGrams, v.frames)
               W  == Waiters(v.nics)
               Q1 == Arrivals(v.nics) \union Held(Grams, rest)
    <3>1. Staged(l, R, Q, F, G, W)
      BY <1>1, Zenon DEF InLine, Stages
    <3>2. Q1 \in SUBSET Q
      BY <1>3
    <3> HIDE DEF R, Q, F, G, W, Q1
    <3>3. R \in SUBSET R /\ F \in SUBSET F /\ G \in SUBSET G /\ W \in SUBSET W
      OBVIOUS
    <3>4. Staged(l, R, Q1, F, G, W)
      BY <3>1, <3>2, <3>3, StagedFewer
    <3> QED BY <3>4, Zenon DEF Stages, R, Q1, F, G, W
  <2>2. Orderly(l, Grams, rest)
    <3>1. Orderly(l, Grams, todo)
      BY <1>1 DEF InLine, Rows
    <3> QED BY <1>1, <3>1, OrderlyTail
  <2>3. Rows(l, v.nics, ws, rc, v.frames, rest)
    BY <1>1, <2>2 DEF InLine, Rows
  <2>4. Placed(l, v.nics, ws, rc, v.frames)
    BY <1>1 DEF InLine
  <2> QED BY <2>1, <2>3, <2>4 DEF InLine
<1>5. \A e \in Held(Grams, rest) : AtRouter(l, r, e)
  BY <1>1, <1>3
<1>6. ASSUME w = v
      PROVE  Underway(l, r, w, ws, rc, rest)
  <2> HIDE DEF rest, w
  <2> QED BY <1>1, <1>2, <1>4, <1>5, <1>6 DEF Underway
<1>7. ASSUME NEW i \in Nics, NEW hop \in Addresses, Older(d) \in For(hop), Older(d).id = d.id,
             Survives(d), BestHop(rt, d, i, hop), w = Sends(i, hop, v, Older(d))
      PROVE  Underway(l, r, w, ws, rc, rest)
  <2> DEFINE o   == Older(d)
             n   == v.nics[i]
             m   == SendDatagram(n, o, hop)
             sb  == SentBy(i, SendDatagramTransmits(n, o, hop))
             ns  == [v.nics EXCEPT ![i] = SendDatagram(@, o, hop)]
             fs  == v.frames \o sb
  <2>1. PICK u \in Nics, t \in Nics : u \in ToSet(Interfaces[r]) /\ Fits(l, d, t, IpAddress[u])
    <3>1. d \in Held(Grams, todo)
      BY <1>2, <1>3
    <3> QED BY <1>1, <3>1 DEF AtRouter
  <2>2. Fits(l, o, i, hop) /\ Hops(l, o) = Hops(l, d) + 1
    <3>1. l[d.id].routed => rt.routing_table = RoutePlan[r]
      BY <2>1 DEF Fits
    <3> HIDE DEF d
    <3> QED BY <1>2, <1>7, <2>1, <3>1, FitsOn
  <2>3. o \in For(hop) /\ o.id = d.id
    BY <1>7
  <2> HIDE DEF o
  <2>4. ComesLast(l, Everything(v.nics, ws, rc, v.frames, rest), o)
    BY <2>2, <2>3, ForwardedComesLast
  <2>5. AllSound(v.nics) /\ v.nics \in [Nics -> NetworkInterfaces]
    BY <1>1 DEF Results
  <2>6. InLine(l, ns, ws, rc, fs, rest)
    <3> HIDE DEF rest
    <3> QED BY <1>4, <2>2, <2>3, <2>4, <2>5, SendKeepsLine
  <2>7. w.nics = ns /\ w.frames = fs /\ w \in Results
    <3>1. w = [nics |-> ns, frames |-> fs]
      BY <1>7, Zenon DEF Sends, o
    <3>2. Sends(i, hop, v, o) \in Results
      BY <1>1, <2>3, SendsIsSound
    <3>3. w = Sends(i, hop, v, o)
      BY <1>7 DEF o
    <3> HIDE DEF w, ns, fs
    <3> QED BY <3>1, <3>2, <3>3
  <2>8. m.datagrams_in = n.datagrams_in
    <3>1. Sound(n, i) /\ Quiet(n)
      BY <1>4, <2>5 DEF AllSound, InLine, Placed
    <3> HIDE DEF n
    <3> QED BY <2>3, <3>1, SendsLast
  <2>9. \A x \in Nics : ns[x].datagrams_in = v.nics[x].datagrams_in
    <3>1. ns[i] = m /\ \A x \in Nics : x # i => ns[x] = v.nics[x]
      BY <2>5
    <3> HIDE DEF ns, m
    <3> QED BY <2>8, <3>1
  <2>10. \A x \in Nics : x \in ToSet(Interfaces[r]) => ns[x].datagrams_in = <<>>
    <3> HIDE DEF ns
    <3> QED BY <1>1, <2>9
  <2> HIDE DEF w, ns, fs, rest
  <2> QED BY <1>2, <1>5, <2>6, <2>7, <2>10 DEF Underway, rest
<1>8. Underway(l, r, w, ws, rc, rest)
  <2> HIDE DEF d, w
  <2>1. \/ Forward(rt, v, d) = v
        \/ \E i \in Nics, hop \in Addresses :
              /\ Older(d) \in For(hop) /\ Older(d).id = d.id
              /\ Survives(d) /\ BestHop(rt, d, i, hop)
              /\ Forward(rt, v, d) = Sends(i, hop, v, Older(d))
    BY <1>2, ForwardSends
  <2>2. CASE Forward(rt, v, d) = v
    <3>1. w = v
      BY <2>2 DEF w
    <3> QED BY <1>6, <3>1
  <2>3. ASSUME NEW i \in Nics, NEW hop \in Addresses, Older(d) \in For(hop), Older(d).id = d.id,
               Survives(d), BestHop(rt, d, i, hop), Forward(rt, v, d) = Sends(i, hop, v, Older(d))
        PROVE  Underway(l, r, w, ws, rc, rest)
    <3>1. w = Sends(i, hop, v, Older(d))
      BY <2>3 DEF w
    <3> HIDE DEF rest
    <3> QED BY <1>7, <2>3, <3>1
  <2> HIDE DEF rest
  <2> QED BY <2>1, <2>2, <2>3
<1> QED BY <1>8 DEF w, d, rest

\* Routing all that has arrived leaves all in line (Router::route).
LEMMA RouteKeepsLine ==
  ASSUME NEW l \in History, NEW r \in Routers, NEW rt \in RoutersOf(r),
         (\E k \in 1..Len(l) : l[k].routed) => rt.routing_table = RoutePlan[r],
         NEW ns, AllSound(ns), NEW ws, NEW rc, InLine(l, ns, ws, rc, <<>>, <<>>)
  PROVE  InLine(l, Route(rt, ns).nics, ws, rc, Route(rt, ns).frames, <<>>)
<1> DEFINE q == Arrived(rt, ns)
           n == Len(q)
<1>1. q \in Seq(Datagrams)
  BY ArrivedIsSeq
<1>2. PICK f \in [0..n -> Results] : Forwards(f, rt, ns) /\ Route(rt, ns) = f[n]
  BY RouteIsSound
<1>3. f[0] = Emptied(rt, ns) /\ \A i \in 1..n : f[i] = Forward(rt, f[i - 1], q[i])
  BY <1>2 DEF Forwards
<1>4. Underway(l, r, f[0], ws, rc, q)
  BY <1>3, EmptiedKeepsLine
<1> HIDE DEF q
<1> DEFINE Left(i) == SubSeq(q, i + 1, n)
<1>5. n \in Nat /\ n \in 0..n /\ Left(0) = q /\ Left(n) = <<>>
  BY <1>1
<1>6. ASSUME NEW i \in 1..n
      PROVE  Left(i - 1) # <<>> /\ Head(Left(i - 1)) = q[i] /\ Tail(Left(i - 1)) = Left(i)
  <2> DEFINE a == Left(i - 1)
             b == Left(i)
  <2>1. n \in Nat /\ i >= 1 /\ i <= n /\ (i - 1) + 1 = i /\ i \in Int
    BY <1>1
  <2>2. a \in Seq(Datagrams) /\ Len(a) = n - i + 1 /\ \A k \in 1..Len(a) : a[k] = q[i + k - 1]
    BY <1>1, <2>1
  <2>3. b \in Seq(Datagrams) /\ Len(b) = n - i /\ \A k \in 1..Len(b) : b[k] = q[i + k]
    BY <1>1, <2>1
  <2> HIDE DEF a, b, n
  <2>4. Len(a) > 0 /\ 1 \in 1..Len(a) /\ a # <<>>
    BY <2>1, <2>2
  <2>5. Head(a) = q[i]
    <3>1. Head(a) = a[1]
      BY <2>2, <2>4
    <3> QED BY <2>1, <2>2, <2>4, <3>1
  <2>6. Tail(a) = b
    <3>1. /\ Tail(a) \in Seq(Datagrams) /\ Len(Tail(a)) = n - i
          /\ \A k \in 1..(n - i) : Tail(a)[k] = a[k + 1]
      BY <2>1, <2>2, <2>4
    <3>2. \A k \in 1..(n - i) : k + 1 \in 1..Len(a) /\ i + (k + 1) - 1 = i + k
      BY <2>1, <2>2
    <3>3. \A k \in 1..(n - i) : Tail(a)[k] = b[k]
      BY <2>2, <2>3, <3>1, <3>2
    <3> QED BY <2>3, <3>1, <3>3, SeqEqual
  <2> QED BY <2>4, <2>5, <2>6 DEF a, b
<1> HIDE DEF Left
<1> DEFINE Good == {i \in 0..n : Underway(l, r, f[i], ws, rc, Left(i))}
<1>7. 0 \in Good
  BY <1>4, <1>5
<1>8. ASSUME NEW i \in 1..n, i - 1 \in Good
      PROVE  i \in Good
  <2> DEFINE todo == Left(i - 1)
             v    == f[i - 1]
  <2>1. Underway(l, r, v, ws, rc, todo) /\ todo # <<>>
    BY <1>6, <1>8
  <2> HIDE DEF todo, v
  <2>2. Underway(l, r, Forward(rt, v, Head(todo)), ws, rc, Tail(todo))
    BY <2>1, ForwardKeepsLine
  <2>3. f[i] = Forward(rt, v, Head(todo)) /\ Tail(todo) = Left(i)
    BY <1>3, <1>6 DEF todo, v
  <2>4. i \in 0..n
    BY <1>5
  <2> QED BY <2>2, <2>3, <2>4
<1>9. n \in Good
  <2> HIDE DEF Good, n
  <2> QED BY <1>5, <1>7, <1>8, InductionUpTo
<1>10. InLine(l, f[n].nics, ws, rc, f[n].frames, <<>>)
  BY <1>5, <1>9 DEF Underway
<1> QED BY <1>2, <1>10 DEF q

-----------------------------------------------------------------------------
(* What hosts send.                                                         *)

Launches == [src : Hosts, dst : Addresses, ttl : Nat, routed : BOOLEAN]

\* What is known of the datagrams launched does not change when more are.
LEMMA HistoryGrows ==
  ASSUME NEW l \in History, NEW x \in Launches
  PROVE  LET m == Append(l, x)
         IN  /\ m \in History /\ Len(m) = Len(l) + 1 /\ m[Len(l) + 1] = x
             /\ \A d, n, ip : Fits(l, d, n, ip) => Fits(m, d, n, ip)
             /\ \A d, e : d.id \in 1..Len(l) /\ e.id \in 1..Len(l) =>
                  /\ NotBehind(l, d, e) => NotBehind(m, d, e)
                  /\ MayFollow(l, d, e) => MayFollow(m, d, e)
<1> DEFINE m == Append(l, x)
<1>1. /\ m \in History /\ Len(m) = Len(l) + 1 /\ Len(l) \in Nat /\ m[Len(l) + 1] = x
      /\ \A k \in 1..Len(l) : m[k] = l[k] /\ k \in 1..Len(m)
  BY DEF History, Launches
<1> HIDE DEF m
<1>2. \A d : d.id \in 1..Len(l) => Hops(m, d) = Hops(l, d)
  BY <1>1 DEF Hops
<1>3. ASSUME NEW d, NEW n, NEW ip, Fits(l, d, n, ip)
      PROVE  Fits(m, d, n, ip)
  BY <1>1, <1>2, <1>3 DEF Fits
<1>4. ASSUME NEW d, NEW e, d.id \in 1..Len(l), e.id \in 1..Len(l)
      PROVE  /\ NotBehind(l, d, e) => NotBehind(m, d, e)
             /\ MayFollow(l, d, e) => MayFollow(m, d, e)
  <2>1. Alike(m, d, e) <=> Alike(l, d, e)
    BY <1>1, <1>4 DEF Alike
  <2>2. Hops(m, d) = Hops(l, d) /\ Hops(m, e) = Hops(l, e)
    BY <1>2, <1>4
  <2> QED BY <2>1, <2>2 DEF NotBehind, MayFollow
<1> QED BY <1>1, <1>3, <1>4 DEF m

\* So all is as much in line as before.
LEMMA LaunchedKeepsLine ==
  ASSUME NEW l \in History, NEW x \in Launches, NEW ns, NEW ws, NEW rc,
         InLine(l, ns, ws, rc, <<>>, <<>>)
  PROVE  InLine(Append(l, x), ns, ws, rc, <<>>, <<>>)
<1> DEFINE m == Append(l, x)
           R == Held(ReceiptGrams, rc)
           Q == Arrivals(ns) \union Held(Grams, <<>>)
           F == Aloft(ws)
           G == Held(WireGrams, <<>>)
           W == Waiters(ns)
           X == Everything(ns, ws, rc, <<>>, <<>>)
<1>1. /\ \A d, n, ip : Fits(l, d, n, ip) => Fits(m, d, n, ip)
      /\ \A d, e : d.id \in 1..Len(l) /\ e.id \in 1..Len(l) =>
           /\ NotBehind(l, d, e) => NotBehind(m, d, e)
           /\ MayFollow(l, d, e) => MayFollow(m, d, e)
  BY HistoryGrows
<1> HIDE DEF m
<1>2. Placed(l, ns, ws, rc, <<>>) /\ Staged(l, R, Q, F, G, W) /\ Rows(l, ns, ws, rc, <<>>, <<>>)
  BY Zenon DEF InLine, Stages
<1>3. \A d \in X : d.id \in 1..Len(l)
  <2>1. Held(Grams, <<>>) = {}
    BY HeldByNone
  <2>2. \A d \in X : \E n, ip : Fits(l, d, n, ip)
    BY <1>2, <2>1, EverythingFits
  <2> HIDE DEF X
  <2> QED BY <2>2 DEF Fits
<1>4. \A d, e \in X : /\ NotBehind(l, d, e) => NotBehind(m, d, e)
                      /\ MayFollow(l, d, e) => MayFollow(m, d, e)
  <2> HIDE DEF X
  <2> QED BY <1>1, <1>3
<1>5. X = R \union Q \union F \union G \union W
  BY Zenon DEF Everything
<1>6. ASSUME NEW load, NEW q, Held(load, q) \subseteq X, Orderly(l, load, q)
      PROVE  Orderly(m, load, q)
  <2> SUFFICES ASSUME NEW i \in 1..Len(q), NEW j \in 1..Len(q), i < j,
                      NEW e \in load[q[i]], NEW d \in load[q[j]]
               PROVE  MayFollow(m, d, e)
    BY DEF Orderly
  <2> HIDE DEF X
  <2>1. e \in Held(load, q) /\ d \in Held(load, q)
    BY HeldByOne
  <2>2. e \in X /\ d \in X
    BY <1>6, <2>1
  <2>3. MayFollow(l, d, e)
    BY <1>6 DEF Orderly
  <2> QED BY <1>4, <2>2, <2>3
<1> HIDE DEF X
<1>7. Staged(m, R, Q, F, G, W)
  <2>1. R \subseteq X /\ Q \subseteq X /\ F \subseteq X /\ G \subseteq X /\ W \subseteq X
    BY <1>5
  <2> HIDE DEF R, Q, F, G, W
  <2>2. \A d, e \in R \union Q \union F \union G \union W : NotBehind(m, d, e)
    BY <1>2, <1>4, <1>5 DEF Staged
  <2>3. \A e \in R, d \in Q \union F \union G \union W : MayFollow(m, d, e)
    BY <1>2, <1>4, <2>1 DEF Staged
  <2>4. \A e \in Q, d \in F \union G \union W : MayFollow(m, d, e)
    BY <1>2, <1>4, <2>1 DEF Staged
  <2>5. \A e \in F, d \in G \union W : MayFollow(m, d, e)
    BY <1>2, <1>4, <2>1 DEF Staged
  <2>6. \A e \in G, d \in W : MayFollow(m, d, e)
    BY <1>2, <1>4, <2>1 DEF Staged
  <2> QED BY <2>2, <2>3, <2>4, <2>5, <2>6 DEF Staged
<1>8. Rows(m, ns, ws, rc, <<>>, <<>>)
  <2>1. \A n \in Nics : Orderly(m, Grams, ns[n].datagrams_in)
    <3> SUFFICES ASSUME NEW n \in Nics PROVE Orderly(m, Grams, ns[n].datagrams_in)
      OBVIOUS
    <3>1. Held(Grams, ns[n].datagrams_in) \subseteq X
      BY <1>5 DEF Arrivals
    <3>2. Orderly(l, Grams, ns[n].datagrams_in)
      BY <1>2 DEF Rows
    <3> QED BY <1>6, <3>1, <3>2
  <2>2. \A n \in Nics, ip \in Addresses : Orderly(m, Grams, Waiting(ns[n], ip))
    <3> SUFFICES ASSUME NEW n \in Nics, NEW ip \in Addresses
                 PROVE  Orderly(m, Grams, Waiting(ns[n], ip))
      OBVIOUS
    <3>1. Held(Grams, Waiting(ns[n], ip)) \subseteq X
      BY <1>5 DEF Waiters
    <3>2. Orderly(l, Grams, Waiting(ns[n], ip))
      BY <1>2 DEF Rows
    <3> QED BY <1>6, <3>1, <3>2
  <2>3. \A s \in Segments : Orderly(m, WireGrams, ws[s])
    <3> SUFFICES ASSUME NEW s \in Segments PROVE Orderly(m, WireGrams, ws[s])
      OBVIOUS
    <3>1. Held(WireGrams, ws[s]) \subseteq X
      BY <1>5 DEF Aloft
    <3>2. Orderly(l, WireGrams, ws[s])
      BY <1>2 DEF Rows
    <3> QED BY <1>6, <3>1, <3>2
  <2>4. Orderly(m, ReceiptGrams, rc)
    <3>1. Held(ReceiptGrams, rc) \subseteq X
      BY <1>5
    <3>2. Orderly(l, ReceiptGrams, rc)
      BY <1>2 DEF Rows
    <3> QED BY <1>6, <3>1, <3>2
  <2> QED BY <2>1, <2>2, <2>3, <2>4, OrderlyNone DEF Rows
<1>9. Placed(m, ns, ws, rc, <<>>)
  <2>1. \A n : FitIn(l, n) \subseteq FitIn(m, n) /\ \A ip : FitAt(l, n, ip) \subseteq FitAt(m, n, ip)
    BY <1>1 DEF FitIn, FitAt
  <2>2. FitFrames(l) \subseteq FitFrames(m)
    BY <1>1 DEF FitFrames
  <2>3. \A s : FitOn(l, s) \subseteq FitOn(m, s)
    BY <2>2 DEF FitOn
  <2>4. FitReceipts(l) \subseteq FitReceipts(m)
    BY <2>1 DEF FitReceipts
  <2>5. \A n \in Nics : /\ ns[n].datagrams_in \in Seq(FitIn(m, n))
                        /\ Quiet(ns[n])
                        /\ \A ip \in Addresses : Waiting(ns[n], ip) \in Seq(FitAt(m, n, ip))
    BY <1>2, <2>1, SeqMonotonic, Zenon DEF Placed
  <2>6. \A s \in Segments : ws[s] \in Seq(FitOn(m, s))
    BY <1>2, <2>3, SeqMonotonic, Zenon DEF Placed
  <2>7. rc \in Seq(FitReceipts(m))
    BY <1>2, <2>4, SeqMonotonic, Zenon DEF Placed
  <2>8. <<>> \in Seq(FitFrames(m))
    OBVIOUS
  <2> QED BY <2>5, <2>6, <2>7, <2>8, Zenon DEF Placed
<1>10. Stages(m, ns, ws, rc, <<>>, <<>>)
  BY <1>7, Zenon DEF Stages
<1> QED BY <1>8, <1>9, <1>10 DEF InLine, m

\* The datagram that a host sends comes last.
LEMMA LaunchKeepsLine ==
  ASSUME NetworkInv, InLine(launched, nics, wires, received, <<>>, <<>>),
         NEW h \in Senders, NEW dst \in Destinations, NEW ttl \in Lifetimes,
         Launch(h, dst, ttl)
  PROVE  InLine(launched', nics', wires', received', <<>>, <<>>)
<1> DEFINE id     == Len(launched) + 1
           d      == [id |-> id, dst |-> dst, ttl |-> ttl]
           hop    == Gateways[h]
           out    == SendDatagramTransmits(nics[h], d, hop)
           sb     == SentBy(h, out)
           entry  == [src |-> h, dst |-> dst, ttl |-> ttl, routed |-> Configured]
           l      == Append(launched, entry)
           ns     == [nics EXCEPT ![h] = SendDatagram(@, d, hop)]
<1>1. /\ nics' = ns /\ wires' = Carry(wires, sb)
      /\ launched' = l /\ UNCHANGED << routers, received >>
  BY DEF Launch
<1>2. /\ AllSound(nics) /\ wires \in [Segments -> Wires]
      /\ launched \in History /\ Len(launched) \in Nat
  BY DEF NetworkInv, History
<1>3. h \in Hosts /\ h \in Nics /\ dst \in Addresses /\ ttl \in Nat
  <2>1. h \in Hosts /\ h \in Nics /\ dst \in Addresses /\ ttl \in 0..255
    BY InternetAssumption, Zenon
  <2>2. 0..255 \subseteq Nat
    OBVIOUS
  <2> QED BY <2>1, <2>2, Zenon
<1>4. hop \in Addresses /\ d \in For(hop) /\ d \in Datagrams
  <2>1. hop \in Addresses /\ hop \notin HostAddresses
    BY <1>3, RoutesAssumption
  <2>2. d \in Datagrams
    BY <1>2, <1>3 DEF Datagrams
  <2> QED BY <2>1, <2>2 DEF For
<1>5. entry \in Launches /\ entry.src = h /\ entry.dst = dst /\ entry.ttl = ttl
  <2>1. Configured \in BOOLEAN
    BY DEF Configured
  <2> QED BY <1>3, <2>1 DEF Launches
<1>6. d.id = id /\ d.dst = dst /\ d.ttl = ttl
  OBVIOUS
<1> HIDE DEF entry, d
<1>7. l \in History /\ Len(l) = id /\ l[id] = entry
  BY <1>2, <1>5, HistoryGrows
<1>8. InLine(l, nics, wires, received, <<>>, <<>>)
  BY <1>2, <1>5, LaunchedKeepsLine
<1>9. Sound(nics[h], h) /\ out \in Seq(Frames)
  <2>1. Sound(nics[h], h)
    BY <1>2, <1>3 DEF AllSound
  <2> HIDE DEF hop
  <2> QED BY <1>3, <1>4, <2>1, SendIsSound
<1> DEFINE X == Everything(nics, wires, received, <<>>, <<>>)
<1>10. ASSUME NEW e \in X
       PROVE  e \in Datagrams /\ e.id \in 1..Len(launched) /\ \E n, ip : Fits(l, e, n, ip)
  <2>1. Placed(launched, nics, wires, received, <<>>) /\ Held(Grams, <<>>) = {}
    BY HeldByNone DEF InLine
  <2>2. e \in Datagrams /\ \E n, ip : Fits(launched, e, n, ip)
    BY <2>1, EverythingFits
  <2>3. \A n, ip : Fits(launched, e, n, ip) => Fits(l, e, n, ip)
    BY <1>2, <1>5, HistoryGrows
  <2> HIDE DEF l, X
  <2> QED BY <2>2, <2>3 DEF Fits
<1> HIDE DEF l, X, out, sb, ns
<1>11. Hops(l, d) = 0
  BY <1>3, <1>5, <1>6, <1>7 DEF Hops
<1>12. Fits(l, d, h, hop)
  <2>1. Goes(h, dst, 0, h, hop)
    BY <1>3, GoesFrom
  <2>2. id \in 1..Len(l) /\ ttl <= ttl
    BY <1>2, <1>3, <1>7
  <2> HIDE DEF id, hop
  <2> QED BY <1>5, <1>6, <1>7, <1>11, <2>1, <2>2 DEF Fits
<1>13. ComesLast(l, X, d)
  <2> SUFFICES ASSUME NEW e \in X
               PROVE  MayFollow(l, d, e) /\ NotBehind(l, d, e) /\ NotBehind(l, e, d)
    BY DEF ComesLast
  <2>1. ~(d.id < e.id)
    BY <1>2, <1>6, <1>10
  <2>2. Hops(l, e) >= Hops(l, d)
    <3>1. PICK n, ip : Fits(l, e, n, ip)
      BY <1>10
    <3>2. Hops(l, e) \in Nat
      BY <1>7, <1>10, <3>1, FitsHops
    <3> QED BY <1>11, <3>2
  <2> QED BY <2>1, <2>2 DEF MayFollow, NotBehind
<1>14. InLine(l, ns, wires, received, sb, <<>>)
  <2> DEFINE none == <<>>
  <2>1. none \o sb = sb
    BY <1>3, <1>9, SentByIsWire, ConcatEmptySeq DEF sb, Wires
  <2>2. InLine(l, nics, wires, received, none, <<>>) /\ ComesLast(l, Everything(nics, wires, received, none, <<>>), d)
    BY <1>8, <1>13 DEF X
  <2> HIDE DEF none, hop
  <2>3. InLine(l, [nics EXCEPT ![h] = SendDatagram(@, d, hop)], wires, received,
               none \o SentBy(h, SendDatagramTransmits(nics[h], d, hop)), <<>>)
    BY <1>2, <1>3, <1>4, <1>7, <1>12, <2>2, SendKeepsLine
  <2> QED BY <2>1, <2>3 DEF ns, sb, out
<1>15. InLine(l, ns, Carry(wires, sb), received, <<>>, <<>>)
  <2>1. sb \in Wires
    BY <1>3, <1>9, SentByIsWire DEF sb
  <2> QED BY <1>2, <1>7, <1>14, <2>1, CarryKeepsLine
<1> QED BY <1>1, <1>15

-----------------------------------------------------------------------------
(* What is lost, dropped and taken.                                         *)

\* A segment without its first frame, and what was in it.
LEMMA TailKeepsLine ==
  ASSUME NEW l \in History, NEW ns, NEW ws \in [Segments -> Wires], NEW rc,
         InLine(l, ns, ws, rc, <<>>, <<>>), NEW s \in Segments, ws[s] # <<>>
  PROVE  LET rest == [ws EXCEPT ![s] = Tail(@)]
             X    == WireGrams[Head(ws[s])]
         IN  /\ InLine(l, ns, rest, rc, <<>>, <<>>)
             /\ Aloft(rest) \subseteq Aloft(ws) /\ X \subseteq Aloft(ws)
             /\ Head(ws[s]) \in FitFrames(l)
             /\ \A e \in X, d \in Aloft(rest) : MayFollow(l, d, e)
<1> DEFINE rest == [ws EXCEPT ![s] = Tail(@)]
           head == Head(ws[s])
           X    == WireGrams[head]
           U    == FitOn(l, s)
<1>1. ws[s] \in Seq(U) /\ Orderly(l, WireGrams, ws[s]) /\ ws[s] # <<>>
  BY DEF InLine, Placed, Rows
<1> HIDE DEF U
<1>2. /\ head \in U /\ Tail(ws[s]) \in Seq(U)
      /\ Held(WireGrams, ws[s]) = X \union Held(WireGrams, Tail(ws[s]))
      /\ Orderly(l, WireGrams, Tail(ws[s]))
      /\ \A e \in X, d \in Held(WireGrams, Tail(ws[s])) : MayFollow(l, d, e)
  BY <1>1, HeadTailProperties, HeldByTail, OrderlyTail
<1>3. rest[s] = Tail(ws[s]) /\ \A t \in Segments : t # s => rest[t] = ws[t]
  OBVIOUS
<1> HIDE DEF rest, head, X
<1>4. \A t \in Segments : /\ rest[t] \in Seq(FitOn(l, t)) /\ Orderly(l, WireGrams, rest[t])
                          /\ Held(WireGrams, rest[t]) \subseteq Held(WireGrams, ws[t])
  BY <1>2, <1>3 DEF InLine, Placed, Rows, U
<1>5. Aloft(rest) \subseteq Aloft(ws)
  BY <1>4 DEF Aloft
<1>6. X \subseteq Aloft(ws)
  BY <1>2 DEF Aloft
<1>7. head \in FitFrames(l) /\ SegmentOf(head[1]) = s
  BY <1>2 DEF FitOn, U
<1>8. ASSUME NEW e \in X, NEW d \in Aloft(rest)
      PROVE  MayFollow(l, d, e)
  <2>1. PICK t \in Segments : d \in Held(WireGrams, rest[t])
    BY DEF Aloft
  <2>2. CASE t = s
    BY <1>2, <1>3, <2>1, <2>2
  <2>3. CASE t # s
    <3>1. rest[t] \in Seq(FitOn(l, t))
      BY <1>4
    <3>2. PICK k \in 1..Len(rest[t]) : d \in WireGrams[rest[t][k]]
      BY <2>1, HeldByOne
    <3> DEFINE x == rest[t][k]
    <3>3. x \in FitFrames(l) /\ SegmentOf(x[1]) = t
      BY <3>1, ElementOfSeq DEF FitOn
    <3>4. d \in WireGrams[x]
      BY <3>2
    <3> HIDE DEF x
    <3>5. d \in Datagrams /\ Fits(l, d, x[1], IpAddress[x[2].dst])
      BY <3>3, <3>4, WireGramsOf DEF FitFrames
    <3>6. e \in Datagrams /\ Fits(l, e, head[1], IpAddress[head[2].dst])
      BY <1>7, WireGramsOf DEF FitFrames, X
    <3>7. x[1] # head[1]
      BY <1>7, <2>3, <3>3
    <3>8. NotBehind(l, d, e)
      <4>1. d \in Aloft(ws) /\ e \in Aloft(ws)
        BY <1>5, <1>6
      <4> QED BY <4>1 DEF InLine, Stages, Staged
    <3> QED BY <3>5, <3>6, <3>7, <3>8, Elsewhere
  <2> QED BY <2>2, <2>3
<1>9. Stages(l, ns, rest, rc, <<>>, <<>>)
  <2> DEFINE R  == Held(ReceiptGrams, rc)
             Q  == Arrivals(ns) \union Held(Grams, <<>>)
             F  == Aloft(ws)
             G  == Held(WireGrams, <<>>)
             W  == Waiters(ns)
             F1 == Aloft(rest)
  <2>1. Staged(l, R, Q, F, G, W)
    BY Zenon DEF InLine, Stages
  <2>2. F1 \in SUBSET F
    BY <1>5
  <2> HIDE DEF R, Q, F, G, W, F1
  <2>3. R \in SUBSET R /\ Q \in SUBSET Q /\ G \in SUBSET G /\ W \in SUBSET W
    OBVIOUS
  <2>4. Staged(l, R, Q, F1, G, W)
    BY <2>1, <2>2, <2>3, StagedFewer
  <2> QED BY <2>4, Zenon DEF Stages, R, Q, F1, G, W
<1>10. Rows(l, ns, rest, rc, <<>>, <<>>)
  BY <1>4 DEF InLine, Rows
<1>11. Placed(l, ns, rest, rc, <<>>)
  BY <1>4 DEF InLine, Placed
<1> QED BY <1>5, <1>6, <1>7, <1>8, <1>9, <1>10, <1>11 DEF InLine, rest, head, X

\* One moves from Q to R, and what stays in Q may follow it.
LEMMA StagedTaken ==
  ASSUME NEW l, NEW R, NEW Q, NEW F, NEW G, NEW W, Staged(l, R, Q, F, G, W),
         NEW d \in Q, NEW P, P \subseteq Q, \A x \in P : MayFollow(l, x, d)
  PROVE  Staged(l, R \union {d}, P, F, G, W)
<1>1. \A x, y \in (R \union {d}) \union P \union F \union G \union W : NotBehind(l, x, y)
  BY DEF Staged
<1>2. \A e \in R \union {d}, x \in P \union F \union G \union W : MayFollow(l, x, e)
  BY DEF Staged
<1>3. \A e \in P, x \in F \union G \union W : MayFollow(l, x, e)
  BY DEF Staged
<1>4. \A e \in F, x \in G \union W : MayFollow(l, x, e)
  BY DEF Staged
<1>5. \A e \in G, x \in W : MayFollow(l, x, e)
  BY DEF Staged
<1> QED BY <1>1, <1>2, <1>3, <1>4, <1>5 DEF Staged

\* A host takes what arrived first.
LEMMA TakeKeepsLine ==
  ASSUME NetworkInv, InLine(launched, nics, wires, received, <<>>, <<>>),
         NEW h \in Hosts, Take(h)
  PROVE  InLine(launched', nics', wires', received', <<>>, <<>>)
<1> DEFINE l   == launched
           old == nics[h]
           q   == old.datagrams_in
           d   == Head(q)
           t   == Tail(q)
           m   == [old EXCEPT !.datagrams_in = t]
           got == [host |-> h, datagram |-> d]
           R == Held(ReceiptGrams, received)
           Q == Arrivals(nics) \union Held(Grams, <<>>)
           F == Aloft(wires)
           G == Held(WireGrams, <<>>)
           W == Waiters(nics)
<1>1. /\ q # <<>> /\ nics' = [nics EXCEPT ![h] = m]
      /\ received' = Append(received, got)
      /\ UNCHANGED << routers, wires, launched >>
  BY DEF Take
<1>2. AllSound(nics) /\ h \in Nics /\ IpAddress[h] \in HostAddresses /\ l \in History
  BY InternetAssumption DEF NetworkInv, HostAddresses, History
<1>3. /\ Sound(old, h) /\ old \in NetworkInterfaces /\ Quiet(old)
      /\ q \in Seq(FitIn(l, h)) /\ q \in Seq(For(IpAddress[h])) /\ Orderly(l, Grams, q)
  <2>1. Sound(nics[h], h)
    BY <1>2 DEF AllSound
  <2> QED BY <1>2, <2>1 DEF Sound, InLine, Placed, Rows
<1>4. d \in FitIn(l, h) /\ d \in Datagrams /\ Grams[d] = {d} /\ d.dst = IpAddress[h]
  <2>1. d \in FitIn(l, h) /\ d \in For(IpAddress[h])
    BY <1>1, <1>3
  <2> HIDE DEF d
  <2> QED BY <1>2, <2>1 DEF For, Grams
<1>5. /\ t \in Seq(FitIn(l, h)) /\ Orderly(l, Grams, t)
      /\ Held(Grams, q) = Grams[d] \union Held(Grams, t)
      /\ \A x \in Held(Grams, t) : MayFollow(l, x, d)
  <2> DEFINE S == FitIn(l, h)
  <2>1. q \in Seq(S) /\ q # <<>> /\ Orderly(l, Grams, q)
    BY <1>1, <1>3
  <2> HIDE DEF S
  <2>2. \A e \in Grams[Head(q)], x \in Held(Grams, Tail(q)) : MayFollow(l, x, e)
    BY <2>1, OrderlyTail
  <2>3. Tail(q) \in Seq(S) /\ Orderly(l, Grams, Tail(q))
        /\ Held(Grams, q) = Grams[Head(q)] \union Held(Grams, Tail(q))
    BY <2>1, HeadTailProperties, OrderlyTail, HeldByTail
  <2> QED BY <1>4, <2>2, <2>3 DEF S
<1>6. got \in Receipts /\ got \in FitReceipts(l) /\ ReceiptGrams[got] = {d}
  <2>1. got.host = h /\ got.datagram = d
    OBVIOUS
  <2>2. got \in Receipts
    BY <1>4 DEF Receipts
  <2> HIDE DEF got
  <2> QED BY <1>4, <2>1, <2>2 DEF FitReceipts, ReceiptGrams
<1> HIDE DEF d, t, got
<1>7. m.datagrams_in = t /\ m.pending = old.pending /\ m.arp_cache = old.arp_cache
  <2> HIDE DEF old
  <2> QED BY <1>3 DEF NetworkInterfaces
<1>8. nics'[h] = m /\ \A n \in Nics : n # h => nics'[n] = nics[n]
  BY <1>1, <1>2 DEF AllSound
<1> HIDE DEF m
<1>9. \A n \in Nics : /\ Quiet(nics'[n])
                      /\ \A ip : Waiting(nics'[n], ip) = Waiting(nics[n], ip)
  <2>1. Quiet(m) /\ \A ip : Waiting(m, ip) = Waiting(nics[h], ip)
    BY <1>3, <1>7 DEF Quiet, Waiting
  <2>2. \A n \in Nics : Quiet(nics[n])
    BY DEF InLine, Placed
  <2> QED BY <1>8, <2>1, <2>2
<1>10. \A n \in Nics : /\ nics'[n].datagrams_in \in Seq(FitIn(l, n))
                       /\ Orderly(l, Grams, nics'[n].datagrams_in)
  <2>1. \A n \in Nics : /\ nics[n].datagrams_in \in Seq(FitIn(l, n))
                        /\ Orderly(l, Grams, nics[n].datagrams_in)
    BY DEF InLine, Placed, Rows
  <2> HIDE DEF q
  <2> QED BY <1>5, <1>7, <1>8, <2>1
<1>11. Waiters(nics') = W
  <2>1. \A n \in Nics, ip \in Addresses :
          Held(Grams, Waiting(nics'[n], ip)) = Held(Grams, Waiting(nics[n], ip))
    BY <1>9
  <2> QED BY <2>1 DEF Waiters
<1>12. Staged(l, R, Q, F, G, W) /\ Placed(l, nics, wires, received, <<>>)
  BY Zenon DEF InLine, Stages
<1>13. d \in Arrivals(nics) /\ d \in Q
  BY <1>2, <1>4, <1>5 DEF Arrivals
<1>14. Arrivals(nics') \subseteq Arrivals(nics)
  <2>1. \A n \in Nics : Held(Grams, nics'[n].datagrams_in) \subseteq Held(Grams, nics[n].datagrams_in)
    BY <1>5, <1>7, <1>8
  <2> QED BY <2>1 DEF Arrivals
<1>15. ASSUME NEW x \in Arrivals(nics')
       PROVE  MayFollow(l, x, d)
  <2>1. PICK n \in Nics : x \in Held(Grams, nics'[n].datagrams_in)
    BY DEF Arrivals
  <2>2. CASE n = h
    BY <1>5, <1>7, <1>8, <2>1, <2>2
  <2>3. CASE n # h
    <3>1. FitIn(l, n) \subseteq Datagrams
      BY DEF FitIn
    <3>2. x \in FitIn(l, n) /\ x \in Datagrams
      BY <1>10, <2>1, <3>1, GramsHeld
    <3>3. PICK u \in Nics : Fits(l, x, u, IpAddress[n])
      BY <3>2 DEF FitIn
    <3>4. PICK w \in Nics : Fits(l, d, w, IpAddress[h])
      BY <1>4 DEF FitIn
    <3>5. IpAddress[n] # IpAddress[h]
      BY <1>2, <2>3, InternetAssumption DEF IsInjective
    <3>6. NotBehind(l, x, d)
      <4>1. x \in Q
        BY <1>14
      <4> QED BY <1>12, <1>13, <4>1 DEF Staged
    <3> HIDE DEF l
    <3> QED BY <1>2, <1>4, <3>2, <3>3, <3>4, <3>5, <3>6, Elsewhere
  <2> QED BY <2>2, <2>3
<1> HIDE DEF got, q, old
<1>16. /\ received' \in Seq(FitReceipts(l))
       /\ Held(ReceiptGrams, received') = R \union {d}
       /\ Orderly(l, ReceiptGrams, received')
  <2> DEFINE T == FitReceipts(l)
             load == ReceiptGrams
  <2>1. received \in Seq(T) /\ got \in T /\ load[got] = {d} /\ Orderly(l, load, received)
    BY <1>6, <1>12 DEF Placed, InLine, Rows
  <2>2. \A e \in Held(load, received), x \in load[got] : MayFollow(l, x, e)
    BY <1>12, <1>13, <2>1 DEF Staged
  <2> HIDE DEF T, load
  <2>3. /\ Append(received, got) \in Seq(T)
        /\ Held(load, Append(received, got)) = Held(load, received) \union load[got]
    BY <2>1, AppendProperties, HeldWithOneMore
  <2>4. Orderly(l, load, Append(received, got))
    BY <2>1, <2>2, OrderlyWithOneMore
  <2> QED BY <1>1, <2>1, <2>3, <2>4 DEF T, load
<1>17. Stages(l, nics', wires, received', <<>>, <<>>)
  <2> DEFINE P == Arrivals(nics') \union Held(Grams, <<>>)
  <2>1. Held(Grams, <<>>) = {}
    BY HeldByNone
  <2>2. P \subseteq Q /\ \A x \in P : MayFollow(l, x, d)
    BY <1>14, <1>15, <2>1
  <2> HIDE DEF P, Q, R, F, G, W, l
  <2>3. Staged(l, R \union {d}, P, F, G, W)
    BY <1>12, <1>13, <2>2, StagedTaken
  <2> QED BY <1>11, <1>16, <2>3, Zenon DEF Stages, P, F, G, W
<1>18. Rows(l, nics', wires, received', <<>>, <<>>)
  BY <1>9, <1>10, <1>16 DEF InLine, Rows
<1>19. Placed(l, nics', wires, received', <<>>)
  BY <1>9, <1>10, <1>12, <1>16 DEF Placed
<1> QED BY <1>1, <1>17, <1>18, <1>19 DEF InLine

\* What waits for an answer that is late is dropped, and the rest keeps its place.
LEMMA TickKeepsLine ==
  ASSUME NetworkInv, InLine(launched, nics, wires, received, <<>>, <<>>),
         NEW i \in Nics, Tick(i)
  PROVE  InLine(launched', nics', wires', received', <<>>, <<>>)
<1> DEFINE l   == launched
           out == InterfaceTickTransmits(nics[i], TickMs)
           m   == InterfaceTick(nics[i], TickMs)
<1>1. PICK frames \in SetToSeqs(out) :
        /\ nics' = [nics EXCEPT ![i] = m]
        /\ wires' = Carry(wires, SentBy(i, frames))
        /\ UNCHANGED << routers, launched, received >>
  BY DEF Tick
<1>2. AllSound(nics) /\ wires \in [Segments -> Wires] /\ l \in History
  BY DEF NetworkInv, History
<1>3. Sound(nics[i], i) /\ TickMs \in Nat /\ Quiet(nics[i])
  BY <1>2, InternetAssumption DEF AllSound, InLine, Placed
<1>4. out \subseteq ARPFrames /\ IsFiniteSet(out)
  BY <1>3, TickIsSound
<1>5. /\ m.datagrams_in = nics[i].datagrams_in /\ Quiet(m)
      /\ \A ip : Waiting(m, ip) = Waiting(nics[i], ip) \/ Waiting(m, ip) = <<>>
  BY <1>3, TickDrops
<1> HIDE DEF out, m
<1>6. frames \in Seq(ARPFrames)
  <2>1. Cardinality(out) \in Nat
    BY <1>4, FS_CardinalityType
  <2>2. frames \in [1..Cardinality(out) -> out]
    BY DEF SetToSeqs
  <2>3. frames \in Seq(out)
    BY <2>1, <2>2
  <2> QED BY <1>4, <2>3, SeqMonotonic, Zenon
<1> DEFINE sb == SentBy(i, frames)
           ns == nics'
<1>7. /\ Held(WireGrams, sb) = {} /\ sb \in Seq(FitFrames(l)) /\ Orderly(l, WireGrams, sb)
      /\ sb \in Wires
  <2>1. frames \in Seq(Frames)
    <3>1. ARPFrames \subseteq Frames
      BY DEF Frames
    <3> QED BY <1>6, <3>1, SeqMonotonic, Zenon
  <2> QED BY <1>6, <2>1, ARPFits, SentByIsWire
<1>8. ns[i] = m /\ \A n \in Nics : n # i => ns[n] = nics[n]
  BY <1>1, <1>2 DEF AllSound
<1> HIDE DEF sb, ns
<1>9. ASSUME NEW n \in Nics
      PROVE  /\ Quiet(ns[n]) /\ ns[n].datagrams_in = nics[n].datagrams_in
             /\ \A ip : Waiting(ns[n], ip) = Waiting(nics[n], ip) \/ Waiting(ns[n], ip) = <<>>
  <2>1. Quiet(nics[n])
    BY DEF InLine, Placed
  <2> QED BY <1>5, <1>8, <2>1
<1>10. ASSUME NEW n \in Nics, NEW ip \in Addresses
       PROVE  /\ Waiting(ns[n], ip) \in Seq(FitAt(l, n, ip))
              /\ Orderly(l, Grams, Waiting(ns[n], ip))
              /\ Held(Grams, Waiting(ns[n], ip)) \subseteq Held(Grams, Waiting(nics[n], ip))
  <2> DEFINE w == Waiting(ns[n], ip)
             o == Waiting(nics[n], ip)
  <2>1. o \in Seq(FitAt(l, n, ip)) /\ Orderly(l, Grams, o)
    BY DEF InLine, Placed, Rows
  <2>2. w = o \/ w = <<>>
    BY <1>9
  <2> HIDE DEF w, o
  <2>3. /\ <<>> \in Seq(FitAt(l, n, ip)) /\ Orderly(l, Grams, <<>>)
        /\ Held(Grams, <<>>) = {}
    BY OrderlyNone, HeldByNone
  <2>4. w \in Seq(FitAt(l, n, ip)) /\ Orderly(l, Grams, w) /\ Held(Grams, w) \subseteq Held(Grams, o)
    BY <2>1, <2>2, <2>3
  <2> QED BY <2>4 DEF w, o
<1>11. Arrivals(ns) = Arrivals(nics) /\ Waiters(ns) \subseteq Waiters(nics)
  <2>1. Arrivals(ns) = Arrivals(nics)
    BY <1>9 DEF Arrivals
  <2>2. Waiters(ns) \subseteq Waiters(nics)
    <3> SUFFICES ASSUME NEW d \in Waiters(ns) PROVE d \in Waiters(nics)
      OBVIOUS
    <3>1. PICK n \in Nics, ip \in Addresses : d \in Held(Grams, Waiting(ns[n], ip))
      BY DEF Waiters
    <3>2. d \in Held(Grams, Waiting(nics[n], ip))
      BY <1>10, <3>1
    <3> QED BY <3>2 DEF Waiters
  <2> QED BY <2>1, <2>2
<1>12. Stages(l, ns, wires, received, sb, <<>>)
  <2> DEFINE R  == Held(ReceiptGrams, received)
             Q  == Arrivals(nics) \union Held(Grams, <<>>)
             F  == Aloft(wires)
             G  == Held(WireGrams, <<>>)
             W  == Waiters(nics)
             G1 == Held(WireGrams, sb)
             W1 == Waiters(ns)
  <2>1. Staged(l, R, Q, F, G, W)
    BY Zenon DEF InLine, Stages
  <2>2. W1 \in SUBSET W /\ G1 \in SUBSET G
    BY <1>7, <1>11
  <2> HIDE DEF R, Q, F, G, W, G1, W1
  <2>3. R \in SUBSET R /\ Q \in SUBSET Q /\ F \in SUBSET F
    OBVIOUS
  <2>4. Staged(l, R, Q, F, G1, W1)
    BY <2>1, <2>2, <2>3, StagedFewer
  <2> QED BY <1>11, <2>4, Zenon DEF Stages, R, Q, F, G1, W1
<1>13. Rows(l, ns, wires, received, sb, <<>>)
  <2>1. \A n \in Nics : Orderly(l, Grams, ns[n].datagrams_in)
    BY <1>9 DEF InLine, Rows
  <2> QED BY <1>7, <1>10, <2>1 DEF InLine, Rows
<1>14. Placed(l, ns, wires, received, sb)
  <2>1. \A n \in Nics : ns[n].datagrams_in \in Seq(FitIn(l, n))
    BY <1>9 DEF InLine, Placed
  <2> QED BY <1>7, <1>9, <1>10, <2>1 DEF InLine, Placed
<1>15. InLine(l, ns, Carry(wires, sb), received, <<>>, <<>>)
  <2>1. InLine(l, ns, wires, received, sb, <<>>)
    BY <1>12, <1>13, <1>14 DEF InLine
  <2> QED BY <1>2, <1>7, <2>1, CarryKeepsLine
<1> QED BY <1>1, <1>15 DEF ns, sb

-----------------------------------------------------------------------------
(* What arrives.                                                            *)

\* What has waited is transmitted in its order, and a reply behind it.
LEMMA LearnedFits ==
  ASSUME NEW l, NEW n, NEW name \in Nics, Sound(n, name), Quiet(n), NEW mac \in Nics,
         Waiting(n, IpAddress[mac]) \in Seq(FitAt(l, name, IpAddress[mac])),
         Orderly(l, Grams, Waiting(n, IpAddress[mac])),
         NEW reply \in Seq(ARPFrames)
  PROVE  LET sb == SentBy(name, LearnTransmits(n, IpAddress[mac], mac) \o reply)
         IN  /\ sb \in Seq(FitFrames(l)) /\ Orderly(l, WireGrams, sb)
             /\ Held(WireGrams, sb) \subseteq Held(Grams, Waiting(n, IpAddress[mac]))
<1> DEFINE ip  == IpAddress[mac]
           w   == Waiting(n, ip)
           ans == LearnTransmits(n, ip, mac)
           out == ans \o reply
           sb  == SentBy(name, out)
<1>1. /\ w \in Seq(For(ip)) /\ ans \in Seq(Frames) /\ Len(ans) = Len(w)
      /\ \A k \in 1..Len(w) : ans[k] = IPv4Frame(n, mac, w[k])
  BY LearnsInOrder
<1>2. w \in Seq(FitAt(l, name, ip)) /\ Orderly(l, Grams, w)
  OBVIOUS
<1> HIDE DEF w, ans
<1>3. reply \in Seq(Frames)
  <2>1. ARPFrames \subseteq Frames
    BY DEF Frames
  <2> QED BY <2>1, SeqMonotonic, Zenon
<1>4. /\ out \in Seq(Frames) /\ Len(out) = Len(w) + Len(reply)
      /\ Len(w) \in Nat /\ Len(reply) \in Nat
      /\ \A k \in 1..Len(out) : IF k <= Len(w) THEN k \in 1..Len(w) /\ out[k] = ans[k]
                                ELSE k - Len(w) \in 1..Len(reply) /\ out[k] = reply[k - Len(w)]
  <2>1. Len(ans) = Len(w)
    BY <1>1
  <2>2. /\ out \in Seq(Frames) /\ Len(out) = Len(ans) + Len(reply)
        /\ Len(ans) \in Nat /\ Len(reply) \in Nat
        /\ \A k \in 1..(Len(ans) + Len(reply)) :
             IF k <= Len(ans) THEN k \in 1..Len(ans) /\ out[k] = ans[k]
             ELSE k - Len(ans) \in 1..Len(reply) /\ out[k] = reply[k - Len(ans)]
    <3> DEFINE T == Frames
    <3>1. ans \in Seq(T) /\ reply \in Seq(T)
      BY <1>1, <1>3
    <3> HIDE DEF T
    <3>2. out = ans \o reply
      OBVIOUS
    <3>3. Len(ans) \in Nat /\ Len(reply) \in Nat
      BY <3>1
    <3>4. /\ out \in Seq(T) /\ Len(out) = Len(ans) + Len(reply)
          /\ \A k \in 1..(Len(ans) + Len(reply)) :
               IF k <= Len(ans) THEN k \in 1..Len(ans) /\ out[k] = ans[k]
               ELSE k - Len(ans) \in 1..Len(reply) /\ out[k] = reply[k - Len(ans)]
      BY <3>1, Concatenation
    <3> HIDE DEF out
    <3> QED BY <3>3, <3>4 DEF T
  <2> HIDE DEF out
  <2> QED BY <2>1, <2>2
<1> HIDE DEF out
<1>5. sb \in Wires /\ Len(sb) = Len(out) /\ \A k \in 1..Len(out) : sb[k] = << name, out[k] >>
  BY <1>4, SentByIsWire
<1> HIDE DEF sb
<1>6. ASSUME NEW k \in 1..Len(sb), k <= Len(w)
      PROVE  k \in 1..Len(w) /\ sb[k] \in FitFrames(l) /\ WireGrams[sb[k]] = Grams[w[k]]
  <2> DEFINE d == w[k]
             x == << name, IPv4Frame(n, mac, d) >>
  <2>1. k \in 1..Len(w) /\ sb[k] = x
    BY <1>1, <1>4, <1>5, <1>6
  <2>2. d \in For(ip) /\ d \in FitAt(l, name, ip)
    BY <1>1, <1>2, <2>1, ElementOfSeq
  <2>3. d \in Datagrams /\ Fits(l, d, name, ip)
    BY <2>2 DEF FitAt
  <2> HIDE DEF d
  <2>4. x \in FitFrames(l) /\ WireGrams[x] = {d}
    BY <2>2, <2>3, DatagramFits
  <2>5. Grams[d] = {d}
    BY <2>3 DEF Grams
  <2> HIDE DEF x
  <2> QED BY <2>1, <2>4, <2>5 DEF d
<1>7. ASSUME NEW k \in 1..Len(sb), ~(k <= Len(w))
      PROVE  sb[k] \in FitFrames(l) /\ WireGrams[sb[k]] = {}
  <2> DEFINE f == out[k]
             x == << name, f >>
  <2>1. f \in ARPFrames /\ sb[k] = x
    <3>1. k - Len(w) \in 1..Len(reply) /\ f = reply[k - Len(w)] /\ sb[k] = x
      BY <1>4, <1>5, <1>7
    <3> QED BY <3>1, ElementOfSeq
  <2> HIDE DEF f
  <2>2. x \in Nics \X Frames /\ x[2] = f /\ f.type = "ARP"
    BY <2>1 DEF Frames, ARPFrames
  <2> HIDE DEF x
  <2>3. WireGrams[x] = {}
    BY <2>2 DEF WireGrams, FrameGrams
  <2> QED BY <2>1, <2>2, <2>3 DEF FitFrames
<1>8. sb \in Seq(FitFrames(l))
  <2>1. Len(sb) \in Nat /\ sb = [k \in 1..Len(sb) |-> sb[k]]
    BY <1>5 DEF Wires
  <2>2. \A k \in 1..Len(sb) : sb[k] \in FitFrames(l)
    BY <1>6, <1>7
  <2> QED BY <2>1, <2>2, IsASeq
<1>9. Orderly(l, WireGrams, sb)
  <2> SUFFICES ASSUME NEW i \in 1..Len(sb), NEW j \in 1..Len(sb), i < j,
                      NEW e \in WireGrams[sb[i]], NEW d \in WireGrams[sb[j]]
               PROVE  MayFollow(l, d, e)
    BY DEF Orderly
  <2>1. i <= Len(w) /\ j <= Len(w)
    BY <1>7
  <2>2. /\ i \in 1..Len(w) /\ j \in 1..Len(w)
        /\ e \in Grams[w[i]] /\ d \in Grams[w[j]]
    BY <1>6, <2>1
  <2> QED BY <1>2, <2>2 DEF Orderly
<1>10. Held(WireGrams, sb) \subseteq Held(Grams, w)
  <2> SUFFICES ASSUME NEW e \in Held(WireGrams, sb) PROVE e \in Held(Grams, w)
    OBVIOUS
  <2>1. PICK k \in 1..Len(sb) : e \in WireGrams[sb[k]]
    BY HeldByOne
  <2>2. k <= Len(w)
    BY <1>7, <2>1
  <2>3. k \in 1..Len(w) /\ e \in Grams[w[k]]
    BY <1>6, <2>1, <2>2
  <2> QED BY <2>3, HeldByOne
<1> QED BY <1>8, <1>9, <1>10 DEF sb, out, ans, w

\* Only a datagram for the interface is new in its queue.
Takes(n, name, frame, m) ==
  \/ m.datagrams_in = n.datagrams_in
  \/ /\ frame \in DatagramFrames /\ frame.dst = name
     /\ m.datagrams_in = Append(n.datagrams_in, frame.datagram)

\* What is transmitted is in order, and had waited for one address, where nothing
\* waits then.
Passes(l, n, name, m, sb) ==
  /\ sb \in Seq(FitFrames(l)) /\ Orderly(l, WireGrams, sb)
  /\ \A d \in Held(WireGrams, sb) :
       \E ip \in Addresses : d \in Held(Grams, Waiting(n, ip)) /\ Waiting(m, ip) = <<>>

\* What a frame does to the interface that gets it: it takes its datagram or passes
\* on what waited (NetworkInterface::recv_frame).
LEMMA RecvInOrder ==
  ASSUME NEW l, NEW n, NEW name \in Nics, Sound(n, name), Quiet(n), NEW frame \in Frames,
         \A ip \in Addresses : /\ Waiting(n, ip) \in Seq(FitAt(l, name, ip))
                               /\ Orderly(l, Grams, Waiting(n, ip))
  PROVE  LET m  == RecvFrame(n, frame)
             sb == SentBy(name, RecvFrameTransmits(n, frame))
         IN  /\ Quiet(m) /\ Takes(n, name, frame, m) /\ Passes(l, n, name, m, sb)
             /\ \A ip : Waiting(m, ip) = Waiting(n, ip) \/ Waiting(m, ip) = <<>>
<1> DEFINE m   == RecvFrame(n, frame)
           out == RecvFrameTransmits(n, frame)
           sb  == SentBy(name, out)
<1>1. ASSUME out = <<>>
      PROVE  Passes(l, n, name, m, sb)
  <2> DEFINE none == SentBy(name, <<>>)
  <2>1. <<>> \in Seq(ARPFrames)
    OBVIOUS
  <2>2. /\ Held(WireGrams, none) = {} /\ none \in Seq(FitFrames(l))
        /\ Orderly(l, WireGrams, none)
    BY <2>1, ARPFits
  <2>3. sb = none
    BY <1>1
  <2> HIDE DEF none, sb, m
  <2> QED BY <2>2, <2>3 DEF Passes
<1>2. CASE ~AddressedTo(n, frame)
  <2>1. m = n /\ out = <<>>
    BY <1>2 DEF RecvFrame, RecvFrameTransmits
  <2>2. Passes(l, n, name, m, sb)
    BY <1>1, <2>1
  <2> HIDE DEF m, out
  <2>3. Quiet(m) /\ Takes(n, name, frame, m) /\ \A ip : Waiting(m, ip) = Waiting(n, ip)
    BY <2>1 DEF Takes
  <2> QED BY <2>2, <2>3 DEF m, out
<1>3. CASE AddressedTo(n, frame) /\ frame \in DatagramFrames
  <2>1. frame.type = "IPv4" /\ frame.dst = name
    BY <1>3, InternetAssumption DEF AddressedTo, DatagramFrames, Sound
  <2>2. m = [n EXCEPT !.datagrams_in = Append(@, frame.datagram)] /\ out = <<>>
    BY <1>3, <2>1 DEF RecvFrame, RecvFrameTransmits
  <2>3. Passes(l, n, name, m, sb)
    BY <1>1, <2>2
  <2>4. n \in NetworkInterfaces
    BY DEF Sound
  <2> HIDE DEF m, out
  <2>5. /\ m.datagrams_in = Append(n.datagrams_in, frame.datagram)
        /\ m.pending = n.pending /\ m.arp_cache = n.arp_cache
    BY <2>2, <2>4 DEF NetworkInterfaces
  <2>6. Quiet(m) /\ \A ip : Waiting(m, ip) = Waiting(n, ip)
    BY <2>5 DEF Quiet, Waiting
  <2>7. Takes(n, name, frame, m)
    BY <1>3, <2>1, <2>5 DEF Takes
  <2> QED BY <2>3, <2>6, <2>7 DEF m, out
<1>4. CASE AddressedTo(n, frame) /\ frame \in ARPFrames
  <2> DEFINE mac   == frame.sender_mac
             ip    == IpAddress[mac]
             reply == IF Replies(n, frame) THEN << ARPReply(n, ip, mac) >> ELSE <<>>
  <2>1. frame.type = "ARP" /\ mac \in Nics /\ frame.sender_ip = ip /\ ip \in Addresses
    BY <1>4 DEF ARPFrames
  <2>2. m = Learn(n, ip, mac) /\ out = LearnTransmits(n, ip, mac) \o reply
    BY <1>4, <2>1 DEF RecvFrame, RecvFrameTransmits
  <2>3. reply \in Seq(ARPFrames)
    <3> DEFINE answer == ARPReply(n, ip, mac)
    <3>1. answer \in ARPFrames
      <4>1. answer \in Frames
        BY <2>1, ReplyOK
      <4>2. answer.type = "ARP"
        BY DEF ARPReply
      <4> HIDE DEF answer
      <4> QED BY <4>1, <4>2 DEF Frames, DatagramFrames
    <3> HIDE DEF answer
    <3>2. << answer >> \in Seq(ARPFrames) /\ <<>> \in Seq(ARPFrames)
      BY <3>1
    <3> QED BY <3>2 DEF answer
  <2> HIDE DEF mac, reply
  <2>4. /\ m.datagrams_in = n.datagrams_in /\ Quiet(m) /\ Waiting(m, ip) = <<>>
        /\ \A jp : jp # ip => Waiting(m, jp) = Waiting(n, jp)
    BY <2>1, <2>2, LearnsInOrder
  <2>5. /\ sb \in Seq(FitFrames(l)) /\ Orderly(l, WireGrams, sb)
        /\ Held(WireGrams, sb) \subseteq Held(Grams, Waiting(n, ip))
    BY <2>1, <2>2, <2>3, LearnedFits
  <2> HIDE DEF m, sb, ip
  <2>6. Passes(l, n, name, m, sb)
    BY <2>1, <2>4, <2>5 DEF Passes
  <2>7. Takes(n, name, frame, m)
    BY <2>4 DEF Takes
  <2>8. \A jp : Waiting(m, jp) = Waiting(n, jp) \/ Waiting(m, jp) = <<>>
    BY <2>4
  <2> QED BY <2>4, <2>6, <2>7, <2>8 DEF m, sb
<1> QED BY <1>2, <1>3, <1>4 DEF Frames

\* What is in D may follow what is in E.
MayAllFollow(l, D, E) == \A e \in E, d \in D : MayFollow(l, d, e)

\* What was first on a segment arrives, and what has waited for an address is
\* transmitted.
LEMMA StagedArrived ==
  ASSUME NEW l, NEW R, NEW Q, NEW F, NEW G, NEW W, Staged(l, R, Q, F, G, W),
         NEW X \in SUBSET F, NEW Q1 \in SUBSET (Q \union X), NEW F1 \in SUBSET F,
         NEW G1 \in SUBSET W, NEW W1 \in SUBSET W,
         MayAllFollow(l, F1, X), MayAllFollow(l, W1, G1)
  PROVE  Staged(l, R, Q1, F1, G1, W1)
<1>1. \A d, e \in R \union Q1 \union F1 \union G1 \union W1 : NotBehind(l, d, e)
  <2>1. R \union Q1 \union F1 \union G1 \union W1 \subseteq R \union Q \union F \union G \union W
    OBVIOUS
  <2> QED BY <2>1 DEF Staged
<1>2. \A e \in R, d \in Q1 \union F1 \union G1 \union W1 : MayFollow(l, d, e)
  <2>1. Q1 \union F1 \union G1 \union W1 \subseteq Q \union F \union G \union W
    OBVIOUS
  <2> QED BY <2>1 DEF Staged
<1>3. \A e \in Q1, d \in F1 \union G1 \union W1 : MayFollow(l, d, e)
  <2> SUFFICES ASSUME NEW e \in Q1, NEW d \in F1 \union G1 \union W1
               PROVE  MayFollow(l, d, e)
    OBVIOUS
  <2>1. CASE e \in Q
    BY <2>1 DEF Staged
  <2>2. CASE e \in X
    <3>1. d \in F1 \/ d \in W
      OBVIOUS
    <3> QED BY <2>2, <3>1 DEF Staged, MayAllFollow
  <2> QED BY <2>1, <2>2
<1>4. \A e \in F1, d \in G1 \union W1 : MayFollow(l, d, e)
  BY DEF Staged, MayAllFollow
<1>5. \A e \in G1, d \in W1 : MayFollow(l, d, e)
  BY DEF MayAllFollow
<1> QED BY <1>1, <1>2, <1>3, <1>4, <1>5 DEF Staged

\* The interfaces on a segment get its first frame, x, one after another.
LEMMA OthersKeepLine ==
  ASSUME NEW l \in History, NEW ns, AllSound(ns), NEW ws, NEW rest, NEW rc,
         InLine(l, ns, ws, rc, <<>>, <<>>), InLine(l, ns, rest, rc, <<>>, <<>>),
         NEW x \in FitFrames(l), WireGrams[x] \subseteq Aloft(ws), Aloft(rest) \subseteq Aloft(ws),
         \A e \in WireGrams[x], d \in Aloft(rest) : MayFollow(l, d, e),
         NEW others \in Seq(Nics),
         \A j, k \in 1..Len(others) : j # k => others[j] # others[k]
  PROVE  LET frame == x[2]
             ms    == [n \in Nics |-> IF n \in ToSet(others)
                                      THEN RecvFrame(ns[n], frame) ELSE ns[n]]
             sent  == [k \in DOMAIN others |->
                         SentBy(others[k], RecvFrameTransmits(ns[others[k]], frame))]
         IN  InLine(l, ms, rest, rc, FlattenSeq(sent), <<>>)
<1> DEFINE frame  == x[2]
           got(n) == RecvFrame(ns[n], frame)
           sb(n)  == SentBy(n, RecvFrameTransmits(ns[n], frame))
           ms     == [n \in Nics |-> IF n \in ToSet(others) THEN got(n) ELSE ns[n]]
           sent   == [k \in DOMAIN others |-> sb(others[k])]
           fs     == FlattenSeq(sent)
           X      == WireGrams[x]
           R == Held(ReceiptGrams, rc)
           Q == Arrivals(ns) \union Held(Grams, <<>>)
           F == Aloft(ws)
           W == Waiters(ns)
<1>1. /\ Len(others) \in Nat /\ DOMAIN others = 1..Len(others)
      /\ \A k \in 1..Len(others) : others[k] \in Nics /\ others[k] \in ToSet(others)
  BY DEF ToSet
<1>2. x \in Nics \X Frames /\ frame \in Frames
      /\ \A d \in X : Fits(l, d, x[1], IpAddress[frame.dst])
  BY DEF FitFrames
<1>3. /\ Staged(l, R, Q, F, {}, W) /\ Placed(l, ns, ws, rc, <<>>)
      /\ Rows(l, ns, ws, rc, <<>>, <<>>)
  <2>1. Held(WireGrams, <<>>) = {}
    BY HeldByNone
  <2> QED BY <2>1, Zenon DEF InLine, Stages
<1>4. frame \in DatagramFrames => X = {frame.datagram} /\ frame.datagram \in Datagrams
  <2> ASSUME frame \in DatagramFrames PROVE X = {frame.datagram} /\ frame.datagram \in Datagrams
    <3>1. frame.type = "IPv4" /\ frame.datagram \in Datagrams
      BY DEF DatagramFrames
    <3> QED BY <1>2, <3>1 DEF WireGrams, FrameGrams
  <2> QED OBVIOUS
<1>5. ASSUME NEW n \in Nics
      PROVE  /\ Quiet(got(n)) /\ Takes(ns[n], n, frame, got(n))
             /\ Passes(l, ns[n], n, got(n), sb(n))
             /\ \A ip : Waiting(got(n), ip) = Waiting(ns[n], ip) \/ Waiting(got(n), ip) = <<>>
             /\ Quiet(ns[n])
  <2>1. Sound(ns[n], n) /\ Quiet(ns[n])
    BY <1>3 DEF AllSound, Placed
  <2>2. \A ip \in Addresses : /\ Waiting(ns[n], ip) \in Seq(FitAt(l, n, ip))
                              /\ Orderly(l, Grams, Waiting(ns[n], ip))
    BY <1>3 DEF Placed, Rows
  <2> HIDE DEF frame
  <2> QED BY <1>2, <2>1, <2>2, RecvInOrder
<1> HIDE DEF frame, X, F, got, sb
<1>6. \A n \in Nics : ms[n] = IF n \in ToSet(others) THEN got(n) ELSE ns[n]
  OBVIOUS
<1>7. /\ Len(sent) = Len(others) /\ sent \in Seq(Seq(FitFrames(l)))
      /\ \A k \in 1..Len(others) : sent[k] = sb(others[k])
  <2> DEFINE T == Seq(FitFrames(l))
  <2>1. \A k \in 1..Len(others) : sb(others[k]) \in T
    BY <1>1, <1>5 DEF Passes
  <2>2. sent = [k \in 1..Len(others) |-> sb(others[k])]
    BY <1>1
  <2> HIDE DEF sent, T
  <2>3. sent \in Seq(T) /\ Len(sent) = Len(others)
    BY <1>1, <2>1, <2>2, IsASeq
  <2>4. \A k \in 1..Len(others) : sent[k] = sb(others[k])
    BY <2>2
  <2> QED BY <2>3, <2>4 DEF T
<1> HIDE DEF ms, sent, fs
<1>8. ASSUME NEW n \in Nics
      PROVE  /\ Quiet(ms[n]) /\ Takes(ns[n], n, frame, ms[n])
             /\ \A ip : Waiting(ms[n], ip) = Waiting(ns[n], ip) \/ Waiting(ms[n], ip) = <<>>
  <2>1. Takes(ns[n], n, frame, ns[n])
    BY DEF Takes
  <2> QED BY <1>5, <1>6, <2>1
<1>9. ASSUME NEW k \in 1..Len(sent)
      PROVE  /\ others[k] \in Nics /\ Orderly(l, WireGrams, sent[k])
             /\ \A d \in Held(WireGrams, sent[k]) :
                  \E ip \in Addresses :
                    /\ d \in Held(Grams, Waiting(ns[others[k]], ip))
                    /\ Waiting(ms[others[k]], ip) = <<>>
                    /\ d \in Datagrams /\ Fits(l, d, others[k], ip)
  <2> DEFINE n == others[k]
  <2>1. n \in Nics /\ n \in ToSet(others) /\ sent[k] = sb(n)
    BY <1>1, <1>7
  <2> HIDE DEF n
  <2>2. ms[n] = got(n) /\ Passes(l, ns[n], n, got(n), sb(n))
    BY <1>5, <1>6, <2>1
  <2>3. ASSUME NEW d \in Held(WireGrams, sb(n))
        PROVE  \E ip \in Addresses : /\ d \in Held(Grams, Waiting(ns[n], ip))
                                     /\ Waiting(ms[n], ip) = <<>>
                                     /\ d \in Datagrams /\ Fits(l, d, n, ip)
    <3>1. PICK ip \in Addresses : d \in Held(Grams, Waiting(ns[n], ip))
                                  /\ Waiting(ms[n], ip) = <<>>
      BY <2>2 DEF Passes
    <3>2. Waiting(ns[n], ip) \in Seq(FitAt(l, n, ip)) /\ FitAt(l, n, ip) \subseteq Datagrams
      BY <1>3, <2>1 DEF Placed, FitAt
    <3>3. d \in FitAt(l, n, ip)
      BY <3>1, <3>2, GramsHeld
    <3> QED BY <3>1, <3>3 DEF FitAt
  <2>4. Orderly(l, WireGrams, sb(n))
    BY <2>2 DEF Passes
  <2> QED BY <2>1, <2>3, <2>4 DEF n
<1>10. ASSUME NEW k \in 1..Len(sent), NEW d \in Held(WireGrams, sent[k])
       PROVE  d \in W
  <2>1. others[k] \in Nics
    BY <1>9
  <2>2. PICK ip \in Addresses : d \in Held(Grams, Waiting(ns[others[k]], ip))
    BY <1>9
  <2> QED BY <2>1, <2>2 DEF Waiters
<1>11. /\ Orderly(l, WireGrams, fs)
       /\ \A d : d \in Held(WireGrams, fs) <=>
                   \E k \in 1..Len(sent) : d \in Held(WireGrams, sent[k])
  <2>1. ASSUME NEW j \in 1..Len(sent), NEW k \in 1..Len(sent), j < k,
               NEW e \in Held(WireGrams, sent[j]), NEW d \in Held(WireGrams, sent[k])
        PROVE  MayFollow(l, d, e)
    <3>1. PICK ip \in Addresses : e \in Datagrams /\ Fits(l, e, others[j], ip)
      BY <1>9
    <3>2. PICK jp \in Addresses : d \in Datagrams /\ Fits(l, d, others[k], jp)
      BY <1>9
    <3>3. others[j] # others[k]
      BY <1>7, <2>1
    <3>4. NotBehind(l, d, e)
      <4>1. d \in W /\ e \in W
        BY <1>10
      <4> HIDE DEF R, Q, W
      <4> QED BY <1>3, <4>1 DEF Staged
    <3> QED BY <3>1, <3>2, <3>3, <3>4, Elsewhere
  <2>2. \A k \in 1..Len(sent) : Orderly(l, WireGrams, sent[k])
    BY <1>9
  <2> QED BY <1>7, <2>1, <2>2, OrderlyFlattened DEF fs
<1>12. fs \in Seq(FitFrames(l))
  <2> DEFINE T == FitFrames(l)
  <2>1. sent \in Seq(Seq(T))
    BY <1>7
  <2> HIDE DEF T
  <2>2. PICK f \in [0..Len(sent) -> Seq(T)] : FlattenSeq(sent) = f[Len(sent)]
    BY <2>1, FlattenJoins
  <2>3. Len(sent) \in 0..Len(sent)
    BY <2>1
  <2> QED BY <2>2, <2>3 DEF T, fs
<1>13. ASSUME NEW n \in Nics, NEW ip \in Addresses
       PROVE  /\ Waiting(ms[n], ip) \in Seq(FitAt(l, n, ip))
              /\ Orderly(l, Grams, Waiting(ms[n], ip))
              /\ Held(Grams, Waiting(ms[n], ip)) \subseteq Held(Grams, Waiting(ns[n], ip))
              /\ Held(Grams, Waiting(ms[n], ip)) # {} => Waiting(ms[n], ip) # <<>>
  <2> DEFINE w == Waiting(ms[n], ip)
             o == Waiting(ns[n], ip)
  <2>1. o \in Seq(FitAt(l, n, ip)) /\ Orderly(l, Grams, o)
    BY <1>3 DEF Placed, Rows
  <2>2. w = o \/ w = <<>>
    BY <1>8
  <2> HIDE DEF w, o
  <2>3. /\ <<>> \in Seq(FitAt(l, n, ip)) /\ Orderly(l, Grams, <<>>)
        /\ Held(Grams, <<>>) = {}
    BY OrderlyNone, HeldByNone
  <2>4. w \in Seq(FitAt(l, n, ip)) /\ Orderly(l, Grams, w) /\ Held(Grams, w) \subseteq Held(Grams, o)
    BY <2>1, <2>2, <2>3
  <2>5. Held(Grams, w) # {} => w # <<>>
    BY <2>3
  <2> QED BY <2>4, <2>5 DEF w, o
<1>14. ASSUME NEW d \in Waiters(ms)
       PROVE  /\ d \in W /\ d \in Datagrams
              /\ \E n \in Nics, ip \in Addresses : Waiting(ms[n], ip) # <<>> /\ Fits(l, d, n, ip)
  <2>1. PICK n \in Nics, ip \in Addresses : d \in Held(Grams, Waiting(ms[n], ip))
    BY DEF Waiters
  <2>2. d \in W
    <3>1. d \in Held(Grams, Waiting(ns[n], ip))
      BY <1>13, <2>1
    <3> QED BY <3>1 DEF Waiters
  <2>3. Waiting(ms[n], ip) # <<>> /\ Waiting(ms[n], ip) \in Seq(FitAt(l, n, ip))
    BY <1>13, <2>1
  <2>4. FitAt(l, n, ip) \subseteq Datagrams
    BY DEF FitAt
  <2>5. d \in FitAt(l, n, ip)
    BY <2>1, <2>3, <2>4, GramsHeld
  <2> QED BY <2>2, <2>3, <2>5 DEF FitAt
<1>15. ASSUME NEW n \in Nics
       PROVE  /\ ms[n].datagrams_in \in Seq(FitIn(l, n))
              /\ Orderly(l, Grams, ms[n].datagrams_in)
              /\ Held(Grams, ms[n].datagrams_in) \subseteq Q \union X
  <2> DEFINE q == ns[n].datagrams_in
             p == ms[n].datagrams_in
             d == frame.datagram
             S == FitIn(l, n)
  <2>1. q \in Seq(S) /\ Orderly(l, Grams, q) /\ Held(Grams, q) \subseteq Q
    BY <1>3 DEF Placed, Rows, Arrivals
  <2>2. \/ p = q
        \/ frame \in DatagramFrames /\ frame.dst = n /\ p = Append(q, d)
    BY <1>8 DEF Takes
  <2>3. ASSUME frame \in DatagramFrames, frame.dst = n
        PROVE  d \in S /\ Grams[d] = {d} /\ X = {d} /\ \A e \in Held(Grams, q) : MayFollow(l, d, e)
    <3>1. X = {d} /\ d \in Datagrams
      BY <1>4, <2>3
    <3>2. Fits(l, d, x[1], IpAddress[n]) /\ x[1] \in Nics
      BY <1>2, <2>3, <3>1
    <3>3. \A e \in Held(Grams, q) : MayFollow(l, d, e)
      <4>1. d \in F
        BY <3>1 DEF F, X
      <4> HIDE DEF q, Q, d, R, W
      <4> QED BY <1>3, <2>1, <4>1 DEF Staged
    <3> HIDE DEF d
    <3> QED BY <3>1, <3>2, <3>3 DEF FitIn, Grams
  <2> HIDE DEF p, q, d, S, Q
  <2>4. CASE p = q
    BY <2>1, <2>4 DEF p, S
  <2>5. CASE frame \in DatagramFrames /\ frame.dst = n /\ p = Append(q, d)
    <3>1. d \in S /\ Grams[d] = {d} /\ X = {d} /\ \A e \in Held(Grams, q) : MayFollow(l, d, e)
      BY <2>3, <2>5
    <3>2. p \in Seq(S) /\ Held(Grams, p) = Held(Grams, q) \union Grams[d]
      BY <2>1, <2>5, <3>1, AppendProperties, HeldWithOneMore
    <3>3. Orderly(l, Grams, p)
      BY <2>1, <2>5, <3>1, OrderlyWithOneMore
    <3>4. Held(Grams, p) \subseteq Q \union X
      BY <2>1, <3>1, <3>2
    <3> QED BY <3>2, <3>3, <3>4 DEF p, S
  <2> QED BY <2>2, <2>4, <2>5
<1>16. Stages(l, ms, rest, rc, fs, <<>>)
  <2> DEFINE Q1 == Arrivals(ms) \union Held(Grams, <<>>)
             F1 == Aloft(rest)
             G1 == Held(WireGrams, fs)
             W1 == Waiters(ms)
  <2>1. X \subseteq F /\ F1 \subseteq F /\ \A e \in X, d \in F1 : MayFollow(l, d, e)
    BY DEF X, F
  <2>2. Q1 \subseteq Q \union X
    <3>1. Arrivals(ms) \subseteq Q \union X
      <4> HIDE DEF Q
      <4> QED BY <1>15 DEF Arrivals
    <3> QED BY <3>1
  <2>3. G1 \subseteq W /\ W1 \subseteq W
    <3> HIDE DEF W
    <3> QED BY <1>10, <1>11, <1>14
  <2>4. \A e \in G1, d \in W1 : MayFollow(l, d, e)
    <3> SUFFICES ASSUME NEW e \in G1, NEW d \in W1 PROVE MayFollow(l, d, e)
      OBVIOUS
    <3>1. PICK k \in 1..Len(sent) : e \in Held(WireGrams, sent[k])
      BY <1>11
    <3>2. others[k] \in Nics
      BY <1>9
    <3>3. PICK ip \in Addresses : /\ Waiting(ms[others[k]], ip) = <<>>
                                  /\ e \in Datagrams /\ Fits(l, e, others[k], ip)
      BY <1>9, <3>1
    <3>4. PICK n \in Nics, jp \in Addresses : Waiting(ms[n], jp) # <<>> /\ Fits(l, d, n, jp)
      BY <1>14
    <3>5. n # others[k] \/ jp # ip
      BY <3>3, <3>4
    <3>6. d \in Datagrams
      BY <1>14
    <3>7. NotBehind(l, d, e)
      <4>1. d \in W /\ e \in W
        BY <2>3
      <4> HIDE DEF R, Q, W, W1, G1
      <4> QED BY <1>3, <4>1 DEF Staged
    <3> QED BY <3>3, <3>4, <3>5, <3>6, <3>7, Elsewhere
  <2> HIDE DEF R, Q, W, Q1, F1, G1, W1
  <2>5. Staged(l, R, Q1, F1, G1, W1)
    <3> DEFINE No == {}
    <3>1. Staged(l, R, Q, F, No, W)
      BY <1>3
    <3> HIDE DEF No
    <3>2. /\ X \in SUBSET F /\ Q1 \in SUBSET (Q \union X) /\ F1 \in SUBSET F
          /\ G1 \in SUBSET W /\ W1 \in SUBSET W
      BY <2>1, <2>2, <2>3
    <3>3. MayAllFollow(l, F1, X) /\ MayAllFollow(l, W1, G1)
      BY <2>1, <2>4 DEF MayAllFollow
    <3> QED BY <3>1, <3>2, <3>3, StagedArrived
  <2> QED BY <2>5, Zenon DEF Stages, R, Q1, F1, G1, W1
<1>17. Rows(l, ms, rest, rc, fs, <<>>)
  <2>1. Rows(l, ns, rest, rc, <<>>, <<>>)
    BY DEF InLine
  <2> QED BY <1>11, <1>13, <1>15, <2>1 DEF Rows
<1>18. Placed(l, ms, rest, rc, fs)
  <2>1. Placed(l, ns, rest, rc, <<>>)
    BY DEF InLine
  <2> QED BY <1>8, <1>12, <1>13, <1>15, <2>1 DEF Placed
<1>19. InLine(l, ms, rest, rc, fs, <<>>)
  BY <1>16, <1>17, <1>18 DEF InLine
<1> QED BY <1>19 DEF ms, fs, sent, sb, got, frame

\* What arrives leaves all in line.
LEMMA ArriveKeepsLine ==
  ASSUME NetworkInv, InLine(launched, nics, wires, received, <<>>, <<>>),
         NEW s \in Segments, Arrive(s)
  PROVE  InLine(launched', nics', wires', received', <<>>, <<>>)
<1> DEFINE x      == Head(wires[s])
           frame  == x[2]
           S      == Nics \ {x[1]}
           others == Selected(Connections[s], S)
           ms     == [n \in Nics |-> IF n \in ToSet(others)
                                     THEN RecvFrame(nics[n], frame) ELSE nics[n]]
           sent   == [k \in DOMAIN others |->
                        SentBy(others[k], RecvFrameTransmits(nics[others[k]], frame))]
           fs     == FlattenSeq(sent)
           rest   == [wires EXCEPT ![s] = Tail(@)]
           l      == launched
           rc     == received
<1>1. /\ wires[s] # <<>> /\ nics' = ms /\ wires' = Carry(rest, fs)
      /\ received' = received /\ launched' = launched
  BY Zenon DEF Arrive
<1>2. /\ wires \in [Segments -> Wires] /\ AllSound(nics) /\ l \in History
  BY DEF NetworkInv, History
<1>3. /\ InLine(l, nics, rest, rc, <<>>, <<>>)
      /\ Aloft(rest) \subseteq Aloft(wires) /\ WireGrams[x] \subseteq Aloft(wires)
      /\ x \in FitFrames(l)
      /\ \A e \in WireGrams[x], d \in Aloft(rest) : MayFollow(l, d, e)
  BY <1>1, <1>2, TailKeepsLine
<1>4. others \in Seq(Nics) /\ \A j, k \in 1..Len(others) : j # k => others[j] # others[k]
  <2> DEFINE q == Connections[s]
  <2>1. q \in Seq(Nics) /\ IsInjective(q)
    BY InternetAssumption
  <2>2. \A j, k \in 1..Len(q) : j # k => q[j] # q[k]
    BY <2>1 DEF IsInjective
  <2> HIDE DEF S, q
  <2>3. others \in Seq(Nics)
    BY <2>1, SelectedEmbeds DEF q
  <2>4. PICK e : Embeds(e, others, q, Len(q), S)
    BY <2>1, SelectedEmbeds DEF q
  <2> HIDE DEF others
  <2>5. ASSUME NEW j \in 1..Len(others), NEW k \in 1..Len(others), j # k
        PROVE  others[j] # others[k]
    <3>1. /\ e[j] \in 1..Len(q) /\ e[k] \in 1..Len(q)
          /\ others[j] = q[e[j]] /\ others[k] = q[e[k]]
      BY <2>4 DEF Embeds
    <3>2. j < k \/ k < j
      BY <2>3, <2>5
    <3>3. e[j] < e[k] \/ e[k] < e[j]
      BY <2>4, <3>2 DEF Embeds
    <3>4. e[j] # e[k]
      BY <2>1, <3>1, <3>3
    <3> QED BY <2>2, <3>1, <3>4
  <2> QED BY <2>3, <2>5
<1>5. rest \in [Segments -> Wires]
  <2>1. wires[s] \in Seq(Nics \X Frames)
    BY <1>2 DEF Wires
  <2>2. Tail(wires[s]) \in Seq(Nics \X Frames)
    BY <1>1, <2>1, HeadTailProperties
  <2> QED BY <1>2, <2>2 DEF Wires
<1> HIDE DEF rest, S, others, x
<1>6. InLine(l, ms, rest, rc, fs, <<>>)
  BY <1>2, <1>3, <1>4, OthersKeepLine
<1>7. fs \in Wires
  <2>1. fs \in Seq(FitFrames(l))
    <3> HIDE DEF fs, ms
    <3> QED BY <1>6 DEF InLine, Placed
  <2>2. FitFrames(l) \subseteq Nics \X Frames
    BY DEF FitFrames
  <2> HIDE DEF fs
  <2> QED BY <2>1, <2>2, SeqMonotonic, Zenon DEF Wires
<1> HIDE DEF ms, fs
<1>8. InLine(l, ms, Carry(rest, fs), rc, <<>>, <<>>)
  BY <1>2, <1>5, <1>6, <1>7, CarryKeepsLine
<1> QED BY <1>1, <1>8

-----------------------------------------------------------------------------
(* The invariant.                                                           *)

OrderInv ==
  /\ InLine(launched, nics, wires, received, <<>>, <<>>)
  /\ (\E k \in 1..Len(launched) : launched[k].routed) => Configured

\* At first there is nothing that could be out of order.
LEMMA InitInLine ==
  ASSUME Init
  PROVE  OrderInv
<1> DEFINE l == launched
<1>1. /\ \A load : Held(load, <<>>) = {} /\ Orderly(l, load, <<>>)
      /\ \A T : <<>> \in Seq(T)
  BY HeldByNone, OrderlyNone
<1>2. /\ received = <<>> /\ launched = <<>> /\ \A s \in Segments : wires[s] = <<>>
  BY DEF Init
<1>3. ASSUME NEW n \in Nics
      PROVE  /\ nics[n].datagrams_in = <<>> /\ Quiet(nics[n])
             /\ \A ip : Waiting(nics[n], ip) = <<>>
  <2>1. nics[n] = NewInterface(n, IpAddress[n])
    BY DEF Init
  <2>2. nics[n].datagrams_in = <<>> /\ nics[n].pending = NoEntries
    BY <2>1 DEF NewInterface
  <2>3. DOMAIN NoEntries = {}
    BY DEF NoEntries
  <2>4. \A ip : Waiting(nics[n], ip) = <<>>
    BY <2>2, <2>3 DEF Waiting
  <2> QED BY <2>2, <2>4 DEF Quiet
<1>4. Arrivals(nics) = {} /\ Aloft(wires) = {} /\ Waiters(nics) = {}
  <2>1. Arrivals(nics) = {}
    BY <1>1, <1>3 DEF Arrivals
  <2>2. Aloft(wires) = {}
    BY <1>1, <1>2 DEF Aloft
  <2>3. Waiters(nics) = {}
    BY <1>1, <1>3 DEF Waiters
  <2> QED BY <2>1, <2>2, <2>3
<1>5. Stages(l, nics, wires, received, <<>>, <<>>)
  BY <1>1, <1>2, <1>4 DEF Stages, Staged
<1>6. Rows(l, nics, wires, received, <<>>, <<>>)
  BY <1>1, <1>2, <1>3 DEF Rows
<1>7. Placed(l, nics, wires, received, <<>>)
  BY <1>1, <1>2, <1>3 DEF Placed
<1>8. ~ \E k \in 1..Len(launched) : launched[k].routed
  BY <1>2
<1> QED BY <1>5, <1>6, <1>7, <1>8 DEF OrderInv, InLine

\* Datagrams stay in line.
LEMMA OrderInvariant == Spec => []OrderInv
<1>1. Init => OrderInv
  BY InitInLine
<1>2. NetworkInv /\ OrderInv /\ [Next]_vars => OrderInv'
  <2> SUFFICES ASSUME NetworkInv, OrderInv, [Next]_vars PROVE OrderInv'
    OBVIOUS
  <2> DEFINE Routed(l) == \E k \in 1..Len(l) : l[k].routed
  <2>1. /\ InLine(launched, nics, wires, received, <<>>, <<>>)
        /\ Routed(launched) => Configured
    BY DEF OrderInv
  <2>2. AllSound(nics) /\ wires \in [Segments -> Wires] /\ launched \in History
    BY DEF NetworkInv, History
  <2>3. ASSUME InLine(launched', nics', wires', received', <<>>, <<>>),
               routers' = routers, launched' = launched
        PROVE  OrderInv'
    BY <2>1, <2>3 DEF OrderInv, Configured
  <2>4. ASSUME NEW r \in Routers, Configure(r)
        PROVE  OrderInv'
    <3> DEFINE k == Len(routers[r].routing_table) + 1
    <3>1. k \in DOMAIN RoutePlan[r] /\ UNCHANGED << nics, wires, launched, received >>
      BY <2>4 DEF Configure
    <3>2. ~Configured
      <4> SUFFICES ASSUME routers[r].routing_table = RoutePlan[r] PROVE FALSE
        BY DEF Configured
      <4>1. RoutePlan[r] \in Seq(RoutesOf(r))
        BY RoutesAssumption
      <4>2. k \in 1..Len(RoutePlan[r]) /\ Len(RoutePlan[r]) \in Nat
        BY <3>1, <4>1
      <4> QED BY <4>2
    <3> QED BY <2>1, <3>1, <3>2 DEF OrderInv
  <2>5. ASSUME NEW r \in Routers, RouteAll(r)
        PROVE  OrderInv'
    <3> DEFINE rt     == routers[r]
               result == Route(rt, nics)
    <3>1. /\ nics' = result.nics /\ wires' = Carry(wires, result.frames)
          /\ routers' = routers /\ received' = received /\ launched' = launched
      BY <2>5 DEF RouteAll
    <3>2. rt \in RoutersOf(r)
      BY DEF NetworkInv
    <3>3. Routed(launched) => rt.routing_table = RoutePlan[r]
      BY <2>1 DEF Configured
    <3> HIDE DEF rt
    <3>4. result \in Results
      BY <2>2, <3>2, RouteIsSound
    <3>5. InLine(launched, result.nics, wires, received, result.frames, <<>>)
      BY <2>1, <2>2, <3>2, <3>3, RouteKeepsLine
    <3> HIDE DEF result
    <3>6. result.frames \in Wires
      BY <3>4 DEF Results
    <3>7. InLine(launched, result.nics, Carry(wires, result.frames), received, <<>>, <<>>)
      BY <2>2, <3>5, <3>6, CarryKeepsLine
    <3> QED BY <2>3, <3>1, <3>7
  <2>6. ASSUME NEW h \in Senders, NEW dst \in Destinations, NEW ttl \in Lifetimes,
               Launch(h, dst, ttl)
        PROVE  OrderInv'
    <3> DEFINE entry == [src |-> h, dst |-> dst, ttl |-> ttl, routed |-> Configured]
    <3>1. launched' = Append(launched, entry) /\ routers' = routers
      BY <2>6 DEF Launch
    <3>2. InLine(launched', nics', wires', received', <<>>, <<>>)
      BY <2>1, <2>6, LaunchKeepsLine
    <3>3. Routed(launched') => Configured
      <4> SUFFICES ASSUME NEW k \in 1..Len(launched'), launched'[k].routed PROVE Configured
        OBVIOUS
      <4>1. CASE k \in 1..Len(launched)
        <5>1. launched'[k] = launched[k]
          BY <2>2, <3>1, <4>1 DEF History
        <5> QED BY <2>1, <4>1, <5>1
      <4>2. CASE k \notin 1..Len(launched)
        <5> DEFINE q == launched
        <5>1. q \in Seq(Launches) /\ launched' = Append(q, entry)
          BY <2>2, <3>1 DEF History, Launches
        <5> HIDE DEF entry, q
        <5>2. Len(launched') = Len(q) + 1 /\ Len(q) \in Nat /\ launched'[Len(q) + 1] = entry
          BY <5>1
        <5>3. k = Len(q) + 1
          BY <4>2, <5>2 DEF q
        <5>4. entry.routed
          BY <5>2, <5>3
        <5> QED BY <5>4 DEF entry
      <4> QED BY <4>1, <4>2
    <3>4. Configured' <=> Configured
      BY <3>1 DEF Configured
    <3> QED BY <3>2, <3>3, <3>4 DEF OrderInv
  <2>7. ASSUME NEW s \in Segments, Arrive(s)
        PROVE  OrderInv'
    <3>1. routers' = routers /\ launched' = launched
      BY <2>7 DEF Arrive
    <3> QED BY <2>1, <2>3, <2>7, <3>1, ArriveKeepsLine
  <2>8. ASSUME NEW s \in Segments, Lose(s)
        PROVE  OrderInv'
    <3> DEFINE rest == [wires EXCEPT ![s] = Tail(@)]
    <3>1. /\ wires[s] # <<>> /\ wires' = rest
          /\ UNCHANGED << nics, routers, launched, received >>
      BY <2>8 DEF Lose
    <3>2. InLine(launched, nics, rest, received, <<>>, <<>>)
      BY <2>1, <2>2, <3>1, TailKeepsLine
    <3> HIDE DEF rest
    <3> QED BY <2>3, <3>1, <3>2
  <2>9. ASSUME NEW h \in Hosts, Take(h)
        PROVE  OrderInv'
    <3>1. routers' = routers /\ launched' = launched
      BY <2>9 DEF Take
    <3> QED BY <2>1, <2>3, <2>9, <3>1, TakeKeepsLine
  <2>10. ASSUME NEW n \in Nics, Tick(n)
         PROVE  OrderInv'
    <3>1. routers' = routers /\ launched' = launched
      BY <2>10 DEF Tick
    <3> QED BY <2>1, <2>3, <2>10, <3>1, TickKeepsLine
  <2>11. CASE UNCHANGED vars
    BY <2>1, <2>3, <2>11 DEF vars
  <2> QED BY <2>4, <2>5, <2>6, <2>7, <2>8, <2>9, <2>10, <2>11 DEF Next
<1> QED BY <1>1, <1>2, NetworkInvariant, PTL DEF Spec

\* Once all routes are there, what one host sends to another is received in the
\* order in which it was sent, whatever the routes: nothing overtakes on the way,
\* waiting for an ARP reply, in flight or queued, and nothing goes on from a host
\* (NetworkInterface, Router::route).
THEOREM InOrderAlways == Spec => []ReceivedInOrder
<1>1. NetworkInv /\ OnceInv /\ OrderInv => ReceivedInOrder
  <2> SUFFICES ASSUME NetworkInv, OnceInv, OrderInv,
                      NEW i \in DOMAIN received, NEW j \in DOMAIN received, i < j,
                      received[i].host = received[j].host,
                      launched[received[i].datagram.id].src = launched[received[j].datagram.id].src,
                      launched[received[i].datagram.id].routed,
                      launched[received[j].datagram.id].routed
               PROVE  received[i].datagram.id < received[j].datagram.id
    BY Zenon DEF ReceivedInOrder
  <2> DEFINE x == received[i]
             y == received[j]
             e == x.datagram
             d == y.datagram
             l == launched
  <2>1. /\ received \in Seq(FitReceipts(l)) /\ Orderly(l, ReceiptGrams, received)
        /\ Apart(ReceiptIds, received) /\ l \in History
    BY DEF OrderInv, InLine, Placed, Rows, OnceInv, Once, NetworkInv, History
  <2>2. i \in 1..Len(received) /\ j \in 1..Len(received)
    BY <2>1
  <2>3. x \in FitReceipts(l) /\ y \in FitReceipts(l)
    BY <2>1, <2>2, ElementOfSeq
  <2>4. x.host = y.host /\ l[e.id].src = l[d.id].src /\ l[e.id].routed /\ l[d.id].routed
    OBVIOUS
  <2> HIDE DEF x, y
  <2>5. /\ x \in Receipts /\ y \in Receipts /\ x.host \in Hosts
        /\ e \in FitIn(l, x.host) /\ d \in FitIn(l, x.host)
        /\ e.dst = IpAddress[x.host] /\ d.dst = IpAddress[x.host]
    BY <2>3, <2>4 DEF FitReceipts, Receipts
  <2>6. ReceiptGrams[x] = {e} /\ ReceiptGrams[y] = {d}
        /\ ReceiptIds[x] = {e.id} /\ ReceiptIds[y] = {d.id}
    BY <2>5 DEF ReceiptGrams, ReceiptIds
  <2> DEFINE ip == IpAddress[x.host]
  <2>7. PICK t \in Nics, u \in Nics : Fits(l, e, t, ip) /\ Fits(l, d, u, ip)
    BY <2>5 DEF FitIn
  <2>8. e \in Datagrams /\ d \in Datagrams /\ e.id \in Nat /\ d.id \in Nat
    BY <2>5 DEF FitIn, Datagrams
  <2>9. ip \in HostAddresses
    BY <2>5 DEF HostAddresses
  <2>10. e.dst = ip /\ d.dst = ip
    BY <2>5
  <2> HIDE DEF e, d, ip, l
  <2>11. Alike(l, d, e)
    BY <2>4, <2>7, <2>10 DEF Alike, Fits
  <2>12. e.id # d.id
    <3>1. i # j
      BY <2>1, <2>2
    <3>2. ReceiptIds[x] \cap ReceiptIds[y] = {}
      BY <2>1, <2>2, <3>1 DEF Apart, x, y
    <3> QED BY <2>6, <3>2
  <2>13. ASSUME d.id < e.id
         PROVE  FALSE
    <3>1. MayFollow(l, d, e)
      BY <2>1, <2>2, <2>6 DEF Orderly, x, y
    <3>2. Hops(l, d) > Hops(l, e)
      BY <2>11, <2>13, <3>1 DEF MayFollow
    <3>3. Hops(l, d) <= Hops(l, e)
      BY <2>1, <2>7, <2>8, <2>9, <2>11, HostIsLast
    <3>4. Hops(l, d) \in Nat /\ Hops(l, e) \in Nat
      BY <2>1, <2>7, <2>8, FitsHops
    <3> QED BY <3>2, <3>3, <3>4
  <2>14. e.id < d.id
    BY <2>8, <2>12, <2>13
  <2> QED BY <2>14 DEF e, d, x, y
<1> QED BY <1>1, NetworkInvariant, OnceInvariant, OrderInvariant, PTL

-----------------------------------------------------------------------------
(* IV. The scan of a routing table finds the longest prefix that agrees     *)
(* with the address, for addresses of any width and tables of any length.   *)

\* Division with remainder, and its only solution.
LEMMA Quotient ==
  ASSUME NEW x \in Nat, NEW m \in Nat, m > 0
  PROVE  /\ x \div m \in Nat /\ x % m \in 0..(m - 1)
         /\ x = m * (x \div m) + (x % m)
OBVIOUS

\* A number with that quotient and rest.
LEMMA QuotientIsUnique ==
  ASSUME NEW m \in Nat, m > 0, NEW k \in Nat, NEW r \in 0..(m - 1),
         NEW x \in Nat, x = m * k + r
  PROVE  x \div m = k
<1> DEFINE q == x \div m
           s == x % m
<1>1. q \in Nat /\ s \in 0..(m - 1) /\ x = m * q + s
  BY Quotient
<1> HIDE DEF q, s
<1>2. ASSUME NEW a \in Nat, NEW b \in Nat, a < b,
             NEW u \in 0..(m - 1), NEW v \in 0..(m - 1)
      PROVE  m * a + u # m * b + v
  <2>1. m * (a + 1) <= m * b
    BY <1>2
  <2>2. m * (a + 1) = m * a + m
    OBVIOUS
  <2>3. m * a \in Nat /\ m * b \in Nat
    OBVIOUS
  <2> QED BY <2>1, <2>2, <2>3
<1>3. ~(q < k) /\ ~(k < q)
  BY <1>1, <1>2
<1> QED BY <1>1, <1>3 DEF q

\* One bit less.
LEMMA ShiftOnce ==
  ASSUME NEW x \in Nat, NEW p \in Nat, p > 0
  PROVE  x \div p = 2 * (x \div (2 * p)) + ((x \div p) % 2)
<1> DEFINE q == x \div p
           r == x % p
           h == q \div 2
           b == q % 2
<1>1. q \in Nat /\ r \in 0..(p - 1) /\ x = p * q + r
  BY Quotient
<1>2. h \in Nat /\ b \in 0..1 /\ q = 2 * h + b
  <2> HIDE DEF q
  <2> QED BY <1>1
<1> HIDE DEF q, r, h, b
<1>3. x = (2 * p) * h + (p * b + r)
  BY <1>1, <1>2
<1>4. p * b + r \in 0..(2 * p - 1)
  <2>1. b = 0 \/ b = 1
    BY <1>2
  <2> QED BY <1>1, <2>1
<1>5. x \div (2 * p) = h
  <2>1. 2 * p \in Nat /\ 2 * p > 0
    OBVIOUS
  <2> QED BY <1>2, <1>3, <1>4, <2>1, QuotientIsUnique
<1> QED BY <1>2, <1>5 DEF q, b

\* A prefix is the prefix without its last bit, and that bit.
LEMMA MaskedNext ==
  ASSUME NEW a \in Addresses, NEW len \in 0..WIDTH
  PROVE  /\ Masked(a, len) \in Nat
         /\ Masked(a, len) = a \div Power2(WIDTH - len)
         /\ len > 0 => /\ Masked(a, len) = 2 * Masked(a, len - 1) + Bit(a, len)
                       /\ Bit(a, len) \in 0..1
<1>1. WIDTH \in Nat /\ WIDTH > 0
  BY WidthAssumption
<1>2. Power2(WIDTH) \in Nat /\ Power2(WIDTH) > 0
  BY <1>1, PowerNext
<1>3. a \in Nat /\ a < Power2(WIDTH)
  BY <1>2 DEF Addresses
<1>4. a \div Power2(WIDTH) = 0
  <2> DEFINE p == Power2(WIDTH)
  <2>1. a = p * 0 + a /\ a \in 0..(p - 1) /\ 0 \in Nat /\ p \in Nat /\ p > 0
    BY <1>2, <1>3
  <2> HIDE DEF p
  <2>2. a \div p = 0
    BY <1>3, <2>1, QuotientIsUnique
  <2> QED BY <2>2 DEF p
<1>5. ASSUME NEW k \in 0..WIDTH
      PROVE  /\ Masked(a, k) = a \div Power2(WIDTH - k)
             /\ WIDTH - k \in Nat
             /\ Power2(WIDTH - k) \in Nat /\ Power2(WIDTH - k) > 0
  <2>1. WIDTH - k \in Nat /\ (k = 0 => WIDTH - k = WIDTH)
    BY <1>1
  <2>2. Power2(WIDTH - k) \in Nat /\ Power2(WIDTH - k) > 0
    BY <2>1, PowerNext
  <2> QED BY <1>4, <2>1, <2>2 DEF Masked
<1>6. Masked(a, len) \in Nat
  <2> DEFINE p == Power2(WIDTH - len)
  <2>1. Masked(a, len) = a \div p /\ p \in Nat /\ p > 0
    BY <1>5
  <2> HIDE DEF p
  <2> QED BY <1>3, <2>1, Quotient
<1>7. ASSUME len > 0
      PROVE  /\ Masked(a, len) = 2 * Masked(a, len - 1) + Bit(a, len)
             /\ Bit(a, len) \in 0..1
  <2> DEFINE p == Power2(WIDTH - len)
  <2>1. len - 1 \in 0..WIDTH /\ WIDTH - (len - 1) = (WIDTH - len) + 1
    BY <1>1, <1>7
  <2>2. p \in Nat /\ p > 0 /\ Masked(a, len) = a \div p
    BY <1>5
  <2>3. Power2(WIDTH - (len - 1)) = 2 * p
    BY <1>5, <2>1, PowerNext
  <2>4. Masked(a, len - 1) = a \div (2 * p)
    BY <1>5, <2>1, <2>3
  <2>5. Bit(a, len) = (a \div p) % 2
    BY DEF Bit
  <2> HIDE DEF p
  <2>6. a \div p = 2 * (a \div (2 * p)) + ((a \div p) % 2)
    BY <1>3, <2>2, ShiftOnce
  <2>7. (a \div p) % 2 \in 0..1
    <3>1. a \div p \in Nat
      BY <1>6, <2>2
    <3> QED BY <3>1
  <2> QED BY <2>2, <2>4, <2>5, <2>6, <2>7
<1> QED BY <1>5, <1>6, <1>7

\* A route covers an address exactly if their bits agree.
LEMMA CoversIsAgrees ==
  ASSUME NEW route \in Routes, NEW dst \in Addresses
  PROVE  Covers(route, dst) <=> Agrees(route, dst)
<1> DEFINE a == route.route_prefix
           SameBits(len) == \A i \in 1..len : Bit(dst, i) = Bit(a, i)
           Good == {len \in 0..WIDTH : Masked(dst, len) = Masked(a, len) <=> SameBits(len)}
<1>1. a \in Addresses /\ route.prefix_length \in 0..WIDTH /\ WIDTH \in Nat
  BY WidthAssumption DEF Routes
<1>2. 0 \in Good
  BY <1>1 DEF Masked
<1>3. ASSUME NEW len \in 1..WIDTH, len - 1 \in Good
      PROVE  len \in Good
  <2>1. len \in 0..WIDTH /\ len - 1 \in 0..WIDTH /\ len > 0
    BY <1>1
  <2>2. /\ Masked(a, len) = 2 * Masked(a, len - 1) + Bit(a, len)
        /\ Bit(a, len) \in 0..1 /\ Masked(a, len - 1) \in Nat
    BY <1>1, <2>1, MaskedNext
  <2>3. /\ Masked(dst, len) = 2 * Masked(dst, len - 1) + Bit(dst, len)
        /\ Bit(dst, len) \in 0..1 /\ Masked(dst, len - 1) \in Nat
    BY <2>1, MaskedNext
  <2> HIDE DEF a
  <2>4. Masked(dst, len) = Masked(a, len)
          <=> Masked(dst, len - 1) = Masked(a, len - 1) /\ Bit(dst, len) = Bit(a, len)
    <3> DEFINE m == Masked(dst, len)
               n == Masked(a, len)
               x == Masked(dst, len - 1)
               y == Masked(a, len - 1)
               c == Bit(dst, len)
               d == Bit(a, len)
    <3>1. /\ m = 2 * x + c /\ x \in Nat /\ c \in 0..1
          /\ n = 2 * y + d /\ y \in Nat /\ d \in 0..1
      BY <2>2, <2>3
    <3> HIDE DEF m, n, x, y, c, d
    <3>2. m = n <=> x = y /\ c = d
      BY ONLY <3>1
    <3> QED BY <3>2 DEF m, n, x, y, c, d
  <2>5. SameBits(len) <=> SameBits(len - 1) /\ Bit(dst, len) = Bit(a, len)
    <3>1. \A i \in 1..len : i \in 1..(len - 1) \/ i = len
      OBVIOUS
    <3>2. \A i \in 1..(len - 1) : i \in 1..len
      OBVIOUS
    <3>3. len \in 1..len
      OBVIOUS
    <3> QED BY <3>1, <3>2, <3>3, Zenon
  <2> QED BY <1>3, <2>1, <2>4, <2>5
<1> HIDE DEF Good
<1>4. \A len \in 0..WIDTH : len \in Good
  BY <1>1, <1>2, <1>3, InductionUpTo
<1>5. route.prefix_length \in Good
  BY <1>1, <1>4
<1> QED BY <1>5 DEF Good, Covers, Agrees

-----------------------------------------------------------------------------
(* The scan of the table.                                                   *)

\* f is the best route so far, after each route of the table.
Scans(f, tbl, dst) ==
  /\ f[0] = 0
  /\ \A i \in 1..Len(tbl) :
       f[i] = IF Covers(tbl[i], dst) /\ IsBetter(tbl, i, f[i - 1]) THEN i ELSE f[i - 1]

\* The recursive function that scans the table exists.
LEMMA MatchScans ==
  ASSUME NEW T, NEW tbl \in Seq(T), NEW dst
  PROVE  \E f : Scans(f, tbl, dst) /\ BestMatch(tbl, dst) = f[Len(tbl)]
<1> DEFINE n    == Len(tbl)
           V    == 0..n
           P    == (1..n) \X V
           step == [x \in P |-> IF Covers(tbl[x[1]], dst) /\ IsBetter(tbl, x[1], x[2])
                                THEN x[1] ELSE x[2]]
           g    == CHOOSE g : g = [i \in 0..Len(tbl) |->
                      IF i = 0 THEN 0
                      ELSE IF Covers(tbl[i], dst) /\ IsBetter(tbl, i, g[i - 1]) THEN i
                      ELSE g[i - 1]]
<1>1. n \in Nat /\ 0 \in V
  OBVIOUS
<1>2. ASSUME NEW i \in 1..n, NEW v \in V
      PROVE  /\ step[<<i, v>>] = IF Covers(tbl[i], dst) /\ IsBetter(tbl, i, v) THEN i ELSE v
             /\ step[<<i, v>>] \in V
  <2>1. <<i, v>> \in P /\ <<i, v>>[1] = i /\ <<i, v>>[2] = v /\ i \in V
    OBVIOUS
  <2>2. step[<<i, v>>] = IF Covers(tbl[i], dst) /\ IsBetter(tbl, i, v) THEN i ELSE v
    BY <2>1
  <2> HIDE DEF step, V
  <2> QED BY <2>1, <2>2
<1>3. PICK f \in [0..n -> V] : Iterates(f, n, 0, step)
  <2>1. Closed(n, V, step)
    <3> HIDE DEF n, V, step
    <3>1. \A i \in 1..n : \A v \in V : step[<<i, v>>] \in V
      BY <1>2, Zenon
    <3> QED BY <3>1, Zenon DEF Closed
  <2> HIDE DEF n, V, P, step
  <2> QED BY <1>1, <2>1, Recursion, Zenon
<1>4. Scans(f, tbl, dst)
  <2>1. ASSUME NEW i \in 1..n
        PROVE  f[i] = IF Covers(tbl[i], dst) /\ IsBetter(tbl, i, f[i - 1]) THEN i ELSE f[i - 1]
    <3>1. i - 1 \in 0..n
      OBVIOUS
    <3>2. f[i - 1] \in V
      BY <3>1
    <3> HIDE DEF step, V
    <3> QED BY <1>2, <1>3, <3>2 DEF Iterates
  <2> QED BY <1>3, <2>1 DEF Scans, Iterates
<1>5. f = [i \in 0..Len(tbl) |->
             IF i = 0 THEN 0
             ELSE IF Covers(tbl[i], dst) /\ IsBetter(tbl, i, f[i - 1]) THEN i
             ELSE f[i - 1]]
  <2>1. \A i \in 0..n : f[i] = IF i = 0 THEN 0
                               ELSE IF Covers(tbl[i], dst) /\ IsBetter(tbl, i, f[i - 1])
                                 THEN i
                               ELSE f[i - 1]
    <3> SUFFICES ASSUME NEW i \in 0..n
                 PROVE  f[i] = IF i = 0 THEN 0
                               ELSE IF Covers(tbl[i], dst) /\ IsBetter(tbl, i, f[i - 1])
                                 THEN i
                               ELSE f[i - 1]
      OBVIOUS
    <3>1. i = 0 \/ i \in 1..n
      OBVIOUS
    <3> HIDE DEF n, V
    <3> QED BY <1>4, <3>1, ZenonT(20) DEF Scans, n
  <2> HIDE DEF V
  <2> QED BY <2>1
<1>6. g = [i \in 0..Len(tbl) |->
             IF i = 0 THEN 0
             ELSE IF Covers(tbl[i], dst) /\ IsBetter(tbl, i, g[i - 1]) THEN i
             ELSE g[i - 1]]
  BY <1>5, Zenon
<1>7. BestMatch(tbl, dst) = g[Len(tbl)]
  BY Zenon DEF BestMatch
<1>8. Scans(g, tbl, dst)
  <2> HIDE DEF g
  <2>1. g[0] = 0
    <3>1. 0 \in 0..Len(tbl)
      BY <1>1
    <3> QED BY <1>6, <3>1
  <2>2. ASSUME NEW i \in 1..n
        PROVE  g[i] = IF Covers(tbl[i], dst) /\ IsBetter(tbl, i, g[i - 1]) THEN i ELSE g[i - 1]
    <3>1. i \in 0..Len(tbl) /\ i # 0
      BY <1>1
    <3> QED BY <1>6, <3>1
  <2> QED BY <2>1, <2>2 DEF Scans
<1> HIDE DEF g
<1> QED BY <1>7, <1>8

\* best is the right choice among the first n routes.
IsBest(best, tbl, n, dst) ==
  LET agreeing == {k \in 1..n : Agrees(tbl[k], dst)}
  IN  IF agreeing = {} THEN best = 0
      ELSE /\ best \in agreeing
           /\ \A k \in agreeing :
                \/ tbl[k].prefix_length < tbl[best].prefix_length
                \/ tbl[k].prefix_length = tbl[best].prefix_length /\ best <= k

\* The loop of Router::route keeps the best route so far.
LEMMA MatchIsBest ==
  ASSUME NEW tbl \in Seq(Routes), NEW dst \in Addresses
  PROVE  IsBest(BestMatch(tbl, dst), tbl, Len(tbl), dst)
<1>1. PICK f : Scans(f, tbl, dst) /\ BestMatch(tbl, dst) = f[Len(tbl)]
  BY MatchScans
<1> DEFINE n    == Len(tbl)
           Good == {i \in 0..n : IsBest(f[i], tbl, i, dst)}
<1>2. n \in Nat
  OBVIOUS
<1>3. 0 \in Good
  BY <1>1, <1>2 DEF Scans, IsBest
<1>4. ASSUME NEW i \in 1..n, i - 1 \in Good
      PROVE  i \in Good
  <2> DEFINE old == f[i - 1]
             A(j) == {k \in 1..j : Agrees(tbl[k], dst)}
  <2>1. IsBest(old, tbl, i - 1, dst)
    BY <1>4
  <2>2. \A k \in 1..n : /\ tbl[k] \in Routes
                        /\ tbl[k].prefix_length \in Nat
                        /\ Covers(tbl[k], dst) <=> Agrees(tbl[k], dst)
    <3> SUFFICES ASSUME NEW k \in 1..n
                 PROVE  /\ tbl[k] \in Routes
                        /\ tbl[k].prefix_length \in Nat
                        /\ Covers(tbl[k], dst) <=> Agrees(tbl[k], dst)
      OBVIOUS
    <3>1. tbl[k] \in Routes
      OBVIOUS
    <3>2. tbl[k].prefix_length \in Nat
      BY <3>1, WidthAssumption DEF Routes
    <3> QED BY <3>1, <3>2, CoversIsAgrees
  <2>3. f[i] = IF Agrees(tbl[i], dst) /\ IsBetter(tbl, i, old) THEN i ELSE old
    BY <1>1, <2>2 DEF Scans
  <2>4. A(i) = IF Agrees(tbl[i], dst) THEN A(i - 1) \union {i} ELSE A(i - 1)
    OBVIOUS
  <2>5. /\ A(i - 1) = {} => old = 0
        /\ A(i - 1) # {} =>
             /\ old \in A(i - 1)
             /\ \A k \in A(i - 1) :
                  \/ tbl[k].prefix_length < tbl[old].prefix_length
                  \/ tbl[k].prefix_length = tbl[old].prefix_length /\ old <= k
    BY <2>1 DEF IsBest
  <2>6. \A k \in A(i - 1) : k \in 1..n /\ k \in Nat /\ k < i /\ k # 0
    BY <1>2
  <2> HIDE DEF A, old
  <2>7. /\ A(i) = {} => f[i] = 0
        /\ A(i) # {} =>
             /\ f[i] \in A(i)
             /\ \A k \in A(i) :
                  \/ tbl[k].prefix_length < tbl[f[i]].prefix_length
                  \/ tbl[k].prefix_length = tbl[f[i]].prefix_length /\ f[i] <= k
    <3>1. CASE ~Agrees(tbl[i], dst)
      BY <2>3, <2>4, <2>5, <3>1
    <3>2. CASE Agrees(tbl[i], dst) /\ A(i - 1) = {}
      <4>1. f[i] = i /\ A(i) = {i}
        BY <2>3, <2>4, <2>5, <3>2 DEF IsBetter
      <4> QED BY <2>2, <4>1
    <3>3. CASE Agrees(tbl[i], dst) /\ A(i - 1) # {}
      <4>1. /\ A(i) = A(i - 1) \union {i} /\ old \in A(i - 1) /\ old # 0
            /\ f[i] = IF tbl[i].prefix_length > tbl[old].prefix_length THEN i ELSE old
        BY <2>3, <2>4, <2>5, <2>6, <3>3 DEF IsBetter
      <4>2. ASSUME NEW k \in A(i - 1) PROVE tbl[k].prefix_length \in Nat /\ k < i /\ k \in Nat
        BY <2>2, <2>6
      <4>3. tbl[i].prefix_length \in Nat /\ tbl[old].prefix_length \in Nat /\ i \in Nat
        BY <2>2, <4>1, <4>2
      <4>4. CASE tbl[i].prefix_length > tbl[old].prefix_length
        BY <2>5, <3>3, <4>1, <4>2, <4>3, <4>4
      <4>5. CASE ~(tbl[i].prefix_length > tbl[old].prefix_length)
        BY <2>5, <3>3, <4>1, <4>2, <4>3, <4>5
      <4> QED BY <4>4, <4>5
    <3> QED BY <3>1, <3>2, <3>3
  <2>8. IsBest(f[i], tbl, i, dst)
    BY <2>7 DEF IsBest, A
  <2> QED BY <2>8
<1> HIDE DEF Good
<1>5. \A i \in 0..n : i \in Good
  BY <1>2, <1>3, <1>4, InductionUpTo
<1>6. n \in 0..n
  BY <1>2
<1> QED BY <1>1, <1>5, <1>6 DEF Good

-----------------------------------------------------------------------------
(* The theorems.                                                            *)

\* The table is a list of routes, in the order in which they were added.
TableOK == router.routing_table \in Seq(Routes)

\* The table is a sequence of routes.
LEMMA TableInvariant == TableSpec => []TableOK
<1>1. TableInit => TableOK
  BY DEF TableInit, NewRouter, TableOK
<1>2. TableOK /\ [TableNext]_router => TableOK'
  <2>1. ASSUME TableOK, NEW route \in Routes, router' = AddRoute(router, route)
        PROVE  TableOK'
    <3>1. router'.routing_table = Append(router.routing_table, route)
             \/ router'.routing_table = router.routing_table
      BY <2>1 DEF AddRoute
    <3> QED BY <2>1, <3>1 DEF TableOK
  <2> QED BY <2>1 DEF TableNext, TableOK
<1> QED BY <1>1, <1>2, PTL DEF TableSpec

\* The route that is taken is the longest prefix that agrees with the address
\* in all its bits, of equals the oldest, and none if none agrees
\* (Router::route).
THEOREM LongestPrefixTaken == TableSpec => []LongestPrefixWins
<1>1. TableOK => LongestPrefixWins
  <2> SUFFICES ASSUME TableOK, NEW dst \in Addresses
               PROVE  LET best     == BestMatch(table, dst)
                          agreeing == {k \in DOMAIN table : Agrees(table[k], dst)}
                      IN  IF agreeing = {} THEN best = 0
                          ELSE /\ best \in agreeing
                               /\ \A k \in agreeing :
                                    \/ table[k].prefix_length < table[best].prefix_length
                                    \/ /\ table[k].prefix_length = table[best].prefix_length
                                       /\ best <= k
    BY DEF LongestPrefixWins
  <2>1. table \in Seq(Routes) /\ DOMAIN table = 1..Len(table)
    BY DEF TableOK, table
  <2>2. IsBest(BestMatch(table, dst), table, Len(table), dst)
    BY <2>1, MatchIsBest
  <2> QED BY <2>1, <2>2 DEF IsBest
<1> QED BY <1>1, TableInvariant, PTL

=============================================================================
