-------------------------- MODULE InterfaceProofs ---------------------------
(* Proofs about InterfaceSystem: the maps of an interface agree and nothing *)
(* waits long, for all addresses, timeouts and ticks, whatever frames come. *)
EXTENDS InterfaceSystem, BasicLemmas, SequenceTheorems, FiniteSetTheorems

-----------------------------------------------------------------------------
(* The invariant, as a predicate on one interface that was given count      *)
(* datagrams of the given ages.                                             *)

Interfaces(count) ==
  [hw_address : {OurMac}, ip_address : {OurIp}, datagrams_in : Seq({0}),
   arp_cache : Maps(Hops, [mac : Macs, ttl_ms : 1..ARP_TTL_MS]),
   arp_timer : Maps(Hops, Nat),
   pending : Maps(Hops, Seq(1..count))]

\* What waits for an address is no older than the last request for it.
AgesAgree(n, ages) ==
  \A ip \in DOMAIN n.pending : \A i \in DOMAIN n.pending[ip] :
    ages[n.pending[ip][i]] <= n.arp_timer[ip]

Consistent(n, count, ages) ==
  /\ n \in Interfaces(count)
  /\ BooksAgree(n)
  /\ AgesAgree(n, ages)

InterfaceInv ==
  /\ asked \in Seq(Hops) /\ Len(asked) <= MaxDatagrams
  /\ waited \in Seq(Nat) /\ Len(waited) = Len(asked)
  /\ Consistent(ni, Len(asked), waited)

\* What the histories remember is what the interface knows: whom its datagrams
\* are for, who told it an address and when, and when it asked for one.
QueuesAgree(n, hops) ==
  \A ip \in DOMAIN n.pending : \A i \in DOMAIN n.pending[ip] :
    hops[n.pending[ip][i]] = ip

CacheAgrees(n, told) ==
  \A ip \in DOMAIN n.arp_cache :
    /\ ip \in DOMAIN told
    /\ told[ip] = [mac |-> n.arp_cache[ip].mac,
                   age |-> ARP_TTL_MS - n.arp_cache[ip].ttl_ms]

TimersAgree(n, since) ==
  since = [ip \in Hops |-> IF ip \in DOMAIN n.arp_timer THEN n.arp_timer[ip]
                           ELSE ARP_RETRY_MS]

Remembers(n, hops, told, since) ==
  /\ IsFiniteSet(DOMAIN n.arp_timer)
  /\ QueuesAgree(n, hops)
  /\ CacheAgrees(n, told)
  /\ TimersAgree(n, since)

HistoryInv ==
  /\ sent \in Seq(Nat)
  /\ Remembers(ni, asked, heard, quiet)

\* A longer list of datagrams is no reason to disagree.
LEMMA MoreDatagrams ==
  ASSUME NEW S, NEW count \in Nat, NEW f \in Maps(S, Seq(1..count))
  PROVE  f \in Maps(S, Seq(1..(count + 1)))
<1>1. PICK D \in SUBSET S : f \in [D -> Seq(1..count)]
  BY DEF Maps
<1>2. 1..count \subseteq 1..(count + 1)
  OBVIOUS
<1>3. ASSUME NEW q \in Seq(1..count) PROVE q \in Seq(1..(count + 1))
  BY <1>2, SeqMonotonic, Zenon
<1>4. f \in [D -> Seq(1..(count + 1))]
  BY <1>1, <1>3
<1> QED BY <1>4, Zenon DEF Maps

-----------------------------------------------------------------------------
(* send_datagram()                                                          *)

\* A datagram that is sent goes out or into a queue for an address that is
\* being asked for (NetworkInterface::send_datagram).
LEMMA SendKeepsConsistent ==
  ASSUME NEW n, NEW count \in Nat, NEW ages \in Seq(Nat), Len(ages) = count,
         Consistent(n, count, ages), NEW hop \in Hops
  PROVE  Consistent(SendDatagram(n, count + 1, hop), count + 1, Append(ages, 0))
<1> DEFINE m   == SendDatagram(n, count + 1, hop)
           queue == Append(Waiting(n, hop), count + 1)
<1>1. /\ n \in Interfaces(count)
      /\ BooksAgree(n)
      /\ AgesAgree(n, ages)
  BY DEF Consistent
<1>2. /\ n.arp_timer \in Maps(Hops, Nat)
      /\ n.pending \in Maps(Hops, Seq(1..count))
      /\ n.pending \in Maps(Hops, Seq(1..(count + 1)))
  BY <1>1, MoreDatagrams DEF Interfaces
<1>3. \A i \in 1..count : Append(ages, 0)[i] = ages[i]
  OBVIOUS
<1>4. Append(ages, 0)[count + 1] = 0
  OBVIOUS
<1>5. \A ip \in DOMAIN n.pending : /\ n.pending[ip] \in Seq(1..count)
                                   /\ n.arp_timer[ip] \in Nat
  BY <1>1, <1>2, MapValue DEF BooksAgree
<1>6. \A ip \in DOMAIN n.pending : \A i \in DOMAIN n.pending[ip] :
        n.pending[ip][i] \in 1..count
  BY <1>5, ElementOfSeq
<1>10. Waiting(n, hop) \in Seq(1..count)
  <2>1. CASE hop \in DOMAIN n.pending
    BY <2>1, <1>5, Zenon DEF Waiting
  <2>2. CASE hop \notin DOMAIN n.pending
    BY <2>2, EmptySeq, Zenon DEF Waiting
  <2> QED BY <2>1, <2>2
<1>7. AgesAgree(n, Append(ages, 0))
  BY <1>1, <1>3, <1>6 DEF AgesAgree
<1>8. CASE hop \in DOMAIN n.arp_cache
  <2>1. m = n
    BY <1>8 DEF SendDatagram
  <2>2. n \in Interfaces(count + 1)
    BY <1>1, <1>2 DEF Interfaces
  <2> QED BY <2>1, <2>2, <1>1, <1>7 DEF Consistent
<1>9. CASE hop \notin DOMAIN n.arp_cache
  <2> DEFINE timer == IF MayAsk(n, hop) THEN Put(n.arp_timer, hop, 0) ELSE n.arp_timer
             books == Put(n.pending, hop, queue)
  <2>1. m = [n EXCEPT !.pending = books, !.arp_timer = timer]
    BY <1>9 DEF SendDatagram
  <2>2. queue \in Seq(1..(count + 1))
    <3>1. 1..count \subseteq 1..(count + 1)
      OBVIOUS
    <3>2. Waiting(n, hop) \in Seq(1..(count + 1))
      BY <1>10, <3>1, SeqMonotonic, Zenon
    <3> QED BY <3>2
  <2>3. books \in Maps(Hops, Seq(1..(count + 1)))
    <3> DEFINE T == Seq(1..(count + 1))
    <3>1. n.pending \in Maps(Hops, T) /\ queue \in T
      BY <1>2, <2>2
    <3>2. books \in Maps(Hops, T)
      <4> HIDE DEF T, queue
      <4> QED BY <3>1, PutInMap, Zenon
    <3> QED BY <3>2
  <2>9. /\ DOMAIN books = DOMAIN n.pending \union {hop}
        /\ books[hop] = queue
        /\ \A y \in DOMAIN n.pending : y # hop => books[y] = n.pending[y]
    BY DEF Put
  <2>4. /\ timer \in Maps(Hops, Nat)
        /\ DOMAIN timer = DOMAIN n.pending \union {hop}
        /\ \A y \in DOMAIN n.pending : timer[y] = n.arp_timer[y]
        /\ hop \notin DOMAIN n.pending => timer[hop] = 0
    <3>1. CASE hop \in DOMAIN n.arp_timer
      <4>1. timer = n.arp_timer
        BY <3>1, <1>1, <1>2, MapValue, ARPAssumption DEF MayAsk, BooksAgree
      <4> QED BY <4>1, <3>1, <1>1, <1>2 DEF BooksAgree
    <3>2. CASE hop \notin DOMAIN n.arp_timer
      <4>1. timer = Put(n.arp_timer, hop, 0)
        BY <3>2 DEF MayAsk
      <4>2. /\ timer \in Maps(Hops, Nat)
            /\ DOMAIN timer = DOMAIN n.arp_timer \union {hop}
            /\ timer[hop] = 0
            /\ \A y \in DOMAIN n.arp_timer : y # hop => timer[y] = n.arp_timer[y]
        <5> DEFINE put == Put(n.arp_timer, hop, 0)
        <5>1. 0 \in Nat /\ n.arp_timer \in Maps(Hops, Nat)
          BY <1>2
        <5>2. put \in Maps(Hops, Nat)
          BY <5>1, PutInMap, Zenon
        <5>3. /\ DOMAIN put = DOMAIN n.arp_timer \union {hop}
              /\ put[hop] = 0
              /\ \A y \in DOMAIN n.arp_timer : y # hop => put[y] = n.arp_timer[y]
          BY DEF Put
        <5>4. timer = put
          BY <4>1
        <5> HIDE DEF timer, put
        <5> QED BY <5>2, <5>3, <5>4
      <4> QED BY <4>2, <3>2, <1>1 DEF BooksAgree
    <3> QED BY <3>1, <3>2
  <2> HIDE DEF timer, books, m
  <2>5. m \in Interfaces(count + 1)
    BY <2>1, <2>3, <2>9, <2>4, <1>1 DEF Interfaces
  <2>6. /\ m.pending = books /\ m.arp_timer = timer
        /\ m.arp_cache = n.arp_cache
    BY <2>1, <1>1 DEF Interfaces
  <2>7. BooksAgree(m)
    <3>1. \A ip \in DOMAIN timer : timer[ip] < ARP_RETRY_MS
      BY <2>4, <1>1, ARPAssumption DEF BooksAgree
    <3> QED BY <3>1, <2>3, <2>9, <2>4, <2>6, <1>1, <1>9 DEF BooksAgree
  <2>8. AgesAgree(m, Append(ages, 0))
    <3> SUFFICES ASSUME NEW ip \in DOMAIN books, NEW i \in DOMAIN books[ip]
                 PROVE  Append(ages, 0)[books[ip][i]] <= timer[ip]
      BY <2>6 DEF AgesAgree
    <3>1. CASE ip # hop
      BY <3>1, <2>3, <2>9, <2>4, <1>7 DEF AgesAgree
    <3>2. CASE ip = hop
      <4>1. timer[hop] \in Nat
        BY <2>4, MapValue
      <4>3. CASE i = Len(Waiting(n, hop)) + 1
        BY <4>1, <4>3, <3>2, <2>3, <2>9, <1>4, <1>10
      <4>4. CASE i # Len(Waiting(n, hop)) + 1
        <5>1. /\ i \in DOMAIN Waiting(n, hop)
              /\ books[ip][i] = Waiting(n, hop)[i]
          BY <4>4, <3>2, <2>3, <2>9, <1>10
        <5>2. hop \in DOMAIN n.pending /\ Waiting(n, hop) = n.pending[hop]
          BY <5>1 DEF Waiting
        <5> QED BY <5>1, <5>2, <3>2, <2>4, <1>7 DEF AgesAgree
      <4> QED BY <4>3, <4>4
    <3> QED BY <3>1, <3>2
  <2> QED BY <2>5, <2>7, <2>8 DEF Consistent, m
<1> QED BY <1>8, <1>9

-----------------------------------------------------------------------------
(* recv_frame()                                                             *)

\* Learning an address empties its books (NetworkInterface::recv_frame).
LEMMA LearnKeepsConsistent ==
  ASSUME NEW n, NEW count \in Nat, NEW ages \in Seq(Nat),
         Consistent(n, count, ages), NEW ip \in Hops, NEW mac \in Macs
  PROVE  Consistent(Learn(n, ip, mac), count, ages)
<1> DEFINE m     == Learn(n, ip, mac)
           cache == Put(n.arp_cache, ip, [mac |-> mac, ttl_ms |-> ARP_TTL_MS])
           timer == Restrict(n.arp_timer, DOMAIN n.arp_timer \ {ip})
           books == Restrict(n.pending, DOMAIN n.pending \ {ip})
           T == Seq(1..count)
           E == [mac : Macs, ttl_ms : 1..ARP_TTL_MS]
<1>1. /\ n \in Interfaces(count)
      /\ BooksAgree(n)
      /\ AgesAgree(n, ages)
  BY DEF Consistent
<1>2. m = [n EXCEPT !.arp_cache = cache, !.arp_timer = timer, !.pending = books]
  BY DEF Learn
<1>3. cache \in Maps(Hops, E)
  <2>1. [mac |-> mac, ttl_ms |-> ARP_TTL_MS] \in E
    BY ARPAssumption
  <2>2. n.arp_cache \in Maps(Hops, E)
    BY <1>1 DEF Interfaces
  <2> HIDE DEF E
  <2> QED BY <2>1, <2>2, PutInMap, Zenon
<1>4. timer \in Maps(Hops, Nat)
  <2>1. n.arp_timer \in Maps(Hops, Nat)
    BY <1>1 DEF Interfaces
  <2> QED BY <2>1, DropFromMap, Zenon
<1>5. books \in Maps(Hops, T)
  <2>1. n.pending \in Maps(Hops, T)
    BY <1>1 DEF Interfaces
  <2> HIDE DEF T
  <2> QED BY <2>1, DropFromMap, Zenon
<1>6. /\ DOMAIN cache = DOMAIN n.arp_cache \union {ip}
      /\ DOMAIN timer = DOMAIN n.arp_timer \ {ip}
      /\ \A y \in DOMAIN timer : timer[y] = n.arp_timer[y]
      /\ DOMAIN books = DOMAIN n.pending \ {ip}
      /\ \A y \in DOMAIN books : books[y] = n.pending[y]
  BY DEF Put, Restrict
<1> HIDE DEF m, cache, timer, books
<1>7. m \in Interfaces(count)
  BY <1>1, <1>2, <1>3, <1>4, <1>5 DEF Interfaces
<1>8. m.pending = books /\ m.arp_timer = timer /\ m.arp_cache = cache
  BY <1>1, <1>2 DEF Interfaces
<1>9. BooksAgree(m)
  BY <1>1, <1>6, <1>8 DEF BooksAgree
<1>10. AgesAgree(m, ages)
  BY <1>1, <1>6, <1>8 DEF BooksAgree, AgesAgree
<1> QED BY <1>7, <1>9, <1>10 DEF Consistent, m

\* No frame makes the maps disagree (NetworkInterface::recv_frame).
LEMMA RecvKeepsConsistent ==
  ASSUME NEW n, NEW count \in Nat, NEW ages \in Seq(Nat),
         Consistent(n, count, ages), NEW frame \in Frames
  PROVE  Consistent(RecvFrame(n, frame), count, ages)
<1> DEFINE m == RecvFrame(n, frame)
<1>1. CASE ~AddressedTo(n, frame)
  BY <1>1 DEF RecvFrame
<1>2. CASE AddressedTo(n, frame) /\ frame.type = "IPv4"
  <2>1. frame.datagram \in {0}
    BY <1>2 DEF Frames
  <2>2. m = [n EXCEPT !.datagrams_in = Append(@, frame.datagram)]
    BY <1>2 DEF RecvFrame
  <2>3. n \in Interfaces(count)
    BY DEF Consistent
  <2>4. Append(n.datagrams_in, frame.datagram) \in Seq({0})
    BY <2>1, <2>3 DEF Interfaces
  <2>5. m \in Interfaces(count)
    BY <2>2, <2>3, <2>4 DEF Interfaces
  <2>6. m.pending = n.pending /\ m.arp_timer = n.arp_timer /\ m.arp_cache = n.arp_cache
    BY <2>2, <2>3 DEF Interfaces
  <2> QED BY <2>5, <2>6 DEF Consistent, BooksAgree, AgesAgree
<1>3. CASE AddressedTo(n, frame) /\ frame.type = "ARP"
  <2>1. frame.sender_ip \in Hops /\ frame.sender_mac \in Macs
    BY <1>3 DEF Frames, Hops
  <2>2. m = Learn(n, frame.sender_ip, frame.sender_mac)
    BY <1>3 DEF RecvFrame
  <2> QED BY <2>1, <2>2, LearnKeepsConsistent, Zenon
<1>4. CASE AddressedTo(n, frame) /\ frame.type \notin {"IPv4", "ARP"}
  BY <1>4 DEF RecvFrame
<1> QED BY <1>1, <1>2, <1>3, <1>4

-----------------------------------------------------------------------------
(* tick()                                                                   *)

\* A tick ages timers and datagrams alike and drops what would wait too long
\* (NetworkInterface::tick).
LEMMA TickKeepsConsistent ==
  ASSUME NEW n, NEW count \in Nat, NEW ages \in Seq(Nat), Len(ages) = count,
         Consistent(n, count, ages), NEW ms \in Nat,
         NEW older, older = [i \in DOMAIN ages |-> Capped(ages[i] + ms, ARP_RETRY_MS)]
  PROVE  Consistent(InterfaceTick(n, ms), count, older)
<1> DEFINE m     == InterfaceTick(n, ms)
           timer == [ip \in DOMAIN n.arp_timer |->
                       IF ip \in Retries(n, ms) THEN 0 ELSE n.arp_timer[ip] + ms]
           books == [ip \in DOMAIN n.pending |->
                       IF ip \in Retries(n, ms) THEN <<>> ELSE n.pending[ip]]
           E == [mac : Macs, ttl_ms : 1..ARP_TTL_MS]
<1>1. /\ n \in Interfaces(count)
      /\ BooksAgree(n)
      /\ AgesAgree(n, ages)
  BY DEF Consistent
<1>2. /\ n.arp_timer \in Maps(Hops, Nat)
      /\ n.pending \in Maps(Hops, Seq(1..count))
      /\ n.arp_cache \in Maps(Hops, E)
  BY <1>1 DEF Interfaces
<1>3. m = [n EXCEPT !.arp_cache = Aged(n.arp_cache, ms),
                    !.arp_timer = timer, !.pending = books]
  BY DEF InterfaceTick
<1>4. Aged(n.arp_cache, ms) \in Maps(Hops, E)
  <2> DEFINE D == {i \in DOMAIN n.arp_cache : n.arp_cache[i].ttl_ms > ms}
             F == [ip \in D |-> [n.arp_cache[ip] EXCEPT !.ttl_ms = @ - ms]]
  <2>1. \A ip \in D : [n.arp_cache[ip] EXCEPT !.ttl_ms = @ - ms] \in E
    <3> TAKE ip \in D
    <3>1. n.arp_cache[ip] \in E
      <4> HIDE DEF E
      <4> QED BY <1>2 DEF Maps
    <3>2. n.arp_cache[ip].ttl_ms \in 1..ARP_TTL_MS /\ n.arp_cache[ip].ttl_ms > ms
      BY <3>1
    <3>3. n.arp_cache[ip].ttl_ms - ms \in 1..ARP_TTL_MS
      BY <3>2, ARPAssumption
    <3> QED BY <3>1, <3>3
  <2>2. D \in SUBSET Hops
    BY <1>2, MapValue
  <2>3. F \in [D -> E]
    BY <2>1
  <2>4. F \in Maps(Hops, E)
    <3> HIDE DEF D, F, E
    <3> QED BY <2>2, <2>3, Zenon DEF Maps
  <2> QED BY <2>4 DEF Aged
<1>5. timer \in Maps(Hops, Nat)
  <2>1. \A ip \in DOMAIN n.arp_timer : n.arp_timer[ip] \in Nat
    BY <1>2, MapValue
  <2>2. timer \in [DOMAIN n.arp_timer -> Nat]
    BY <2>1
  <2>3. DOMAIN n.arp_timer \in SUBSET Hops
    BY <1>2, MapValue
  <2> HIDE DEF timer
  <2> QED BY <2>2, <2>3, Zenon DEF Maps
<1>6. books \in Maps(Hops, Seq(1..count))
  <2>1. \A ip \in DOMAIN n.pending : n.pending[ip] \in Seq(1..count)
    BY <1>2, MapValue
  <2>2. books \in [DOMAIN n.pending -> Seq(1..count)]
    <3>1. <<>> \in Seq(1..count)
      OBVIOUS
    <3> QED BY <2>1, <3>1, Zenon
  <2>3. DOMAIN n.pending \in SUBSET Hops
    BY <1>2, MapValue
  <2> HIDE DEF books
  <2> QED BY <2>2, <2>3, Zenon DEF Maps
<1>7. /\ m.pending = books /\ m.arp_timer = timer
      /\ m.arp_cache = Aged(n.arp_cache, ms)
      /\ m \in Interfaces(count)
  <2> HIDE DEF m, books, timer
  <2> QED BY <1>1, <1>3, <1>4, <1>5, <1>6 DEF Interfaces
<1>8. DOMAIN Aged(n.arp_cache, ms) \subseteq DOMAIN n.arp_cache
  BY DEF Aged
<1>9. BooksAgree(m)
  <2>1. \A ip \in DOMAIN timer : timer[ip] < ARP_RETRY_MS
    BY <1>1, <1>2, MapValue, ARPAssumption DEF BooksAgree, Retries
  <2>2. DOMAIN books = DOMAIN n.pending /\ DOMAIN timer = DOMAIN n.arp_timer
    OBVIOUS
  <2> HIDE DEF m, books, timer
  <2> QED BY <2>1, <2>2, <1>1, <1>7, <1>8 DEF BooksAgree
<1>10. AgesAgree(m, older)
  <2> SUFFICES ASSUME NEW ip \in DOMAIN books, NEW i \in DOMAIN books[ip]
               PROVE  older[books[ip][i]] <= timer[ip]
    BY <1>7 DEF AgesAgree
  <2>1. CASE ip \in Retries(n, ms)
    BY <2>1
  <2>2. CASE ip \notin Retries(n, ms)
    <3>1. ip \in DOMAIN n.pending /\ ip \in DOMAIN n.arp_timer
      BY <1>1 DEF BooksAgree
    <3>2. books[ip] = n.pending[ip] /\ timer[ip] = n.arp_timer[ip] + ms
      BY <2>2, <3>1
    <3>3. n.pending[ip] \in Seq(1..count) /\ n.arp_timer[ip] \in Nat
      BY <3>1, <1>2, MapValue
    <3>4. n.pending[ip][i] \in 1..count
      BY <3>2, <3>3
    <3>5. ages[n.pending[ip][i]] <= n.arp_timer[ip]
      BY <1>1, <3>1, <3>2 DEF AgesAgree
    <3>6. /\ ages[n.pending[ip][i]] \in Nat
          /\ older[n.pending[ip][i]] = Capped(ages[n.pending[ip][i]] + ms, ARP_RETRY_MS)
      BY <3>4
    <3>7. \A a \in Nat : Capped(a, ARP_RETRY_MS) <= a
      BY ARPAssumption DEF Capped
    <3>8. ages[n.pending[ip][i]] + ms \in Nat
      BY <3>6
    <3>9. older[n.pending[ip][i]] <= ages[n.pending[ip][i]] + ms
      BY <3>6, <3>7, <3>8
    <3>10. Capped(ages[n.pending[ip][i]] + ms, ARP_RETRY_MS) \in Nat
      BY <3>8, ARPAssumption DEF Capped
    <3> HIDE DEF books, timer
    <3>11. older[n.pending[ip][i]] <= n.arp_timer[ip] + ms
      <4> DEFINE o == older[n.pending[ip][i]]
                 a == ages[n.pending[ip][i]]
                 b == n.arp_timer[ip]
      <4>1. o \in Nat /\ a \in Nat /\ b \in Nat /\ ms \in Nat /\ o <= a + ms /\ a <= b
        BY <3>3, <3>5, <3>6, <3>9, <3>10
      <4> HIDE DEF o, a, b
      <4>2. o <= b + ms
        BY ONLY <4>1
      <4> QED BY <4>2 DEF o, b
    <3> QED BY <3>2, <3>11, Zenon
  <2> QED BY <2>1, <2>2
<1> QED BY <1>7, <1>9, <1>10 DEF Consistent

-----------------------------------------------------------------------------
(* What the methods transmit.                                               *)

\* Frames with nothing but datagrams, with none, and with an answer after them.
LEMMA OnlyDatagrams ==
  ASSUME NEW T, NEW q \in Seq(T), \A i \in 1..Len(q) : q[i].type = "IPv4"
  PROVE  IPv4Of(q) = q /\ AskedIn(q) = {}
<1> DEFINE S == {f \in ToSet(q) : f.type = "IPv4"}
<1>1. \A i \in 1..Len(q) : q[i] \in S
  BY DEF ToSet
<1>2. Selected(q, S) = q
  <2> HIDE DEF S
  <2> QED BY <1>1, SelectedAll
<1> QED BY <1>2 DEF IPv4Of, AskedIn

\* No frames: no datagrams, no requests.
LEMMA NothingTransmitted == IPv4Of(<<>>) = <<>> /\ AskedIn(<<>>) = {}
<1>1. <<>> \in Seq({}) /\ Len(<<>>) = 0
  OBVIOUS
<1>2. \A i \in 1..Len(<<>>) : <<>>[i].type = "IPv4"
  BY <1>1
<1> QED BY <1>1, <1>2, OnlyDatagrams

\* ARP messages alone carry no datagrams.
LEMMA NoDatagrams ==
  ASSUME NEW T, NEW q \in Seq(T), \A i \in 1..Len(q) : q[i].type = "ARP"
  PROVE  IPv4Of(q) = <<>>
<1> DEFINE S == {f \in ToSet(q) : f.type = "IPv4"}
<1>1. \A i \in 1..Len(q) : q[i] \notin S
  OBVIOUS
<1>2. Selected(q, S) = <<>>
  <2> HIDE DEF S
  <2> QED BY <1>1, SelectedNone
<1> QED BY <1>2 DEF IPv4Of

\* Datagrams followed by a reply: the datagrams are those, and nobody is asked for.
LEMMA DatagramsAndReply ==
  ASSUME NEW T, NEW q \in Seq(T), \A i \in 1..Len(q) : q[i].type = "IPv4",
         NEW x \in T, x.type = "ARP", x.opcode = "reply"
  PROVE  IPv4Of(q \o <<x>>) = q /\ AskedIn(q \o <<x>>) = {}
<1> DEFINE r == Append(q, x)
           S == {f \in ToSet(r) : f.type = "IPv4"}
<1>1. /\ r \in Seq(T) /\ q \o <<x>> = r /\ Len(r) = Len(q) + 1
      /\ \A i \in 1..Len(q) : r[i] = q[i]
      /\ r[Len(q) + 1] = x
  OBVIOUS
<1>2. \A i \in 1..Len(q) : q[i] \in S
  <2>1. \A i \in 1..Len(q) : q[i] \in ToSet(r)
    BY <1>1 DEF ToSet
  <2> QED BY <2>1
<1>3. x \notin S
  OBVIOUS
<1>4. Selected(r, S) = q
  <2> HIDE DEF S
  <2>1. Selected(q, S) = q
    BY <1>2, SelectedAll
  <2> QED BY <1>3, <2>1, SelectedAppend
<1>5. AskedIn(r) = {}
  <2>1. \A i \in DOMAIN r : r[i].type = "ARP" => i = Len(q) + 1
    BY <1>1
  <2> HIDE DEF r
  <2> QED BY <1>1, <2>1 DEF AskedIn
<1> QED BY <1>1, <1>4, <1>5 DEF IPv4Of

\* What is sent at once, and what is asked for (NetworkInterface::send_datagram).
LEMMA SendTransmits ==
  ASSUME NEW n, NEW datagram, NEW hop,
         NEW frames, frames = SendDatagramTransmits(n, datagram, hop)
  PROVE  /\ hop \in DOMAIN n.arp_cache =>
              /\ IPv4Of(frames) = << IPv4Frame(n, n.arp_cache[hop].mac, datagram) >>
              /\ AskedIn(frames) = {}
         /\ hop \notin DOMAIN n.arp_cache =>
              /\ IPv4Of(frames) = <<>>
              /\ AskedIn(frames) = IF MayAsk(n, hop) THEN {hop} ELSE {}
<1>1. CASE hop \in DOMAIN n.arp_cache
  <2> DEFINE f == IPv4Frame(n, n.arp_cache[hop].mac, datagram)
  <2>1. frames = <<f>> /\ f.type = "IPv4"
    BY <1>1 DEF SendDatagramTransmits, IPv4Frame
  <2> HIDE DEF f
  <2>2. frames \in Seq({f}) /\ \A i \in 1..Len(frames) : frames[i].type = "IPv4"
    BY <2>1
  <2>3. IPv4Of(frames) = <<f>> /\ AskedIn(frames) = {}
    BY <2>1, <2>2, OnlyDatagrams
  <2> QED BY <1>1, <2>3 DEF f
<1>2. CASE hop \notin DOMAIN n.arp_cache /\ MayAsk(n, hop)
  <2> DEFINE f == ARPRequest(n, hop)
  <2>1. /\ frames = <<f>>
        /\ f.type = "ARP" /\ f.opcode = "request" /\ f.target_ip = hop
    BY <1>2 DEF SendDatagramTransmits, ARPRequest
  <2> HIDE DEF f
  <2>2. frames \in Seq({f}) /\ \A i \in 1..Len(frames) : frames[i].type = "ARP"
    BY <2>1
  <2>3. IPv4Of(frames) = <<>>
    BY <2>2, NoDatagrams
  <2>4. AskedIn(frames) = {hop}
    BY <2>1 DEF AskedIn
  <2> QED BY <1>2, <2>3, <2>4
<1>3. CASE hop \notin DOMAIN n.arp_cache /\ ~MayAsk(n, hop)
  <2>1. frames = <<>>
    BY <1>3 DEF SendDatagramTransmits
  <2>2. IPv4Of(frames) = <<>> /\ AskedIn(frames) = {}
    BY <2>1, NothingTransmitted
  <2> QED BY <1>3, <2>2
<1> QED BY <1>1, <1>2, <1>3

\* What a frame releases (NetworkInterface::recv_frame).
LEMMA RecvTransmits ==
  ASSUME NEW n, NEW frame, NEW waiting, NEW U, waiting \in Seq(U),
         waiting = Waiting(n, frame.sender_ip),
         NEW frames, frames = RecvFrameTransmits(n, frame)
  PROVE  /\ AskedIn(frames) = {}
         /\ AddressedTo(n, frame) /\ frame.type = "ARP" =>
              /\ Len(IPv4Of(frames)) = Len(waiting)
              /\ IPv4Of(frames) =
                   [i \in 1..Len(waiting) |-> IPv4Frame(n, frame.sender_mac, waiting[i])]
         /\ ~(AddressedTo(n, frame) /\ frame.type = "ARP") => IPv4Of(frames) = <<>>
<1>1. CASE ~(AddressedTo(n, frame) /\ frame.type = "ARP")
  <2>1. frames = <<>>
    BY <1>1 DEF RecvFrameTransmits
  <2>2. IPv4Of(frames) = <<>> /\ AskedIn(frames) = {}
    BY <2>1, NothingTransmitted
  <2> QED BY <1>1, <2>2
<1>2. CASE AddressedTo(n, frame) /\ frame.type = "ARP"
  <2> DEFINE q == [i \in 1..Len(waiting) |-> IPv4Frame(n, frame.sender_mac, waiting[i])]
             x == ARPReply(n, frame.sender_ip, frame.sender_mac)
             T == {q[i] : i \in 1..Len(waiting)} \union {x}
  <2>1. DOMAIN waiting = 1..Len(waiting) /\ Len(waiting) \in Nat
    OBVIOUS
  <2>2. q \in Seq(T) /\ x \in T /\ Len(q) = Len(waiting)
    BY <2>1
  <2>3. \A i \in 1..Len(q) : q[i].type = "IPv4"
    BY <2>2 DEF IPv4Frame
  <2>4. x.type = "ARP" /\ x.opcode = "reply"
    BY DEF ARPReply
  <2>5. LearnTransmits(n, frame.sender_ip, frame.sender_mac) = q
    BY <2>1 DEF LearnTransmits
  <2>6. frames = q \o (IF Replies(n, frame) THEN <<x>> ELSE <<>>)
    BY <1>2, <2>5 DEF RecvFrameTransmits
  <2> HIDE DEF x, T
  <2>7. IPv4Of(frames) = q /\ AskedIn(frames) = {}
    <3> HIDE DEF q
    <3>1. CASE Replies(n, frame)
      BY <2>2, <2>3, <2>4, <2>6, <3>1, DatagramsAndReply
    <3>2. CASE ~Replies(n, frame)
      <4>1. frames = q
        BY <2>2, <2>6, <3>2
      <4> QED BY <2>2, <2>3, <4>1, OnlyDatagrams
    <3> QED BY <3>1, <3>2
  <2> QED BY <1>2, <2>2, <2>7
<1> QED BY <1>1, <1>2

\* What a tick asks for (NetworkInterface::tick).
LEMMA TickTransmits ==
  ASSUME NEW n, IsFiniteSet(DOMAIN n.arp_timer), NEW ms,
         NEW frames \in SetToSeqs(InterfaceTickTransmits(n, ms))
  PROVE  IPv4Of(frames) = <<>> /\ AskedIn(frames) = Retries(n, ms)
<1> DEFINE S == InterfaceTickTransmits(n, ms)
           k == Cardinality(S)
<1>1. S = {ARPRequest(n, ip) : ip \in Retries(n, ms)}
  BY DEF InterfaceTickTransmits
<1>2. IsFiniteSet(S) /\ k \in Nat
  <2>1. IsFiniteSet(Retries(n, ms))
    <3>1. Retries(n, ms) \subseteq DOMAIN n.arp_timer
      BY DEF Retries
    <3> QED BY <3>1, FS_Subset
  <2>2. IsFiniteSet(S)
    <3> DEFINE R == Retries(n, ms)
               g == [ip \in R |-> ARPRequest(n, ip)]
    <3>1. g \in Surjection(R, S)
      BY <1>1 DEF Surjection
    <3> HIDE DEF g, R, S
    <3> QED BY <2>1, <3>1, FS_Surjection DEF R
  <2> QED BY <2>2, FS_CardinalityType
<1>3. frames \in [1..k -> S] /\ \A i, j \in 1..k : i # j => frames[i] # frames[j]
  BY DEF SetToSeqs
<1> HIDE DEF S, k
<1>4. frames \in Seq(S) /\ Len(frames) = k
  BY <1>2, <1>3
<1>5. \A f \in S : f.type = "ARP" /\ f.opcode = "request"
  BY <1>1 DEF ARPRequest
<1>6. IPv4Of(frames) = <<>>
  <2>1. \A i \in 1..Len(frames) : frames[i].type = "ARP"
    BY <1>3, <1>4, <1>5
  <2> QED BY <1>4, <2>1, NoDatagrams
<1>7. \A f \in S : \E i \in 1..k : frames[i] = f
  <2>1. frames \in Injection(1..k, S)
    BY <1>3 DEF Injection, IsInjective
  <2>2. Cardinality(1..k) = k
    BY <1>2, FS_Interval
  <2>3. k = Cardinality(S)
    BY DEF k
  <2>4. frames \in Surjection(1..k, S)
    BY <1>2, <2>1, <2>2, <2>3, FS_Injection
  <2> QED BY <2>4 DEF Surjection
<1>8. AskedIn(frames) = Retries(n, ms)
  <2>1. ASSUME NEW ip \in AskedIn(frames) PROVE ip \in Retries(n, ms)
    <3>1. PICK i \in 1..k : frames[i].target_ip = ip
      BY <1>3, <2>1 DEF AskedIn
    <3>2. frames[i] \in S
      BY <1>3
    <3> QED BY <1>1, <3>1, <3>2 DEF ARPRequest
  <2>2. ASSUME NEW ip \in Retries(n, ms) PROVE ip \in AskedIn(frames)
    <3>1. ARPRequest(n, ip) \in S /\ ARPRequest(n, ip).target_ip = ip
      BY <1>1 DEF ARPRequest
    <3>2. PICK i \in 1..k : frames[i] = ARPRequest(n, ip)
      BY <1>7, <3>1
    <3>3. i \in {j \in DOMAIN frames : frames[j].type = "ARP" /\ frames[j].opcode = "request"}
      BY <1>3, <1>5, <3>1, <3>2
    <3> QED BY <3>1, <3>2, <3>3 DEF AskedIn
  <2> QED BY <2>1, <2>2
<1> QED BY <1>6, <1>8

-----------------------------------------------------------------------------
(* What the histories remember.                                             *)

\* A datagram that is sent is remembered with its next hop, and an address that
\* is asked for with the time (NetworkInterface::send_datagram).
LEMMA SendKeepsMemory ==
  ASSUME NEW n, NEW count \in Nat, n \in Interfaces(count), BooksAgree(n),
         NEW hops \in Seq(Hops), Len(hops) = count, NEW told, NEW since,
         Remembers(n, hops, told, since), NEW hop \in Hops,
         NEW frames, frames = SendDatagramTransmits(n, count + 1, hop),
         NEW later, later = [ip \in Hops |-> IF ip \in AskedIn(frames) THEN 0
                                             ELSE since[ip]]
  PROVE  Remembers(SendDatagram(n, count + 1, hop), Append(hops, hop), told, later)
<1> DEFINE m     == SendDatagram(n, count + 1, hop)
           queue == Append(Waiting(n, hop), count + 1)
           books == Put(n.pending, hop, queue)
           timer == IF MayAsk(n, hop) THEN Put(n.arp_timer, hop, 0) ELSE n.arp_timer
<1>1. /\ IsFiniteSet(DOMAIN n.arp_timer)
      /\ QueuesAgree(n, hops)
      /\ CacheAgrees(n, told)
      /\ TimersAgree(n, since)
  BY DEF Remembers
<1>2. /\ \A ip \in DOMAIN n.pending : n.pending[ip] \in Seq(1..count)
      /\ DOMAIN n.pending \subseteq Hops
      /\ DOMAIN n.pending = DOMAIN n.arp_timer
  BY MapValue DEF Interfaces, BooksAgree
<1>3. QueuesAgree(n, Append(hops, hop))
  <2> SUFFICES ASSUME NEW ip \in DOMAIN n.pending, NEW i \in DOMAIN n.pending[ip]
               PROVE  Append(hops, hop)[n.pending[ip][i]] = ip
    BY DEF QueuesAgree
  <2>1. n.pending[ip][i] \in 1..count
    BY <1>2, ElementOfSeq
  <2>2. Append(hops, hop)[n.pending[ip][i]] = hops[n.pending[ip][i]]
    BY <2>1
  <2> QED BY <1>1, <2>2 DEF QueuesAgree
<1>4. CASE hop \in DOMAIN n.arp_cache
  <2>1. m = n
    BY <1>4 DEF SendDatagram
  <2>2. AskedIn(frames) = {}
    BY <1>4, SendTransmits
  <2>3. later = since
    BY <1>1, <2>2 DEF TimersAgree
  <2> QED BY <1>1, <1>3, <2>1, <2>3 DEF Remembers
<1>5. CASE hop \notin DOMAIN n.arp_cache
  <2>1. m = [n EXCEPT !.pending = books, !.arp_timer = timer]
    BY <1>5 DEF SendDatagram
  <2>2. AskedIn(frames) = IF MayAsk(n, hop) THEN {hop} ELSE {}
    BY <1>5, SendTransmits
  <2>3. /\ DOMAIN books = DOMAIN n.pending \union {hop}
        /\ books[hop] = queue
        /\ \A y \in DOMAIN n.pending : y # hop => books[y] = n.pending[y]
    BY DEF Put
  <2>4. /\ DOMAIN timer = DOMAIN n.arp_timer \union {hop}
        /\ \A y \in DOMAIN n.arp_timer : y # hop => timer[y] = n.arp_timer[y]
        /\ timer[hop] = IF MayAsk(n, hop) THEN 0 ELSE n.arp_timer[hop]
    <3>1. CASE MayAsk(n, hop)
      BY <3>1 DEF Put
    <3>2. CASE ~MayAsk(n, hop)
      BY <3>2 DEF MayAsk
    <3> QED BY <3>1, <3>2
  <2>5. Waiting(n, hop) \in Seq(1..count)
    <3>1. CASE hop \in DOMAIN n.pending
      BY <3>1, <1>2, Zenon DEF Waiting
    <3>2. CASE hop \notin DOMAIN n.pending
      BY <3>2, EmptySeq, Zenon DEF Waiting
    <3> QED BY <3>1, <3>2
  <2> HIDE DEF m, books, timer
  <2>6. m.pending = books /\ m.arp_timer = timer /\ m.arp_cache = n.arp_cache
    BY <2>1 DEF Interfaces
  <2>7. IsFiniteSet(DOMAIN timer)
    BY <1>1, <2>4, FS_AddElement
  <2>8. QueuesAgree(m, Append(hops, hop))
    <3> SUFFICES ASSUME NEW ip \in DOMAIN books, NEW i \in DOMAIN books[ip]
                 PROVE  Append(hops, hop)[books[ip][i]] = ip
      BY <2>6 DEF QueuesAgree
    <3>1. CASE ip # hop
      BY <3>1, <2>3, <1>3 DEF QueuesAgree
    <3>2. CASE ip = hop /\ i = Len(Waiting(n, hop)) + 1
      <4>1. books[ip][i] = count + 1
        BY <2>3, <2>5, <3>2
      <4> QED BY <3>2, <4>1
    <3>3. CASE ip = hop /\ i # Len(Waiting(n, hop)) + 1
      <4>1. i \in DOMAIN Waiting(n, hop) /\ books[ip][i] = Waiting(n, hop)[i]
        <5>1. books[ip] = Append(Waiting(n, hop), count + 1)
          BY <2>3, <3>3
        <5>2. i \in 1..(Len(Waiting(n, hop)) + 1)
          BY <2>5, <5>1
        <5> QED BY <2>5, <3>3, <5>1, <5>2
      <4>2. hop \in DOMAIN n.pending /\ Waiting(n, hop) = n.pending[hop]
        BY <4>1 DEF Waiting
      <4> QED BY <3>3, <4>1, <4>2, <1>3 DEF QueuesAgree
    <3> QED BY <3>1, <3>2, <3>3
  <2>9. CacheAgrees(m, told)
    BY <1>1, <2>6 DEF CacheAgrees
  <2>10. TimersAgree(m, later)
    <3>1. \A ip \in Hops : later[ip] = IF ip \in DOMAIN timer THEN timer[ip] ELSE ARP_RETRY_MS
      BY <1>1, <2>2, <2>4 DEF TimersAgree, MayAsk
    <3> QED BY <2>6, <3>1 DEF TimersAgree
  <2> QED BY <2>6, <2>7, <2>8, <2>9, <2>10 DEF Remembers, m
<1> QED BY <1>4, <1>5

\* An address that is heard of is remembered, and is not asked for any more
\* (NetworkInterface::recv_frame).
LEMMA LearnKeepsMemory ==
  ASSUME NEW n, NEW count \in Nat, n \in Interfaces(count), BooksAgree(n),
         NEW hops, NEW told, NEW since, Remembers(n, hops, told, since),
         NEW ip \in Hops, NEW mac
  PROVE  Remembers(Learn(n, ip, mac), hops,
                   Put(told, ip, [mac |-> mac, age |-> 0]),
                   [since EXCEPT ![ip] = ARP_RETRY_MS])
<1> DEFINE m     == Learn(n, ip, mac)
           cache == Put(n.arp_cache, ip, [mac |-> mac, ttl_ms |-> ARP_TTL_MS])
           timer == Restrict(n.arp_timer, DOMAIN n.arp_timer \ {ip})
           books == Restrict(n.pending, DOMAIN n.pending \ {ip})
           news  == Put(told, ip, [mac |-> mac, age |-> 0])
           later == [since EXCEPT ![ip] = ARP_RETRY_MS]
<1>1. /\ IsFiniteSet(DOMAIN n.arp_timer)
      /\ QueuesAgree(n, hops)
      /\ CacheAgrees(n, told)
      /\ TimersAgree(n, since)
  BY DEF Remembers
<1>2. m = [n EXCEPT !.arp_cache = cache, !.arp_timer = timer, !.pending = books]
  BY DEF Learn
<1>3. /\ DOMAIN timer = DOMAIN n.arp_timer \ {ip}
      /\ \A y \in DOMAIN timer : timer[y] = n.arp_timer[y]
      /\ DOMAIN books = DOMAIN n.pending \ {ip}
      /\ \A y \in DOMAIN books : books[y] = n.pending[y]
  BY DEF Restrict
<1>4. /\ DOMAIN cache = DOMAIN n.arp_cache \union {ip}
      /\ cache[ip] = [mac |-> mac, ttl_ms |-> ARP_TTL_MS]
      /\ \A y \in DOMAIN n.arp_cache : y # ip => cache[y] = n.arp_cache[y]
      /\ DOMAIN news = DOMAIN told \union {ip}
      /\ news[ip] = [mac |-> mac, age |-> 0]
      /\ \A y \in DOMAIN told : y # ip => news[y] = told[y]
  BY DEF Put
<1>5. later = [y \in Hops |-> IF y = ip THEN ARP_RETRY_MS ELSE since[y]]
  BY <1>1 DEF TimersAgree
<1> HIDE DEF m, cache, timer, books, news, later
<1>6. m.pending = books /\ m.arp_timer = timer /\ m.arp_cache = cache
  BY <1>2 DEF Interfaces
<1>7. IsFiniteSet(DOMAIN timer)
  BY <1>1, <1>3, FS_Subset
<1>8. QueuesAgree(m, hops)
  BY <1>1, <1>3, <1>6 DEF QueuesAgree
<1>9. CacheAgrees(m, news)
  <2> SUFFICES ASSUME NEW y \in DOMAIN cache
               PROVE  /\ y \in DOMAIN news
                      /\ news[y] = [mac |-> cache[y].mac,
                                    age |-> ARP_TTL_MS - cache[y].ttl_ms]
    BY <1>6 DEF CacheAgrees
  <2>1. CASE y = ip
    <3>1. ARP_TTL_MS - ARP_TTL_MS = 0
      BY ARPAssumption
    <3> QED BY <1>4, <2>1, <3>1
  <2>2. CASE y # ip
    BY <1>1, <1>4, <2>2 DEF CacheAgrees
  <2> QED BY <2>1, <2>2
<1>10. TimersAgree(m, later)
  <2>1. \A y \in Hops : later[y] = IF y \in DOMAIN timer THEN timer[y] ELSE ARP_RETRY_MS
    BY <1>1, <1>3, <1>5 DEF TimersAgree
  <2> QED BY <1>5, <1>6, <2>1 DEF TimersAgree
<1> QED BY <1>6, <1>7, <1>8, <1>9, <1>10 DEF Remembers, m, news, later

\* Time passes for the interface as it does for the histories
\* (NetworkInterface::tick).
LEMMA TickKeepsMemory ==
  ASSUME NEW n, NEW count \in Nat, n \in Interfaces(count), BooksAgree(n),
         NEW hops, NEW told, NEW since, Remembers(n, hops, told, since),
         NEW ms \in Nat, NEW again, again = Retries(n, ms),
         NEW news, news = [ip \in {i \in DOMAIN told : told[i].age + ms < ARP_TTL_MS} |->
                             [told[ip] EXCEPT !.age = @ + ms]],
         NEW later, later = [ip \in Hops |-> IF ip \in again THEN 0
                               ELSE Capped(since[ip] + ms, ARP_RETRY_MS)]
  PROVE  Remembers(InterfaceTick(n, ms), hops, news, later)
<1> DEFINE m     == InterfaceTick(n, ms)
           cache == Aged(n.arp_cache, ms)
           timer == [ip \in DOMAIN n.arp_timer |->
                       IF ip \in again THEN 0 ELSE n.arp_timer[ip] + ms]
           books == [ip \in DOMAIN n.pending |->
                       IF ip \in again THEN <<>> ELSE n.pending[ip]]
<1>1. /\ IsFiniteSet(DOMAIN n.arp_timer)
      /\ QueuesAgree(n, hops)
      /\ CacheAgrees(n, told)
      /\ TimersAgree(n, since)
  BY DEF Remembers
<1>2. m = [n EXCEPT !.arp_cache = cache, !.arp_timer = timer, !.pending = books]
  BY DEF InterfaceTick
<1>3. /\ \A ip \in DOMAIN n.arp_timer : n.arp_timer[ip] \in Nat
      /\ \A ip \in DOMAIN n.arp_cache :
           n.arp_cache[ip] \in [mac : Macs, ttl_ms : 1..ARP_TTL_MS]
  <2> DEFINE E == [mac : Macs, ttl_ms : 1..ARP_TTL_MS]
  <2>1. n.arp_timer \in Maps(Hops, Nat) /\ n.arp_cache \in Maps(Hops, E)
    BY DEF Interfaces
  <2>2. /\ \A ip \in DOMAIN n.arp_timer : n.arp_timer[ip] \in Nat
        /\ \A ip \in DOMAIN n.arp_cache : n.arp_cache[ip] \in E
    <3> HIDE DEF E
    <3> QED BY <2>1, MapValue
  <2> QED BY <2>2
<1>4. /\ DOMAIN cache = {ip \in DOMAIN n.arp_cache : n.arp_cache[ip].ttl_ms > ms}
      /\ \A ip \in DOMAIN cache : cache[ip] = [n.arp_cache[ip] EXCEPT !.ttl_ms = @ - ms]
  BY DEF Aged
<1>5. /\ DOMAIN timer = DOMAIN n.arp_timer
      /\ \A ip \in DOMAIN timer :
           timer[ip] = IF ip \in again THEN 0 ELSE n.arp_timer[ip] + ms
      /\ DOMAIN books = DOMAIN n.pending
      /\ \A ip \in DOMAIN books : books[ip] = IF ip \in again THEN <<>> ELSE n.pending[ip]
  OBVIOUS
<1> HIDE DEF m, cache, timer, books
<1>6. m.pending = books /\ m.arp_timer = timer /\ m.arp_cache = cache
  BY <1>2 DEF Interfaces
<1>7. QueuesAgree(m, hops)
  <2> SUFFICES ASSUME NEW ip \in DOMAIN books, NEW i \in DOMAIN books[ip]
               PROVE  hops[books[ip][i]] = ip
    BY <1>6 DEF QueuesAgree
  <2>1. books[ip] = n.pending[ip] /\ ip \in DOMAIN n.pending
    BY <1>5
  <2> QED BY <1>1, <2>1 DEF QueuesAgree
<1>8. CacheAgrees(m, news)
  <2> SUFFICES ASSUME NEW ip \in DOMAIN cache
               PROVE  /\ ip \in DOMAIN news
                      /\ news[ip] = [mac |-> cache[ip].mac,
                                     age |-> ARP_TTL_MS - cache[ip].ttl_ms]
    BY <1>6 DEF CacheAgrees
  <2>1. /\ ip \in DOMAIN n.arp_cache /\ n.arp_cache[ip].ttl_ms > ms
        /\ n.arp_cache[ip].ttl_ms \in 1..ARP_TTL_MS
        /\ cache[ip].mac = n.arp_cache[ip].mac
        /\ cache[ip].ttl_ms = n.arp_cache[ip].ttl_ms - ms
    BY <1>3, <1>4
  <2>2. /\ ip \in DOMAIN told
        /\ told[ip] = [mac |-> n.arp_cache[ip].mac,
                       age |-> ARP_TTL_MS - n.arp_cache[ip].ttl_ms]
    BY <1>1, <2>1 DEF CacheAgrees
  <2>3. /\ told[ip].age + ms < ARP_TTL_MS
        /\ told[ip].age + ms = ARP_TTL_MS - cache[ip].ttl_ms
    BY <2>1, <2>2, ARPAssumption
  <2> QED BY <2>1, <2>2, <2>3
<1>9. TimersAgree(m, later)
  <2>1. ASSUME NEW ip \in Hops
        PROVE  later[ip] = IF ip \in DOMAIN timer THEN timer[ip] ELSE ARP_RETRY_MS
    <3>1. CASE ip \in again
      BY <1>5, <3>1 DEF Retries
    <3>2. CASE ip \notin again /\ ip \in DOMAIN n.arp_timer
      <4>1. n.arp_timer[ip] + ms < ARP_RETRY_MS
        BY <1>3, <3>2, ARPAssumption DEF Retries, BooksAgree
      <4>2. since[ip] = n.arp_timer[ip]
        BY <1>1, <3>2 DEF TimersAgree
      <4> QED BY <1>3, <1>5, <3>2, <4>1, <4>2, ARPAssumption DEF Capped
    <3>3. CASE ip \notin again /\ ip \notin DOMAIN n.arp_timer
      <4>1. since[ip] = ARP_RETRY_MS
        BY <1>1, <3>3 DEF TimersAgree
      <4>2. Capped(ARP_RETRY_MS + ms, ARP_RETRY_MS) = ARP_RETRY_MS
        BY ARPAssumption DEF Capped
      <4> QED BY <1>5, <3>3, <4>1, <4>2
    <3> QED BY <3>1, <3>2, <3>3
  <2> QED BY <1>6, <2>1 DEF TimersAgree
<1> QED BY <1>1, <1>5, <1>6, <1>7, <1>8, <1>9 DEF Remembers, m

-----------------------------------------------------------------------------
(* The theorems.                                                            *)

\* A new interface has empty maps, which agree.
LEMMA InitImplies == Init => InterfaceInv
<1> SUFFICES ASSUME Init PROVE InterfaceInv
  OBVIOUS
<1>1. ASSUME NEW T PROVE NoEntries \in Maps(Hops, T)
  <2>1. NoEntries \in [{} -> T]
    BY DEF NoEntries
  <2> QED BY <2>1, Zenon DEF Maps
<1>2. ni \in Interfaces(0)
  BY <1>1 DEF Init, NewInterface, Interfaces
<1>3. BooksAgree(ni) /\ AgesAgree(ni, waited)
  BY DEF Init, NewInterface, NoEntries, BooksAgree, AgesAgree
<1> QED BY <1>2, <1>3, InterfaceAssumption DEF Init, InterfaceInv, Consistent

\* Every step preserves the invariant.
LEMMA NextPreserves == InterfaceInv /\ [Next]_vars => InterfaceInv'
<1> SUFFICES ASSUME InterfaceInv, [Next]_vars PROVE InterfaceInv'
  OBVIOUS
<1>1. /\ asked \in Seq(Hops) /\ Len(asked) \in Nat /\ Len(asked) <= MaxDatagrams
      /\ waited \in Seq(Nat) /\ Len(waited) = Len(asked)
      /\ Consistent(ni, Len(asked), waited)
  BY DEF InterfaceInv
<1>2. ASSUME NEW hop \in Hops, CallSend(hop) PROVE InterfaceInv'
  <2>1. /\ Len(asked) < MaxDatagrams
        /\ ni' = SendDatagram(ni, Len(asked) + 1, hop)
        /\ asked' = Append(asked, hop)
        /\ waited' = Append(waited, 0)
    BY <1>2 DEF CallSend
  <2>2. /\ asked' \in Seq(Hops) /\ Len(asked') = Len(asked) + 1
        /\ waited' \in Seq(Nat) /\ Len(waited') = Len(asked) + 1
    BY <1>1, <1>2, <2>1
  <2>3. Consistent(ni', Len(asked) + 1, waited')
    BY <1>1, <1>2, <2>1, SendKeepsConsistent
  <2>4. Len(asked') <= MaxDatagrams
    BY <1>1, <2>1, <2>2, InterfaceAssumption
  <2> QED BY <2>2, <2>3, <2>4 DEF InterfaceInv, Consistent, BooksAgree, AgesAgree, Interfaces
<1>3. ASSUME NEW frame \in Frames, CallRecv(frame) PROVE InterfaceInv'
  <2>1. /\ ni' = RecvFrame(ni, frame)
        /\ asked' = asked /\ waited' = waited
    BY <1>3 DEF CallRecv
  <2>2. Consistent(ni', Len(asked), waited)
    BY <1>1, <1>3, <2>1, RecvKeepsConsistent
  <2> QED BY <1>1, <2>1, <2>2 DEF InterfaceInv, Consistent, BooksAgree, AgesAgree, Interfaces
<1>4. CASE Take
  <2>1. /\ ni.datagrams_in # <<>>
        /\ ni' = [ni EXCEPT !.datagrams_in = Tail(@)]
        /\ asked' = asked /\ waited' = waited
    BY <1>4 DEF Take
  <2>2. ni \in Interfaces(Len(asked))
    BY <1>1 DEF Consistent
  <2>3. Tail(ni.datagrams_in) \in Seq({0})
    BY <2>1, <2>2 DEF Interfaces
  <2>4. ni' \in Interfaces(Len(asked))
    BY <2>1, <2>2, <2>3 DEF Interfaces
  <2>5. /\ ni'.pending = ni.pending /\ ni'.arp_timer = ni.arp_timer
        /\ ni'.arp_cache = ni.arp_cache
    BY <2>1, <2>2 DEF Interfaces
  <2> QED BY <1>1, <2>1, <2>4, <2>5 DEF InterfaceInv, Consistent, BooksAgree, AgesAgree, Interfaces
<1>5. ASSUME NEW ms \in Ticks, CallTick(ms) PROVE InterfaceInv'
  <2>1. /\ ni' = InterfaceTick(ni, ms)
        /\ asked' = asked
        /\ waited' = [i \in DOMAIN waited |-> Capped(waited[i] + ms, ARP_RETRY_MS)]
    BY <1>5 DEF CallTick
  <2>2. ms \in Nat
    BY <1>5, InterfaceAssumption
  <2>3. waited' \in Seq(Nat) /\ Len(waited') = Len(asked)
    BY <1>1, <2>1, <2>2, ARPAssumption DEF Capped
  <2>4. Consistent(ni', Len(asked), waited')
    BY <1>1, <2>1, <2>2, TickKeepsConsistent
  <2> QED BY <1>1, <2>1, <2>3, <2>4 DEF InterfaceInv, Consistent, BooksAgree, AgesAgree, Interfaces
<1>6. CASE UNCHANGED vars
  BY <1>1, <1>6 DEF vars, history, InterfaceInv, Consistent, BooksAgree, AgesAgree, Interfaces
<1> QED BY <1>2, <1>3, <1>4, <1>5, <1>6 DEF Next

\* The inductive invariant.
THEOREM InterfaceInvariant == Spec => []InterfaceInv
BY InitImplies, NextPreserves, PTL DEF Spec

\* The fields of an interface keep their types, no cached address has run out,
\* and only datagrams that were sent wait (NetworkInterface).
THEOREM InterfaceTypes == Spec => []TypeOK
<1>1. InterfaceInv => TypeOK
  <2> SUFFICES ASSUME InterfaceInv PROVE TypeOK
    OBVIOUS
  <2>1. /\ ni \in Interfaces(Len(asked)) /\ Len(asked) \in Nat
        /\ Len(asked) <= MaxDatagrams
    BY DEF InterfaceInv, Consistent
  <2>2. 1..Len(asked) \subseteq 1..MaxDatagrams
    BY <2>1, InterfaceAssumption
  <2>3. IsPartial(ni.arp_cache, Hops, [mac : Macs, ttl_ms : 1..ARP_TTL_MS])
    BY <2>1 DEF Interfaces, Maps, IsPartial
  <2>4. IsPartial(ni.arp_timer, Hops, Nat)
    BY <2>1 DEF Interfaces, Maps, IsPartial
  <2>5. IsPartial(ni.pending, Hops, Seq(1..MaxDatagrams))
    <3>1. IsPartial(ni.pending, Hops, Seq(1..Len(asked)))
      BY <2>1 DEF Interfaces, Maps, IsPartial
    <3> QED BY <3>1, <2>2, SeqMonotonic, Zenon DEF IsPartial
  <2> QED BY <2>1, <2>3, <2>4, <2>5 DEF TypeOK, Interfaces
<1> QED BY <1>1, InterfaceInvariant, PTL

\* The three maps agree (arp_cache_, arp_timer_ and pending_ of
\* NetworkInterface).
THEOREM MapsAlwaysAgree == Spec => []MapsAgree
<1>1. InterfaceInv => MapsAgree
  BY DEF InterfaceInv, Consistent, MapsAgree
<1> QED BY <1>1, InterfaceInvariant, PTL

\* No datagram waits as long as a retry of its ARP request takes
\* (NetworkInterface::send_datagram and tick).
THEOREM NothingEverWaitsLong == Spec => []NothingWaitsLong
<1>1. InterfaceInv => NothingWaitsLong
  <2> SUFFICES ASSUME InterfaceInv,
                      NEW ip \in DOMAIN ni.pending, NEW i \in DOMAIN ni.pending[ip]
               PROVE  waited[ni.pending[ip][i]] < ARP_RETRY_MS
    BY DEF NothingWaitsLong
  <2>1. /\ ni \in Interfaces(Len(asked)) /\ BooksAgree(ni) /\ AgesAgree(ni, waited)
        /\ waited \in Seq(Nat) /\ Len(waited) = Len(asked)
    BY DEF InterfaceInv, Consistent
  <2>2. /\ waited[ni.pending[ip][i]] <= ni.arp_timer[ip]
        /\ ip \in DOMAIN ni.arp_timer /\ ni.arp_timer[ip] < ARP_RETRY_MS
    BY <2>1 DEF BooksAgree, AgesAgree
  <2>3. ni.arp_timer[ip] \in Nat
    BY <2>1, <2>2 DEF Interfaces, Maps
  <2>4. ni.pending[ip] \in Seq(1..Len(asked))
    BY <2>1 DEF Interfaces, Maps
  <2>5. ni.pending[ip][i] \in 1..Len(waited)
    BY <2>1, <2>4
  <2>6. waited[ni.pending[ip][i]] \in Nat
    BY <2>1, <2>5
  <2> QED BY <2>2, <2>3, <2>6, ARPAssumption
<1> QED BY <1>1, InterfaceInvariant, PTL

-----------------------------------------------------------------------------
(* The histories.                                                           *)

\* A new interface has nothing to remember.
LEMMA InitRemembers == Init => HistoryInv
<1> SUFFICES ASSUME Init PROVE HistoryInv
  OBVIOUS
<1>1. DOMAIN NoEntries = {}
  BY DEF NoEntries
<1>2. IsFiniteSet({})
  BY FS_EmptySet
<1>3. /\ ni.arp_cache = NoEntries /\ ni.arp_timer = NoEntries
      /\ ni.pending = NoEntries
      /\ quiet = [ip \in Hops |-> ARP_RETRY_MS] /\ sent = <<>>
  BY DEF Init, NewInterface
<1>4. TimersAgree(ni, quiet)
  BY <1>1, <1>3 DEF TimersAgree
<1>5. QueuesAgree(ni, asked) /\ CacheAgrees(ni, heard)
  BY <1>1, <1>3 DEF QueuesAgree, CacheAgrees
<1> QED BY <1>1, <1>2, <1>3, <1>4, <1>5 DEF HistoryInv, Remembers

\* What a call of send_datagram does to the interface and transmits.
LEMMA SendStep ==
  ASSUME InterfaceInv, HistoryInv, NEW hop \in Hops, CallSend(hop),
         NEW frames, frames = SendDatagramTransmits(ni, Len(asked) + 1, hop)
  PROVE  /\ transmitted' = frames
         /\ asked' = Append(asked, hop)
         /\ asked'[Len(asked) + 1] = hop
         /\ Len(asked') = Len(asked) + 1
         /\ ni' = SendDatagram(ni, Len(asked) + 1, hop)
         /\ heard' = heard
         /\ quiet' = [ip \in Hops |-> IF ip \in AskedIn(frames) THEN 0 ELSE quiet[ip]]
         /\ hop \in DOMAIN ni.arp_cache =>
              /\ IPv4Of(frames) = << IPv4Frame(ni, ni.arp_cache[hop].mac, Len(asked) + 1) >>
              /\ sent' = Append(sent, Len(asked) + 1)
         /\ hop \notin DOMAIN ni.arp_cache => IPv4Of(frames) = <<>> /\ sent' = sent
<1>1. /\ transmitted' = frames
      /\ asked' = Append(asked, hop)
      /\ ni' = SendDatagram(ni, Len(asked) + 1, hop)
      /\ heard' = heard
      /\ quiet' = [ip \in Hops |-> IF ip \in AskedIn(frames) THEN 0 ELSE quiet[ip]]
      /\ sent' = sent \o [i \in DOMAIN IPv4Of(frames) |-> IPv4Of(frames)[i].datagram]
  BY DEF CallSend, Transmit
<1>2. asked \in Seq(Hops) /\ sent \in Seq(Nat) /\ Len(asked) + 1 \in Nat
  BY DEF InterfaceInv, HistoryInv
<1>3. asked'[Len(asked) + 1] = hop /\ Len(asked') = Len(asked) + 1
  BY <1>1, <1>2
<1>4. CASE hop \in DOMAIN ni.arp_cache
  <2> DEFINE f == IPv4Frame(ni, ni.arp_cache[hop].mac, Len(asked) + 1)
  <2>1. f.datagram = Len(asked) + 1
    BY DEF IPv4Frame
  <2> HIDE DEF f
  <2>2. IPv4Of(frames) = <<f>>
    BY <1>4, SendTransmits DEF f
  <2>3. [i \in DOMAIN <<f>> |-> <<f>>[i].datagram] = << Len(asked) + 1 >>
    BY <2>1
  <2>4. sent' = Append(sent, Len(asked) + 1)
    <3>1. sent' = sent \o << Len(asked) + 1 >>
      BY <1>1, <2>2, <2>3
    <3> HIDE DEF f
    <3> QED BY ONLY <1>2, <3>1
  <2> QED BY <1>1, <1>3, <1>4, <2>2, <2>4 DEF f
<1>5. CASE hop \notin DOMAIN ni.arp_cache
  <2>1. IPv4Of(frames) = <<>>
    BY <1>5, SendTransmits
  <2>2. sent' = sent
    BY <1>1, <1>2, <2>1
  <2> QED BY <1>1, <1>3, <1>5, <2>1, <2>2
<1> QED BY <1>4, <1>5

\* What a frame that is received does and releases.
LEMMA RecvStep ==
  ASSUME InterfaceInv, HistoryInv, NEW frame \in Frames, CallRecv(frame),
         NEW ip, ip = frame.sender_ip,
         NEW frames, frames = RecvFrameTransmits(ni, frame)
  PROVE  /\ transmitted' = frames
         /\ asked' = asked
         /\ ni' = RecvFrame(ni, frame)
         /\ AskedIn(frames) = {}
         /\ frame.type = "ARP" /\ AddressedTo(ni, frame) =>
              /\ ip \in Hops
              /\ Waiting(ni, ip) \in Seq(1..Len(asked))
              /\ ni' = Learn(ni, ip, frame.sender_mac)
              /\ heard' = Put(heard, ip, [mac |-> frame.sender_mac, age |-> 0])
              /\ quiet' = [quiet EXCEPT ![ip] = ARP_RETRY_MS]
              /\ IPv4Of(frames) = [i \in 1..Len(Waiting(ni, ip)) |->
                    IPv4Frame(ni, frame.sender_mac, Waiting(ni, ip)[i])]
              /\ sent' = sent \o Waiting(ni, ip)
         /\ ~(frame.type = "ARP" /\ AddressedTo(ni, frame)) =>
              /\ heard' = heard /\ quiet' = quiet /\ sent' = sent
              /\ ni'.arp_cache = ni.arp_cache /\ ni'.arp_timer = ni.arp_timer
              /\ ni'.pending = ni.pending
              /\ IPv4Of(frames) = <<>>
<1> DEFINE waiting == Waiting(ni, ip)
<1>1. /\ transmitted' = frames
      /\ asked' = asked
      /\ ni' = RecvFrame(ni, frame)
      /\ sent' = sent \o [i \in DOMAIN IPv4Of(frames) |-> IPv4Of(frames)[i].datagram]
  BY DEF CallRecv, Transmit
<1>2. /\ asked \in Seq(Hops) /\ Len(asked) \in Nat /\ sent \in Seq(Nat)
      /\ ni \in Interfaces(Len(asked))
  BY DEF InterfaceInv, HistoryInv, Consistent
<1>3. waiting \in Seq(1..Len(asked))
  <2>1. \A x \in DOMAIN ni.pending : ni.pending[x] \in Seq(1..Len(asked))
    BY <1>2, MapValue DEF Interfaces
  <2>2. CASE ip \in DOMAIN ni.pending
    BY <2>1, <2>2 DEF Waiting
  <2>3. CASE ip \notin DOMAIN ni.pending
    BY <2>3, EmptySeq DEF Waiting
  <2> QED BY <2>2, <2>3
<1>4. /\ AskedIn(frames) = {}
      /\ AddressedTo(ni, frame) /\ frame.type = "ARP" =>
           IPv4Of(frames) = [i \in 1..Len(waiting) |->
                               IPv4Frame(ni, frame.sender_mac, waiting[i])]
      /\ ~(AddressedTo(ni, frame) /\ frame.type = "ARP") => IPv4Of(frames) = <<>>
  BY <1>3, RecvTransmits
<1>5. CASE frame.type = "ARP" /\ AddressedTo(ni, frame)
  <2>1. ip \in Hops
    BY <1>5 DEF Frames, Hops
  <2>2. ni' = Learn(ni, ip, frame.sender_mac)
    BY <1>1, <1>5 DEF RecvFrame
  <2>3. /\ heard' = Put(heard, ip, [mac |-> frame.sender_mac, age |-> 0])
        /\ quiet' = [quiet EXCEPT ![ip] = ARP_RETRY_MS]
    BY <1>5 DEF CallRecv
  <2> HIDE DEF waiting
  <2>4. [i \in DOMAIN IPv4Of(frames) |-> IPv4Of(frames)[i].datagram] = waiting
    BY <1>3, <1>4, <1>5 DEF IPv4Frame
  <2>5. sent' = sent \o waiting
    BY <1>1, <2>4
  <2> QED BY <1>1, <1>3, <1>4, <1>5, <2>1, <2>2, <2>3, <2>5 DEF waiting
<1>6. CASE ~(frame.type = "ARP" /\ AddressedTo(ni, frame))
  <2>1. heard' = heard /\ quiet' = quiet
    BY <1>6 DEF CallRecv
  <2>2. sent' = sent
    BY <1>1, <1>2, <1>4, <1>6
  <2>3. /\ ni'.arp_cache = ni.arp_cache /\ ni'.arp_timer = ni.arp_timer
        /\ ni'.pending = ni.pending
    BY <1>1, <1>2, <1>6 DEF RecvFrame, Interfaces
  <2> QED BY <1>1, <1>4, <1>6, <2>1, <2>2, <2>3
<1> QED BY <1>5, <1>6

\* What a tick does and asks for.
LEMMA TickStep ==
  ASSUME InterfaceInv, HistoryInv, NEW ms \in Ticks, CallTick(ms)
  PROVE  /\ asked' = asked /\ sent' = sent
         /\ ni' = InterfaceTick(ni, ms)
         /\ IPv4Of(transmitted') = <<>>
         /\ AskedIn(transmitted') = Retries(ni, ms)
         /\ quiet' = [ip \in Hops |-> IF ip \in Retries(ni, ms) THEN 0
                                      ELSE Capped(quiet[ip] + ms, ARP_RETRY_MS)]
         /\ heard' = [ip \in {i \in DOMAIN heard : heard[i].age + ms < ARP_TTL_MS} |->
                        [heard[ip] EXCEPT !.age = @ + ms]]
<1>1. PICK frames \in SetToSeqs(InterfaceTickTransmits(ni, ms)) :
        /\ Transmit(frames)
        /\ quiet' = [ip \in Hops |-> IF ip \in AskedIn(frames) THEN 0
                                     ELSE Capped(quiet[ip] + ms, ARP_RETRY_MS)]
  BY DEF CallTick
<1>2. IPv4Of(frames) = <<>> /\ AskedIn(frames) = Retries(ni, ms)
  <2>1. IsFiniteSet(DOMAIN ni.arp_timer)
    BY DEF HistoryInv, Remembers
  <2> QED BY <2>1, TickTransmits
<1>3. transmitted' = frames
  BY <1>1 DEF Transmit
<1>4. sent' = sent
  BY <1>1, <1>2 DEF Transmit, HistoryInv
<1> QED BY <1>1, <1>2, <1>3, <1>4 DEF CallTick

\* A datagram that is taken changes nothing but the queue it is taken from.
LEMMA TakeStep ==
  ASSUME InterfaceInv, HistoryInv, Take
  PROVE  /\ asked' = asked /\ sent' = sent /\ heard' = heard /\ quiet' = quiet
         /\ ni'.arp_cache = ni.arp_cache /\ ni'.arp_timer = ni.arp_timer
         /\ ni'.pending = ni.pending
         /\ IPv4Of(transmitted') = <<>> /\ AskedIn(transmitted') = {}
<1>1. /\ transmitted' = <<>>
      /\ sent' = sent \o [i \in DOMAIN IPv4Of(<<>>) |-> IPv4Of(<<>>)[i].datagram]
      /\ ni' = [ni EXCEPT !.datagrams_in = Tail(@)]
      /\ asked' = asked /\ heard' = heard /\ quiet' = quiet
  BY DEF Take, Transmit
<1>2. ni \in Interfaces(Len(asked)) /\ sent \in Seq(Nat)
  BY DEF InterfaceInv, Consistent, HistoryInv
<1>3. sent' = sent
  BY <1>1, <1>2, NothingTransmitted
<1>4. /\ ni'.arp_cache = ni.arp_cache /\ ni'.arp_timer = ni.arp_timer
      /\ ni'.pending = ni.pending
  BY <1>1, <1>2 DEF Interfaces
<1> QED BY <1>1, <1>3, <1>4, NothingTransmitted

\* Every method keeps what the history says about the maps.
LEMMA HistoryPreserved == InterfaceInv /\ HistoryInv /\ [Next]_vars => HistoryInv'
<1> SUFFICES ASSUME InterfaceInv, HistoryInv, [Next]_vars PROVE HistoryInv'
  OBVIOUS
<1>1. /\ asked \in Seq(Hops) /\ Len(asked) \in Nat
      /\ ni \in Interfaces(Len(asked)) /\ BooksAgree(ni)
      /\ sent \in Seq(Nat) /\ Remembers(ni, asked, heard, quiet)
  BY DEF InterfaceInv, Consistent, HistoryInv
<1>2. ASSUME sent' \in Seq(Nat), Remembers(ni', asked', heard', quiet')
      PROVE  HistoryInv'
  BY <1>2 DEF HistoryInv, Remembers, QueuesAgree, CacheAgrees, TimersAgree
<1>3. ASSUME asked' = asked, heard' = heard, quiet' = quiet,
             ni'.arp_cache = ni.arp_cache, ni'.arp_timer = ni.arp_timer,
             ni'.pending = ni.pending
      PROVE  Remembers(ni', asked', heard', quiet')
  BY <1>1, <1>3 DEF Remembers, QueuesAgree, CacheAgrees, TimersAgree
<1>4. ASSUME NEW hop \in Hops, CallSend(hop)
      PROVE  HistoryInv'
  <2> DEFINE frames == SendDatagramTransmits(ni, Len(asked) + 1, hop)
             later  == [ip \in Hops |-> IF ip \in AskedIn(frames) THEN 0 ELSE quiet[ip]]
  <2>1. /\ asked' = Append(asked, hop) /\ heard' = heard /\ quiet' = later
        /\ ni' = SendDatagram(ni, Len(asked) + 1, hop)
        /\ sent' \in {sent, Append(sent, Len(asked) + 1)}
    BY <1>4, SendStep
  <2>2. Remembers(SendDatagram(ni, Len(asked) + 1, hop), Append(asked, hop), heard, later)
    BY <1>1, SendKeepsMemory
  <2> HIDE DEF later, frames
  <2>3. sent' \in Seq(Nat)
    <3>1. Append(sent, Len(asked) + 1) \in Seq(Nat)
      BY ONLY <1>1
    <3> QED BY <1>1, <2>1, <3>1
  <2> QED BY <1>2, <2>1, <2>2, <2>3
<1>5. ASSUME NEW frame \in Frames, CallRecv(frame)
      PROVE  HistoryInv'
  <2> DEFINE ip  == frame.sender_ip
             mac == frame.sender_mac
  <2>1. CASE frame.type = "ARP" /\ AddressedTo(ni, frame)
    <3>1. /\ asked' = asked /\ ip \in Hops /\ ni' = Learn(ni, ip, mac)
          /\ heard' = Put(heard, ip, [mac |-> mac, age |-> 0])
          /\ quiet' = [quiet EXCEPT ![ip] = ARP_RETRY_MS]
          /\ Waiting(ni, ip) \in Seq(1..Len(asked))
          /\ sent' = sent \o Waiting(ni, ip)
      BY <1>5, <2>1, RecvStep
    <3> HIDE DEF ip, mac
    <3>2. Remembers(ni', asked', heard', quiet')
      BY <1>1, <3>1, LearnKeepsMemory
    <3>3. sent' \in Seq(Nat)
      <4>1. 1..Len(asked) \subseteq Nat
        BY <1>1
      <4>2. Waiting(ni, ip) \in Seq(Nat)
        BY <3>1, <4>1, SeqMonotonic, Zenon
      <4> QED BY <1>1, <3>1, <4>2
    <3> QED BY <1>2, <3>2, <3>3
  <2>2. CASE ~(frame.type = "ARP" /\ AddressedTo(ni, frame))
    <3>1. /\ asked' = asked /\ heard' = heard /\ quiet' = quiet /\ sent' = sent
          /\ ni'.arp_cache = ni.arp_cache /\ ni'.arp_timer = ni.arp_timer
          /\ ni'.pending = ni.pending
      BY <1>5, <2>2, RecvStep
    <3> QED BY <1>1, <1>2, <1>3, <3>1
  <2> QED BY <2>1, <2>2
<1>6. CASE Take
  BY <1>1, <1>2, <1>3, <1>6, TakeStep
<1>7. ASSUME NEW ms \in Ticks, CallTick(ms)
      PROVE  HistoryInv'
  <2> DEFINE news  == [ip \in {i \in DOMAIN heard : heard[i].age + ms < ARP_TTL_MS} |->
                         [heard[ip] EXCEPT !.age = @ + ms]]
             later == [ip \in Hops |-> IF ip \in Retries(ni, ms) THEN 0
                                       ELSE Capped(quiet[ip] + ms, ARP_RETRY_MS)]
  <2>1. /\ asked' = asked /\ sent' = sent /\ ni' = InterfaceTick(ni, ms)
        /\ heard' = news /\ quiet' = later
    BY <1>7, TickStep
  <2>2. ms \in Nat
    BY InterfaceAssumption
  <2>3. Remembers(InterfaceTick(ni, ms), asked, news, later)
    BY <1>1, <2>2, TickKeepsMemory
  <2> HIDE DEF news, later
  <2> QED BY <1>1, <1>2, <2>1, <2>3
<1>8. CASE UNCHANGED vars
  BY <1>1, <1>2, <1>8 DEF vars, history
<1> QED BY <1>4, <1>5, <1>6, <1>7, <1>8 DEF Next

\* Both invariants, together.
LEMMA HistoryInvariant == Spec => [](InterfaceInv /\ HistoryInv)
<1>1. Init => InterfaceInv /\ HistoryInv
  BY InitImplies, InitRemembers
<1>2. (InterfaceInv /\ HistoryInv) /\ [Next]_vars => (InterfaceInv /\ HistoryInv)'
  BY NextPreserves, HistoryPreserved
<1> QED BY <1>1, <1>2, PTL DEF Spec

\* An address is asked for again only ARP_RETRY_MS after the last time, unless
\* an answer came in between (NetworkInterface::send_datagram and tick).
THEOREM RequestsSpaced == Spec => RequestsAreSpaced
<1> DEFINE Spaced == \A ip \in AskedIn(transmitted') :
                       \E ms \in Ticks \union {0} :
                         /\ quiet[ip] + ms >= ARP_RETRY_MS
                         /\ ms > 0 => CallTick(ms)
<1>1. ASSUME InterfaceInv, HistoryInv, Next
      PROVE  Spaced
  <2>1. /\ BooksAgree(ni) /\ TimersAgree(ni, quiet)
        /\ \A ip \in DOMAIN ni.arp_timer : ip \in Hops /\ ni.arp_timer[ip] \in Nat
    BY <1>1, MapValue DEF InterfaceInv, Consistent, Interfaces, HistoryInv, Remembers
  <2>2. ASSUME NEW hop \in Hops, CallSend(hop), NEW ip \in AskedIn(transmitted')
        PROVE  quiet[ip] + 0 >= ARP_RETRY_MS
    <3>1. ip \in AskedIn(SendDatagramTransmits(ni, Len(asked) + 1, hop))
      BY <1>1, <2>2, SendStep
    <3>2. ip = hop /\ MayAsk(ni, hop)
      BY <3>1, SendTransmits
    <3>3. hop \notin DOMAIN ni.arp_timer
      BY <2>1, <3>2, ARPAssumption DEF MayAsk, BooksAgree
    <3>4. quiet[ip] = ARP_RETRY_MS
      BY <2>1, <2>2, <3>2, <3>3 DEF TimersAgree
    <3> QED BY <3>4, ARPAssumption
  <2>3. ASSUME NEW frame \in Frames, CallRecv(frame)
        PROVE  AskedIn(transmitted') = {}
    BY <1>1, <2>3, RecvStep
  <2>4. CASE Take
    BY <1>1, <2>4, TakeStep
  <2>5. ASSUME NEW ms \in Ticks, CallTick(ms), NEW ip \in AskedIn(transmitted')
        PROVE  quiet[ip] + ms >= ARP_RETRY_MS
    <3>1. ip \in Retries(ni, ms)
      BY <1>1, <2>5, TickStep
    <3>2. /\ ip \in DOMAIN ni.arp_timer /\ ip \in Hops
          /\ ni.arp_timer[ip] + ms >= ARP_RETRY_MS
      BY <2>1, <3>1 DEF Retries
    <3>3. quiet[ip] = ni.arp_timer[ip]
      BY <2>1, <3>2 DEF TimersAgree
    <3> QED BY <3>2, <3>3
  <2>6. CASE \E hop \in Hops : CallSend(hop)
    <3>1. 0 \in Ticks \union {0} /\ ~(0 > 0)
      OBVIOUS
    <3> QED BY <2>2, <2>6, <3>1
  <2>7. CASE \E frame \in Frames : CallRecv(frame)
    BY <2>3, <2>7
  <2>8. CASE \E ms \in Ticks : CallTick(ms)
    BY <2>5, <2>8
  <2> QED BY <1>1, <2>4, <2>6, <2>7, <2>8 DEF Next
<1>2. (InterfaceInv /\ HistoryInv) /\ [Next]_vars => [Spaced]_vars
  BY <1>1
<1> QED BY <1>2, HistoryInvariant, PTL DEF Spec, RequestsAreSpaced

\* A datagram goes to the hardware address that was heard last for its next hop,
\* and lately (NetworkInterface::send_datagram, recv_frame and tick).
THEOREM AddressesFresh == Spec => AddressIsFresh
<1> DEFINE Fresh == \A i \in DOMAIN IPv4Of(transmitted') :
                      LET frame == IPv4Of(transmitted')[i]
                          hop   == asked'[frame.datagram]
                      IN  hop \in DOMAIN heard' /\ heard'[hop].mac = frame.dst
<1>1. ASSUME InterfaceInv, HistoryInv, Next
      PROVE  Fresh
  <2>1. /\ CacheAgrees(ni, heard) /\ QueuesAgree(ni, asked)
    BY <1>1 DEF HistoryInv, Remembers
  <2>2. ASSUME NEW hop \in Hops, CallSend(hop)
        PROVE  Fresh
    <3>1. CASE hop \in DOMAIN ni.arp_cache
      <4> DEFINE f == IPv4Frame(ni, ni.arp_cache[hop].mac, Len(asked) + 1)
      <4>1. f.datagram = Len(asked) + 1 /\ f.dst = ni.arp_cache[hop].mac
        BY DEF IPv4Frame
      <4>2. /\ IPv4Of(transmitted') = <<f>>
            /\ asked'[Len(asked) + 1] = hop /\ heard' = heard
        BY <1>1, <2>2, <3>1, SendStep
      <4>3. hop \in DOMAIN heard /\ heard[hop].mac = ni.arp_cache[hop].mac
        <5>1. /\ hop \in DOMAIN heard
              /\ heard[hop] = [mac |-> ni.arp_cache[hop].mac,
                               age |-> ARP_TTL_MS - ni.arp_cache[hop].ttl_ms]
          BY ONLY <2>1, <3>1 DEF CacheAgrees
        <5> QED BY ONLY <5>1
      <4> HIDE DEF f
      <4>4. \A i \in DOMAIN <<f>> : <<f>>[i] = f
        OBVIOUS
      <4> QED BY <4>1, <4>2, <4>3, <4>4
    <3>2. CASE hop \notin DOMAIN ni.arp_cache
      BY <1>1, <2>2, <3>2, SendStep
    <3> QED BY <3>1, <3>2
  <2>3. ASSUME NEW frame \in Frames, CallRecv(frame)
        PROVE  Fresh
    <3> DEFINE ip      == frame.sender_ip
               mac     == frame.sender_mac
               waiting == Waiting(ni, ip)
    <3>1. CASE frame.type = "ARP" /\ AddressedTo(ni, frame)
      <4>1. /\ asked' = asked
            /\ heard' = Put(heard, ip, [mac |-> mac, age |-> 0])
            /\ IPv4Of(transmitted') =
                 [i \in 1..Len(waiting) |-> IPv4Frame(ni, mac, waiting[i])]
            /\ waiting \in Seq(1..Len(asked))
        BY <1>1, <2>3, <3>1, RecvStep
      <4>2. ip \in DOMAIN heard' /\ heard'[ip].mac = mac
        BY <4>1 DEF Put
      <4>3. \A i \in 1..Len(waiting) : asked[waiting[i]] = ip
        <5>1. CASE ip \in DOMAIN ni.pending
          BY <2>1, <4>1, <5>1 DEF QueuesAgree, Waiting
        <5>2. CASE ip \notin DOMAIN ni.pending
          BY <5>2 DEF Waiting
        <5> QED BY <5>1, <5>2
      <4> HIDE DEF ip, mac, waiting
      <4> QED BY <4>1, <4>2, <4>3 DEF IPv4Frame
    <3>2. CASE ~(frame.type = "ARP" /\ AddressedTo(ni, frame))
      <4>1. IPv4Of(transmitted') = <<>>
        BY <1>1, <2>3, <3>2, RecvStep
      <4> QED BY <4>1
    <3> QED BY <3>1, <3>2
  <2>4. CASE Take
    BY <1>1, <2>4, TakeStep
  <2>5. ASSUME NEW ms \in Ticks, CallTick(ms)
        PROVE  Fresh
    <3>1. IPv4Of(transmitted') = <<>>
      BY <1>1, <2>5, TickStep
    <3> QED BY <3>1
  <2> QED BY <1>1, <2>2, <2>3, <2>4, <2>5 DEF Next
<1>2. (InterfaceInv /\ HistoryInv) /\ [Next]_vars => [Fresh]_vars
  BY <1>1
<1> QED BY <1>2, HistoryInvariant, PTL DEF Spec, AddressIsFresh

\* The datagrams of a next hop go out in their order, each at most once, and
\* one that is dropped never does (NetworkInterface implements
\* DatagramDelivery).
THEOREM InOrderDelivery == Spec => DeliversInOrder
<1> DEFINE queues == [h \in Hops |-> Waiting(ni, h)]
<1>1. Init => Delivery!Init
  <2> SUFFICES ASSUME Init PROVE Delivery!Init
    OBVIOUS
  <2>1. /\ asked = <<>> /\ sent = <<>> /\ Len(asked) = 0
        /\ DOMAIN ni.pending = {}
    BY DEF Init, NewInterface, NoEntries
  <2>2. queues = [h \in Hops |-> <<>>]
    BY <2>1 DEF Waiting
  <2> QED BY <2>1, <2>2 DEF Delivery!Init
<1>2. ASSUME InterfaceInv, HistoryInv, Next
      PROVE  Delivery!Next \/ UNCHANGED Delivery!vars
  <2>1. /\ asked \in Seq(Hops) /\ Len(asked) \in Nat
        /\ BooksAgree(ni) /\ sent \in Seq(Nat) /\ ni \in Interfaces(Len(asked))
    BY <1>2 DEF InterfaceInv, Consistent, HistoryInv
  <2>2. ASSUME Len(asked') = Len(asked), sent' = sent, ni'.pending = ni.pending
        PROVE  UNCHANGED Delivery!vars
    BY <2>2 DEF Delivery!vars, Waiting
  <2>3. ASSUME NEW hop \in Hops, CallSend(hop)
        PROVE  Delivery!Next
    <3>1. /\ Len(asked') = Len(asked) + 1
          /\ ni' = SendDatagram(ni, Len(asked) + 1, hop)
      BY <1>2, <2>3, SendStep
    <3>2. CASE hop \in DOMAIN ni.arp_cache
      <4>1. Waiting(ni, hop) = <<>>
        BY <2>1, <3>2 DEF BooksAgree, Waiting
      <4>2. ni' = ni
        BY <3>1, <3>2 DEF SendDatagram
      <4>3. sent' = Append(sent, Len(asked) + 1)
        BY <1>2, <2>3, <3>2, SendStep
      <4>4. Delivery!SendAtOnce(hop)
        BY <3>1, <4>1, <4>2, <4>3 DEF Delivery!SendAtOnce
      <4> QED BY <4>4 DEF Delivery!Next
    <3>3. CASE hop \notin DOMAIN ni.arp_cache
      <4> DEFINE queue == Append(Waiting(ni, hop), Len(asked) + 1)
      <4>1. ni'.pending = Put(ni.pending, hop, queue)
        BY <2>1, <3>1, <3>3 DEF SendDatagram, Interfaces
      <4>2. sent' = sent
        BY <1>2, <2>3, <3>3, SendStep
      <4> HIDE DEF queue
      <4>3. queues' = [queues EXCEPT ![hop] = queue]
        BY <4>1 DEF Waiting, Put
      <4>4. queue = Append(queues[hop], Len(asked) + 1)
        BY DEF queue
      <4>5. Delivery!Wait(hop)
        BY <3>1, <4>2, <4>3, <4>4 DEF Delivery!Wait
      <4> QED BY <4>5 DEF Delivery!Next
    <3> QED BY <3>2, <3>3
  <2>4. ASSUME NEW frame \in Frames, CallRecv(frame)
        PROVE  Delivery!Next \/ UNCHANGED Delivery!vars
    <3> DEFINE ip == frame.sender_ip
    <3>1. CASE frame.type = "ARP" /\ AddressedTo(ni, frame)
      <4>1. /\ asked' = asked /\ ip \in Hops
            /\ ni' = Learn(ni, ip, frame.sender_mac)
            /\ sent' = sent \o Waiting(ni, ip)
        BY <1>2, <2>4, <3>1, RecvStep
      <4>2. ni'.pending = Restrict(ni.pending, DOMAIN ni.pending \ {ip})
        BY <2>1, <4>1 DEF Learn, Interfaces
      <4> HIDE DEF ip
      <4>3. queues' = [queues EXCEPT ![ip] = <<>>]
        BY <4>2 DEF Waiting, Restrict
      <4>4. Delivery!Release(ip)
        BY <4>1, <4>3 DEF Delivery!Release
      <4> QED BY <4>1, <4>4 DEF Delivery!Next
    <3>2. CASE ~(frame.type = "ARP" /\ AddressedTo(ni, frame))
      BY <1>2, <2>2, <2>4, <3>2, RecvStep
    <3> QED BY <3>1, <3>2
  <2>5. CASE Take
    BY <1>2, <2>2, <2>5, TakeStep
  <2>6. ASSUME NEW ms \in Ticks, CallTick(ms)
        PROVE  Delivery!Next
    <3> DEFINE again == Retries(ni, ms)
    <3>1. asked' = asked /\ sent' = sent /\ ni' = InterfaceTick(ni, ms)
      BY <1>2, <2>6, TickStep
    <3>2. ni'.pending = [ip \in DOMAIN ni.pending |->
                           IF ip \in again THEN <<>> ELSE ni.pending[ip]]
      BY <2>1, <3>1 DEF InterfaceTick, Interfaces
    <3>3. again \in SUBSET Hops
      <4>1. DOMAIN ni.arp_timer \subseteq Hops
        BY <2>1, MapValue DEF Interfaces
      <4> QED BY <4>1 DEF Retries
    <3> HIDE DEF again
    <3>4. queues' = [h \in Hops |-> IF h \in again THEN <<>> ELSE queues[h]]
      BY <3>2 DEF Waiting
    <3>5. Delivery!Discard(again)
      BY <3>1, <3>4 DEF Delivery!Discard
    <3> QED BY <3>3, <3>5 DEF Delivery!Next
  <2> QED BY <1>2, <2>3, <2>4, <2>5, <2>6 DEF Next
<1>3. ASSUME UNCHANGED vars
      PROVE  UNCHANGED Delivery!vars
  BY <1>3 DEF vars, history, Delivery!vars, Waiting
<1>4. (InterfaceInv /\ HistoryInv) /\ [Next]_vars => [Delivery!Next]_(Delivery!vars)
  BY <1>2, <1>3
<1> QED BY <1>1, <1>4, HistoryInvariant, PTL DEF Spec, DeliversInOrder, Delivery!DeliverySpec
=============================================================================
