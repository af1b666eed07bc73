------------------------------ MODULE Internet ------------------------------
(* Hosts and routers on Ethernet segments, as the network of                *)
(* src/tests/router.cc puts them together: every interface is one of        *)
(* NetworkInterface, named by its hardware address.  A host has one         *)
(* interface and sends everything to its gateway.  A segment carries its    *)
(* frames in order to all its other interfaces.                             *)
EXTENDS Router

CONSTANTS
  IpAddress,      \* of each interface
  Segments,       \* a set
  Connections,    \* the interfaces on each segment
  Gateways,       \* the next hop of each host
  Interfaces,     \* those of each router, in order
  RoutePlan,      \* the routes of each router, in the order they are added
  Senders,        \* bound: hosts that send
  Destinations,   \* addresses that they send to
  Lifetimes,      \* TTLs they give to a datagram
  TickMs,         \* milliseconds between two calls of tick()
  Faulty,         \* whether frames are lost and time passes
  MaxLaunched,    \* bound: datagrams
  WireCapacity    \* bound: frames on a segment; those that come then are lost

Nics == DOMAIN IpAddress
Hosts == DOMAIN Gateways
Routers == DOMAIN Interfaces

HostAddresses == {IpAddress[h] : h \in Hosts}

ASSUME InternetAssumption ==
  /\ IpAddress \in [Nics -> Addresses] /\ IsInjective(IpAddress)
  /\ ETHERNET_BROADCAST \notin Nics
  /\ \A s \in Segments : Connections[s] \in Seq(Nics) /\ IsInjective(Connections[s])
  /\ \A n \in Nics : \E s \in Segments : n \in ToSet(Connections[s])
  /\ Hosts \subseteq Nics /\ Senders \subseteq Hosts
  /\ Destinations \subseteq Addresses /\ Lifetimes \subseteq 0..255
  /\ \A r \in Routers : Interfaces[r] \in Seq(Nics \ Hosts) /\ IsInjective(Interfaces[r])
  /\ TickMs \in Nat
  /\ Faulty \in BOOLEAN /\ MaxLaunched \in Nat /\ WireCapacity \in Nat \ {0}

\* No two routers share an interface.  (The test makes each interface as it adds
\* it, and keeps no other pointer to it.)
ASSUME OwnersAssumption ==
  \A q, r \in Routers :
    q # r => ToSet(Interfaces[q]) \intersect ToSet(Interfaces[r]) = {}

\* Routes lead to interfaces of their router, and nothing is routed through a
\* host.  (Router checks neither: it is up to those who call add_route().)
RoutesOf(r) ==
  [route_prefix : Addresses, prefix_length : 0..WIDTH,
   next_hop : {Direct} \union (Addresses \ HostAddresses),
   interface_num : 0..(Len(Interfaces[r]) - 1)]

ASSUME RoutesAssumption ==
  /\ \A h \in Hosts : Gateways[h] \in Addresses \ HostAddresses
  /\ \A r \in Routers : RoutePlan[r] \in Seq(RoutesOf(r))

VARIABLES
  nics,       \* the NetworkInterface of each name
  routers,    \* the Router of each name
  wires,      \* on each segment the frames in flight, with who sent them
  launched,   \* history: the datagrams that hosts sent
  received    \* history: the datagrams that hosts took, with the host

vars == << nics, routers, wires, launched, received >>

SegmentOf(n) == CHOOSE s \in Segments : n \in ToSet(Connections[s])

SentBy(n, frames) == [k \in DOMAIN frames |-> << n, frames[k] >>]

Clipped(wire) == IF Len(wire) <= WireCapacity THEN wire ELSE SubSeq(wire, 1, WireCapacity)

\* Frames go to the segment of the interface that transmits them.
Carry(ws, frames) ==
  [s \in Segments |->
     Clipped(ws[s] \o Selected(frames, {f \in ToSet(frames) : SegmentOf(f[1]) = s}))]

Init ==
  /\ nics = [n \in Nics |-> NewInterface(n, IpAddress[n])]
  /\ routers = [r \in Routers |-> NewRouter(Interfaces[r])]
  /\ wires = [s \in Segments |-> <<>>]
  /\ launched = <<>> /\ received = <<>>

\* The next route of the plan is added.
Configure(r) ==
  LET k == Len(routers[r].routing_table) + 1
  IN  /\ k \in DOMAIN RoutePlan[r]
      /\ routers' = [routers EXCEPT ![r] = AddRoute(@, RoutePlan[r][k])]
      /\ UNCHANGED << nics, wires, launched, received >>

Configured == \A r \in Routers : routers[r].routing_table = RoutePlan[r]

\* A host sends a datagram.
Launch(h, dst, ttl) ==
  /\ Len(launched) < MaxLaunched
  /\ LET datagram == [id |-> Len(launched) + 1, dst |-> dst, ttl |-> ttl]
         frames   == SendDatagramTransmits(nics[h], datagram, Gateways[h])
     IN  /\ nics' = [nics EXCEPT ![h] = SendDatagram(@, datagram, Gateways[h])]
         /\ wires' = Carry(wires, SentBy(h, frames))
         /\ launched' = Append(launched, [src |-> h, dst |-> dst, ttl |-> ttl,
                                          routed |-> Configured])
  /\ UNCHANGED << routers, received >>

\* A router routes all that has arrived.
RouteAll(r) ==
  /\ Arrived(routers[r], nics) # <<>>
  /\ LET result == Route(routers[r], nics)
     IN  /\ nics' = result.nics
         /\ wires' = Carry(wires, result.frames)
  /\ UNCHANGED << routers, launched, received >>

\* The first frame in flight gets to the other interfaces, one after another.
Arrive(s) ==
  /\ wires[s] # <<>>
  /\ LET sender == Head(wires[s])[1]
         frame  == Head(wires[s])[2]
         others == Selected(Connections[s], Nics \ {sender})
         out    == [k \in DOMAIN others |->
                      SentBy(others[k], RecvFrameTransmits(nics[others[k]], frame))]
     IN  /\ nics' = [n \in Nics |-> IF n \in ToSet(others)
                                    THEN RecvFrame(nics[n], frame) ELSE nics[n]]
         /\ wires' = Carry([wires EXCEPT ![s] = Tail(@)], FlattenSeq(out))
  /\ UNCHANGED << routers, launched, received >>

\* The first frame in flight is lost.
Lose(s) ==
  /\ Faulty
  /\ wires[s] # <<>>
  /\ wires' = [wires EXCEPT ![s] = Tail(@)]
  /\ UNCHANGED << nics, routers, launched, received >>

\* A host takes a datagram.
Take(h) ==
  /\ nics[h].datagrams_in # <<>>
  /\ received' = Append(received, [host |-> h, datagram |-> Head(nics[h].datagrams_in)])
  /\ nics' = [nics EXCEPT ![h].datagrams_in = Tail(@)]
  /\ UNCHANGED << routers, wires, launched >>

Tick(n) ==
  /\ Faulty
  /\ nics' = [nics EXCEPT ![n] = InterfaceTick(@, TickMs)]
  /\ \E frames \in SetToSeqs(InterfaceTickTransmits(nics[n], TickMs)) :
       wires' = Carry(wires, SentBy(n, frames))
  /\ UNCHANGED << routers, launched, received >>

Next ==
  \/ \E r \in Routers : Configure(r) \/ RouteAll(r)
  \/ \E h \in Hosts : Take(h)
  \/ \E h \in Senders, dst \in Destinations, ttl \in Lifetimes : Launch(h, dst, ttl)
  \/ \E s \in Segments : Arrive(s) \/ Lose(s)
  \/ \E n \in Nics : Tick(n)

Spec == Init /\ [][Next]_vars

\* What has arrived is routed and taken, and segments carry their frames (if
\* only to lose them).  (Weak fairness of each action, spelled out: TLC
\* evaluates ENABLED of a large action slowly.)
Fairness ==
  /\ \A r \in Routers :
       []<>(Arrived(routers[r], nics) = <<>>) \/ []<><<RouteAll(r)>>_vars
  /\ \A h \in Hosts :
       []<>(nics[h].datagrams_in = <<>>) \/ []<><<Take(h)>>_vars
  /\ \A s \in Segments :
       []<>(wires[s] = <<>>) \/ []<><<Arrive(s) \/ Lose(s)>>_vars

FairSpec == Spec /\ Fairness

-----------------------------------------------------------------------------
\* Where copies of datagram id are.
InFlight(id) ==
  {p \in Segments \X (1..WireCapacity) :
     /\ p[2] \in DOMAIN wires[p[1]]
     /\ LET frame == wires[p[1]][p[2]][2]
        IN  frame.type = "IPv4" /\ frame.datagram.id = id}
InQueue(id) ==
  {p \in Nics \X (1..MaxLaunched) :
     LET queue == nics[p[1]].datagrams_in
     IN  p[2] \in DOMAIN queue /\ queue[p[2]].id = id}
WaitingAt(id) ==
  {p \in Nics \X Addresses \X (1..MaxLaunched) :
     LET queue == Waiting(nics[p[1]], p[2])
     IN  p[3] \in DOMAIN queue /\ queue[p[3]].id = id}
ReceivedAt(id) == {k \in DOMAIN received : received[k].datagram.id = id}

\* A datagram is at one place at most: no step of any interface or router
\* duplicates it, whatever is lost, answered late or expires meanwhile.
AtMostOneCopy ==
  \A id \in DOMAIN launched :
    Cardinality(InFlight(id)) + Cardinality(InQueue(id))
      + Cardinality(WaitingAt(id)) + Cardinality(ReceivedAt(id)) <= 1

\* What a host receives is addressed to it, even while routes are being added.
OnlyTheAddresseeReceives ==
  \A n \in Hosts : \A k \in DOMAIN nics[n].datagrams_in :
    nics[n].datagrams_in[k].dst = IpAddress[n]

\* Once the routers are configured, datagrams of one host to another are
\* received in the order in which they were sent, if at all.
ReceivedInOrder ==
  \A i, j \in DOMAIN received :
    LET earlier == received[i].datagram.id
        later   == received[j].datagram.id
    IN  /\ i < j
        /\ received[i].host = received[j].host
        /\ launched[earlier].src = launched[later].src
        /\ launched[earlier].routed /\ launched[later].routed
        => earlier < later

\* Every datagram to a host or to nobody's network leaves the network, also one
\* that routes send in circles.
EverythingSettles ==
  \A id \in 1..MaxLaunched :
    id \in DOMAIN launched
      ~> InFlight(id) = {} /\ InQueue(id) = {} /\ WaitingAt(id) = {}

\* Without faults, a datagram that may live long enough gets to the host to
\* which it is addressed.
ReachesTheAddressee ==
  \A id \in 1..MaxLaunched :
    /\ id \in DOMAIN launched
    /\ launched[id].routed
    /\ launched[id].ttl > Cardinality(Routers)
    /\ launched[id].dst \in {IpAddress[h] : h \in Hosts}
    ~> ReceivedAt(id) # {}
=============================================================================
