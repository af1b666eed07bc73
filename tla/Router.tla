------------------------------- MODULE Router -------------------------------
(* The IP router (src/src/router.cc): a routing table and a list of         *)
(* interfaces.  Addresses are numbers of WIDTH bits.                        *)
EXTENDS NetworkInterface

CONSTANTS
  WIDTH,    \* bits of an address: 32
  Direct    \* the next hop of a route to a network that is attached

ASSUME WidthAssumption == WIDTH \in Nat \ {0}

Addresses == 0..(Power2(WIDTH) - 1)

NewRouter(interfaces) == [interfaces |-> interfaces, routing_table |-> <<>>]

AddRoute(rt, route) == [rt EXCEPT !.routing_table = Append(@, route)]

-----------------------------------------------------------------------------
(* Longest-prefix match: the loop of route().  0 stands for no match.       *)

\* The len most significant bits.
Masked(address, len) ==
  IF len = 0 THEN 0 ELSE address \div Power2(WIDTH - len)

Covers(route, dst) ==
  Masked(dst, route.prefix_length) = Masked(route.route_prefix, route.prefix_length)

\* Mutants of IsBetter: the last of equals, and the first that matches.
IsBetterOrEqual(table, i, best) ==
  best = 0 \/ table[i].prefix_length >= table[best].prefix_length
IsBetterNever(table, i, best) == best = 0

IsBetter(table, i, best) ==
  best = 0 \/ table[i].prefix_length > table[best].prefix_length

BestMatch(table, dst) ==
  LET best[i \in 0..Len(table)] ==
        IF i = 0 THEN 0
        ELSE IF Covers(table[i], dst) /\ IsBetter(table, i, best[i - 1]) THEN i
        ELSE best[i - 1]
  IN  best[Len(table)]

-----------------------------------------------------------------------------
(* route().  A result has the interfaces and what they transmit, in order.  *)

Survives(datagram) == datagram.ttl > 1

\* Mutant of Older: the TTL stays.
OlderNot(datagram) == datagram

Older(datagram) == [datagram EXCEPT !.ttl = @ - 1]

NextHop(route, datagram) ==
  IF route.next_hop = Direct THEN datagram.dst ELSE route.next_hop

Forward(rt, result, datagram) ==
  LET best == BestMatch(rt.routing_table, datagram.dst)
  IN  IF ~Survives(datagram) \/ best = 0 THEN result
      ELSE LET route == rt.routing_table[best]
               i     == rt.interfaces[route.interface_num + 1]
               hop   == NextHop(route, datagram)
               n     == result.nics[i]
               out   == SendDatagramTransmits(n, Older(datagram), hop)
           IN  [nics   |-> [result.nics EXCEPT ![i] = SendDatagram(@, Older(datagram), hop)],
                frames |-> result.frames \o [k \in DOMAIN out |-> << i, out[k] >>]]

\* What has arrived on all interfaces, in the order in which it is routed.
Arrived(rt, nics) ==
  FlattenSeq([k \in DOMAIN rt.interfaces |-> nics[rt.interfaces[k]].datagrams_in])

\* The queues of the interfaces are emptied before anything is routed.
Emptied(rt, nics) ==
  [nics   |-> [i \in DOMAIN nics |->
                 IF i \in ToSet(rt.interfaces)
                   THEN [nics[i] EXCEPT !.datagrams_in = <<>>] ELSE nics[i]],
   frames |-> <<>>]

Route(rt, nics) ==
  LET arrived == Arrived(rt, nics)
      result[k \in 0..Len(arrived)] ==
        IF k = 0 THEN Emptied(rt, nics) ELSE Forward(rt, result[k - 1], arrived[k])
  IN  result[Len(arrived)]
=============================================================================
