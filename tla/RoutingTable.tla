---------------------------- MODULE RoutingTable ----------------------------
(* The routing table of one router, to which any routes are added, against  *)
(* what longest-prefix match means bit by bit.                              *)
EXTENDS Router

CONSTANT MaxRoutes   \* bound: length of the table

ASSUME TableAssumption == MaxRoutes \in Nat

VARIABLE router

Routes ==
  [route_prefix : Addresses, prefix_length : 0..WIDTH, next_hop : {Direct},
   interface_num : {0}]

table == router.routing_table

TableInit == router = NewRouter(<<>>)

TableNext ==
  /\ Len(table) < MaxRoutes
  /\ \E route \in Routes : router' = AddRoute(router, route)

TableSpec == TableInit /\ [][TableNext]_router

-----------------------------------------------------------------------------
\* Bit i of an address, counted from the most significant.
Bit(address, i) == (address \div Power2(WIDTH - i)) % 2

Agrees(route, dst) ==
  \A i \in 1..route.prefix_length : Bit(dst, i) = Bit(route.route_prefix, i)

\* The match agrees with the address in all bits of its prefix, every other
\* route that does has a prefix no longer, and of equals the oldest is taken;
\* without a match no route agrees.
LongestPrefixWins ==
  \A dst \in Addresses :
    LET best     == BestMatch(table, dst)
        agreeing == {k \in DOMAIN table : Agrees(table[k], dst)}
    IN  IF agreeing = {} THEN best = 0
        ELSE /\ best \in agreeing
             /\ \A k \in agreeing :
                  \/ table[k].prefix_length < table[best].prefix_length
                  \/ table[k].prefix_length = table[best].prefix_length /\ best <= k
=============================================================================
