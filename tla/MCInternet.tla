----------------------------- MODULE MCInternet -----------------------------
(* Model-checking instance of Internet: host a -- router r -- router s --   *)
(* host b, with addresses of four bits.  The left segment has the addresses *)
(* 00xx, the middle 01xx, the right 10xx; nobody has 11xx, for which the    *)
(* default routes of the routers point at each other.                       *)
EXTENDS Internet, TLC

CONSTANTS a, b, r, s, ra, rm, sm, sb, left, middle, right

MCIpAddress ==
  a :> 1 @@ ra :> 2 @@ rm :> 4 @@ sm :> 5 @@ sb :> 8 @@ b :> 9

MCSegments == {left, middle, right}
MCConnections ==
  left :> << a, ra >> @@ middle :> << rm, sm >> @@ right :> << sb, b >>

MCGateways == a :> 2 @@ b :> 8
OnlyA == {a}
MCInterfaces == r :> << ra, rm >> @@ s :> << sm, sb >>

Default(gateway, i) ==
  [route_prefix |-> 0, prefix_length |-> 0, next_hop |-> gateway, interface_num |-> i]
Network(prefix, i) ==
  [route_prefix |-> prefix, prefix_length |-> 2, next_hop |-> Direct, interface_num |-> i]

MCRoutePlan ==
  r :> << Default(5, 1), Network(0, 0) >> @@ s :> << Default(4, 0), Network(8, 1) >>

BothHosts == {a, b}

\* b, and an address that nobody has, on its segment.
ToTheRight == {9, 11}
\* Both hosts, and an address that is routed in circles.
HostsAndNowhere == {1, 9, 12}
=============================================================================
