-------------------------- MODULE DatagramDelivery --------------------------
(* What a network interface promises for the datagrams it is given: each    *)
(* goes out at most once, those for the same next hop go out in the order   *)
(* in which they came, and one that is dropped never goes out.  Datagrams   *)
(* are numbered as they come.                                               *)
EXTENDS Naturals, Sequences

CONSTANT Hops

VARIABLES
  accepted,   \* how many datagrams came
  waiting,    \* those that wait, for each next hop
  sent        \* those that went out, in order

vars == << accepted, waiting, sent >>

Init ==
  /\ accepted = 0
  /\ waiting = [h \in Hops |-> <<>>]
  /\ sent = <<>>

\* A datagram goes out at once, unless others wait for the same hop, ...
SendAtOnce(h) ==
  /\ waiting[h] = <<>>
  /\ accepted' = accepted + 1
  /\ sent' = Append(sent, accepted + 1)
  /\ waiting' = waiting

\* ... or waits behind them.
Wait(h) ==
  /\ accepted' = accepted + 1
  /\ waiting' = [waiting EXCEPT ![h] = Append(@, accepted + 1)]
  /\ sent' = sent

\* All that waits for a next hop goes out together, ...
Release(h) ==
  /\ sent' = sent \o waiting[h]
  /\ waiting' = [waiting EXCEPT ![h] = <<>>]
  /\ accepted' = accepted

\* ... or is dropped, for any number of next hops at a time.
Discard(some) ==
  /\ waiting' = [h \in Hops |-> IF h \in some THEN <<>> ELSE waiting[h]]
  /\ UNCHANGED << accepted, sent >>

Next ==
  \/ \E h \in Hops : SendAtOnce(h) \/ Wait(h) \/ Release(h)
  \/ \E some \in SUBSET Hops : Discard(some)

DeliverySpec == Init /\ [][Next]_vars
=============================================================================
