--------------------------- MODULE TCPConnection ----------------------------
(* Two TCPPeers, each run by the event loop of a TCPMinnowSocket            *)
(* (src/util/tcp_minnow_socket_impl.hh), over one of two networks.  The     *)
(* first keeps every message ever sent, to be received any number of times, *)
(* in any order, or never: loss, duplication and reordering without bound.  *)
(* The second holds one message for each peer, which the next one replaces: *)
(* it forgets, so that fairness can speak of what is sent again and again.  *)
EXTENDS TCPPeer

CONSTANTS
  Peers,          \* the two endpoints
  Openers,        \* those that call connect(); the others listen
  Isn,            \* initial sequence number of each
  SendCapacity,   \* TCPConfig::send_capacity
  RecvCapacity,   \* TCPConfig::recv_capacity
  Keeps,          \* which network: TRUE for the first
  Ticks,          \* milliseconds between two turns of the event loop
  MaxBytes,       \* bound: bytes each application writes
  Closers,        \* bound: those whose application ends its stream
  MaxRetx         \* bound: consecutive retransmissions explored

ASSUME ConnectionAssumption ==
  /\ \E a, b \in Peers : a # b /\ Peers = {a, b}
  /\ Openers \subseteq Peers /\ Openers # {}
  /\ Isn \in [Peers -> 0..(MOD - 1)]
  /\ SendCapacity \in Nat /\ RecvCapacity \in Nat
  /\ UINT16_MAX \in Nat /\ UINT64_MAX \in Nat /\ LingerTime \in Nat
  /\ Keeps \in BOOLEAN
  /\ Ticks \subseteq Nat
  /\ MaxBytes \in [Peers -> Nat]
  /\ Closers \subseteq Peers
  /\ MaxRetx \in Nat

VARIABLES
  peer,     \* the TCPPeer of each socket
  network   \* the messages sent so far to each peer

vars == << peer, network >>

Other(p) == CHOOSE q \in Peers : q # p

Init ==
  /\ peer = [p \in Peers |-> NewPeer(Isn[p], SendCapacity, RecvCapacity)]
  /\ network = [p \in Peers |-> {}]

\* What the network may hold for a peer when `messages` are sent to it.
InTransit(held, messages) ==
  LET new == {messages[i] : i \in DOMAIN messages}
  IN  IF Keeps \/ new = {} THEN {held \union new} ELSE {{m} : m \in new}

\* p receives the messages of a set, becomes `state`, and its datagram adapter
\* writes `messages`.
Step(p, received, state, messages) ==
  /\ peer' = [peer EXCEPT ![p] = state]
  /\ \E held \in InTransit(network[Other(p)], messages) :
       network' = [network EXCEPT ![p] = IF Keeps THEN @ ELSE @ \ received,
                                  ![Other(p)] = held]

\* The application owns its end of the socket once connect() or
\* listen_and_accept() returned: our SYN was acknowledged.
Established(p) == peer[p].sender.receiver_ackno > 0

PushedInto(p, stream) == [peer[p] EXCEPT !.sender.input = stream]

\* connect(): the first push sends the SYN.
Connect(p) ==
  /\ p \in Openers
  /\ ~peer[p].sender.syn_sent
  /\ Step(p, {}, PeerPush(peer[p]), PeerPushTransmits(peer[p]))

\* Rule 1: a message arrives from the network.
Arrive(p, m) ==
  /\ Active(peer[p])
  /\ p \in Openers => peer[p].sender.syn_sent
  /\ Step(p, {m}, PeerReceive(peer[p], m), PeerReceiveTransmits(peer[p], m))

\* Rule 2: n bytes of the application enter the outbound stream.
Write(p, n) ==
  LET input == peer[p].sender.input
      after == PushedInto(p, WriterPush(input, Substring(input.total_pushed, n)))
  IN  /\ Established(p) /\ Active(peer[p]) /\ ~input.closed
      /\ n <= AvailableCapacity(input)
      /\ input.total_pushed + n <= MaxBytes[p]
      /\ Step(p, {}, PeerPush(after), PeerPushTransmits(after))

\* Mutant of Close: the stream is closed but nothing is pushed.
CloseWithoutPush(p) ==
  LET input == peer[p].sender.input
  IN  /\ p \in Closers /\ Established(p) /\ Active(peer[p]) /\ ~input.closed
      /\ AvailableCapacity(input) > 0
      /\ Step(p, {}, PushedInto(p, WriterClose(input)), <<>>)

\* Rule 2 at the end of the application's stream.
Close(p) ==
  LET input == peer[p].sender.input
      after == PushedInto(p, WriterClose(input))
  IN  /\ p \in Closers /\ Established(p) /\ Active(peer[p]) /\ ~input.closed
      /\ AvailableCapacity(input) > 0
      /\ Step(p, {}, PeerPush(after), PeerPushTransmits(after))

\* Rule 3: n bytes of the inbound stream go to the application.
Read(p, n) ==
  /\ n <= Len(Inbound(peer[p]).buffer)
  /\ Step(p, {}, [peer[p] EXCEPT !.receiver.reassembler.output = ReaderPop(@, n)], <<>>)

\* The loop tells the peer how much time has passed.
Tick(p, ms) ==
  /\ Active(peer[p])
  /\ peer[p].sender.consecutive_retx < MaxRetx
  /\ Step(p, {}, PeerTick(peer[p], ms), PeerTickTransmits(peer[p], ms))

Next ==
  \E p \in Peers :
    \/ Connect(p)
    \/ \E m \in network[p] : Arrive(p, m)
    \/ \E n \in 1..SendCapacity : Write(p, n)
    \/ Close(p)
    \/ \E n \in 1..RecvCapacity : Read(p, n)
    \/ \E ms \in Ticks : Tick(p, ms)

Spec == Init /\ [][Next]_vars

-----------------------------------------------------------------------------
\* What the application at q read so far and can read now.  The bytes that
\* left the buffer were checked when they were in it.  The byte that an
\* application writes k-th is k.
Delivered(q) ==
  [i \in 1..Inbound(peer[q]).total_popped |-> i] \o Inbound(peer[q]).buffer

One == CHOOSE p \in Peers : TRUE
Two == Other(One)

Forth == INSTANCE ReliableStream WITH
  written <- peer[One].sender.input.total_pushed,
  ended <- peer[One].sender.input.closed,
  delivered <- Delivered(Two),
  finished <- Inbound(peer[Two]).closed

Back == INSTANCE ReliableStream WITH
  written <- peer[Two].sender.input.total_pushed,
  ended <- peer[Two].sender.input.closed,
  delivered <- Delivered(One),
  finished <- Inbound(peer[One]).closed

\* Refinement: the connection is a reliable byte stream in one direction ...
ForthIsReliable == Forth!StreamSpec

\* ... and in the other, whatever the network loses, duplicates and reorders.
BackIsReliable == Back!StreamSpec

\* What a sender believes acknowledged was really assembled by the other
\* side, and nothing is assembled that was not sent.
AckedIsAssembled ==
  \A p \in Peers :
    LET q         == Other(p)
        assembled == Inbound(peer[q]).total_pushed
                       + (IF Inbound(peer[q]).closed THEN 2 ELSE 1)
    IN  IF peer[q].receiver.isn = NoAckno
          THEN peer[p].sender.receiver_ackno = 0
          ELSE /\ peer[p].sender.receiver_ackno <= assembled
               /\ assembled <= peer[p].sender.next_seqno

\* No lost wake-up: bytes (or a FIN) that wait in the outbound stream always
\* have something in flight before them, whose acknowledgment or timeout
\* will make the sender push again.
BacklogHasFlight ==
  \A p \in Peers :
    LET s == peer[p].sender
    IN  s.syn_sent /\ (s.input.buffer # <<>> \/ (s.input.closed /\ ~s.fin_sent))
          => s.bytes_in_flight > 0

\* A peer that finishes does so cleanly: it sent its FIN and the other side
\* assembled all it wrote, and it assembled all the other side wrote.
FinishIsClean ==
  \A p \in Peers :
    LET mine   == peer[p]
        theirs == peer[Other(p)]
    IN  ~Active(mine) =>
          /\ mine.sender.fin_sent
          /\ Inbound(theirs).closed
          /\ Inbound(theirs).total_pushed = mine.sender.input.total_pushed
          /\ theirs.sender.fin_sent
          /\ Inbound(mine).total_pushed = theirs.sender.input.total_pushed

\* The two ends never both decide not to linger, so that a retransmitted
\* last FIN still finds someone to acknowledge it.
SomeoneLingers == \E p \in Peers : peer[p].linger

\* No sender goes beyond the right edge of the window (ackno + window_size)
\* its receiver advertised, except by the one byte that probes a zero window.
RightEdgeIsRespected ==
  \A p \in Peers :
    LET s    == peer[p].sender
        r    == peer[Other(p)].receiver
        edge == AckAbs(r) + ReceiverSend(r).window_size
    IN  r.isn # NoAckno => s.next_seqno <= Most(edge, s.receiver_ackno + 1)
=============================================================================
