------------------------------ MODULE TCPPeer -------------------------------
(* One endpoint of a TCP connection: a sender and a receiver that share the *)
(* messages they transmit (src/util/tcp_peer.hh), as operators on one       *)
(* record.  The code compares cumulative_time_ with time_of_last_receipt_   *)
(* only through their difference, which stops mattering at the linger time: *)
(* since_last_receipt is that difference, kept up to the linger time.       *)
(* need_send_ is FALSE between calls (every call that sets it answers), so  *)
(* it is a local of PeerReceive.                                            *)
EXTENDS TCPSender, TCPReceiver

CONSTANT LingerTime   \* 10UL * cfg_.rt_timeout, milliseconds

NewPeer(isn, send_capacity, recv_capacity) ==
  [sender |-> NewSender(isn, send_capacity),
   receiver |-> NewReceiver(recv_capacity),
   linger |-> TRUE, since_last_receipt |-> 0]

Inbound(p) == p.receiver.reassembler.output

\* A TCPMessage, and the one RST flag its two halves share on the wire
\* (TCPSegment::serialize and parse).
Message(p, sender_message) ==
  LET receiver_message == ReceiverSend(p.receiver)
      reset == sender_message.RST \/ receiver_message.RST
  IN  [sender |-> [sender_message EXCEPT !.RST = reset],
       receiver |-> [receiver_message EXCEPT !.RST = reset]]

MessagesOf(p, sender_messages) ==
  [i \in DOMAIN sender_messages |-> Message(p, sender_messages[i])]

HasAckno(p) == ReceiverSend(p.receiver).ackno # NoAckno

\* Mutant of Active: segments in flight do not keep the sender active.
ActiveIgnoresFlight(p) ==
  /\ ~Inbound(p).error /\ ~p.sender.input.error
  /\ \/ ~IsFinished(p.sender.input)
     \/ ~Inbound(p).closed
     \/ p.linger /\ p.since_last_receipt < LingerTime

Active(p) ==
  LET any_errors      == Inbound(p).error \/ p.sender.input.error
      sender_active   == p.sender.bytes_in_flight > 0 \/ ~IsFinished(p.sender.input)
      receiver_active == ~Inbound(p).closed
      lingering       == p.linger /\ p.since_last_receipt < LingerTime
  IN  ~any_errors /\ (sender_active \/ receiver_active \/ lingering)

PeerPush(p) == [p EXCEPT !.sender = Push(@)]
PeerPushTransmits(p) == MessagesOf(p, PushTransmits(p.sender))

PeerTick(p, ms) ==
  [p EXCEPT !.sender = SenderTick(@, ms),
            !.since_last_receipt = Least(@ + ms, LingerTime)]
PeerTickTransmits(p, ms) == MessagesOf(p, TickTransmits(p.sender, ms))

\* A segment that occupies sequence numbers is answered, and so is a
\* keep-alive, whose number is the one before the ackno.
MustAnswer(p, m) ==
  \/ SequenceLength(m.sender) > 0
  \/ /\ HasAckno(p)
     /\ Wrap(1, m.sender.seqno) = ReceiverSend(p.receiver).ackno

\* The two halves of a message reach the receiver and the sender, ...
Absorb(p, m) ==
  [p EXCEPT !.receiver = ReceiverReceive(@, m.sender),
            !.sender = SenderReceive(@, m.receiver),
            !.since_last_receipt = 0]

\* Mutant of StopsLingering: whichever stream ended first.
StopsLingeringAlways(p) == Inbound(p).closed

StopsLingering(p) == Inbound(p).closed /\ ~IsFinished(p.sender.input)

\* ... the sender pushes what the acknowledgment made room for, and the peer
\* stops lingering if its inbound stream ended before its outbound stream.
PeerReceive(p, m) ==
  LET pushed == PeerPush(Absorb(p, m))
  IN  IF ~Active(p) THEN p
      ELSE [pushed EXCEPT !.linger = @ /\ ~StopsLingering(pushed)]

PeerReceiveTransmits(p, m) ==
  LET absorbed == Absorb(p, m)
      pushes   == PeerPushTransmits(absorbed)
  IN  IF ~Active(p) THEN <<>>
      ELSE IF pushes = <<>> /\ MustAnswer(p, m)
        THEN << Message(absorbed, EmptyMessage(absorbed.sender)) >>
      ELSE pushes
=============================================================================
