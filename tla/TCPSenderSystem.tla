-------------------------- MODULE TCPSenderSystem ---------------------------
(* One TCPSender driven by an application and by an arbitrary peer: every   *)
(* public method may be called at any time, and receive() with any ackno,   *)
(* window or RST, so that lost, duplicated, reordered and bogus             *)
(* acknowledgments are all included.  A byte is its position in the stream. *)
EXTENDS TCPSender, Basics

CONSTANTS
  Isn,          \* our initial sequence number
  Capacity,     \* of the outbound stream
  Windows,      \* the windows a peer may advertise
  Ticks,        \* milliseconds between two tick() calls
  MaxStream,    \* bound: bytes the application writes
  MaxRetx       \* bound: consecutive retransmissions explored

ASSUME SystemAssumption ==
  /\ Isn \in 0..(MOD - 1)
  /\ Capacity \in Nat
  /\ Windows \subseteq Nat
  /\ Ticks \subseteq Nat
  /\ MaxStream \in Nat
  /\ MaxRetx \in Nat

VARIABLES
  sender,       \* the TCPSender
  transmitted,  \* the messages the last method call transmitted
  wire          \* every message ever transmitted

vars == << sender, transmitted, wire >>

ReceiverMessages ==
  [ackno : 0..(MOD - 1) \union {NoAckno}, window_size : Windows, RST : BOOLEAN]

RangeOf(q) == {q[i] : i \in 1..Len(q)}

Transmit(messages) ==
  /\ transmitted' = messages
  /\ wire' = wire \union RangeOf(messages)

Init ==
  /\ sender = NewSender(Isn, Capacity)
  /\ transmitted = <<>>
  /\ wire = {}

\* The application writes n more bytes; the stream keeps what fits.
AppWrite(n) ==
  /\ ~sender.input.closed
  /\ sender.input.total_pushed + n <= MaxStream
  /\ sender' = [sender EXCEPT !.input =
                  WriterPush(@, Substring(@.total_pushed, n))]
  /\ Transmit(<<>>)

AppClose ==
  /\ ~sender.input.closed
  /\ sender' = [sender EXCEPT !.input = WriterClose(@)]
  /\ Transmit(<<>>)

AppError ==
  /\ ~sender.input.error
  /\ sender' = [sender EXCEPT !.input = SetError(@)]
  /\ Transmit(<<>>)

CallPush ==
  /\ sender' = Push(sender)
  /\ Transmit(PushTransmits(sender))

CallReceive(m) ==
  /\ sender' = SenderReceive(sender, m)
  /\ Transmit(<<>>)

CallTick(ms) ==
  /\ sender.consecutive_retx < MaxRetx
  /\ sender' = SenderTick(sender, ms)
  /\ Transmit(TickTransmits(sender, ms))

Next ==
  \/ \E n \in 1..MaxStream : AppWrite(n)
  \/ AppClose
  \/ AppError
  \/ CallPush
  \/ \E m \in ReceiverMessages : CallReceive(m)
  \/ \E ms \in Ticks : CallTick(ms)

Spec == Init /\ [][Next]_vars

-----------------------------------------------------------------------------
\* Every member of the class has its type, and the outbound stream accounts
\* for its bytes.
TypeOK ==
  /\ sender \in Senders
  /\ transmitted \in Seq(Messages)
  /\ wire \subseteq Messages
  /\ StreamOk(sender.input)

\* The deque holds consecutive, non-empty segments that end at next_seqno_.
OutstandingIsContiguous == Contiguous(sender.outstanding, sender.next_seqno)

\* The deque is exactly what the peer has not acknowledged, even when an ackno
\* falls inside a segment, and bytes_in_flight_ counts it.
OutstandingIsUnacked == Unacked(sender)

\* No unacknowledged segment is ever left without a timer, and an idle
\* connection never retransmits.
TimerRunsIffOutstanding == TimerMatches(sender)

\* Exponential backoff: whatever mix of acks, zero windows and timeouts came
\* before, the timeout is the initial one doubled once per counted
\* consecutive retransmission.
BackoffMatchesRetransmissions ==
  sender.RTO = InitialRTO * Power2(sender.consecutive_retx)

\* Once the FIN is out the stream is over: it was closed, every byte of it is
\* in a segment, and the FIN has the last sequence number.
FinIsLast ==
  sender.fin_sent =>
    /\ IsFinished(sender.input)
    /\ sender.next_seqno = sender.input.total_pushed + 2

\* Every message ever transmitted says what its number means.
WireIsHonest ==
  \A m \in wire : \E start \in 0..sender.next_seqno :
    Says(sender, m, start)

\* New segments never take the flight beyond the window in force (a zero
\* window counts as one), and once the FIN is out there are no new segments.
WindowIsRespected ==
  [][sender'.next_seqno > sender.next_seqno =>
       /\ sender'.bytes_in_flight <= sender.receiver_window
          \/ sender'.bytes_in_flight = 1
       /\ ~sender.fin_sent]_vars

\* Whatever a timeout retransmits contains the first number the peer still
\* misses: a retransmission is always one the peer needs.
RetransmissionIsNeeded ==
  [][\A i \in 1..Len(transmitted') :
       sender'.next_seqno = sender.next_seqno =>
         \E start \in 0..sender.receiver_ackno :
           /\ transmitted'[i].seqno = Wrap(start, Isn)
           /\ sender.receiver_ackno < start + SequenceLength(transmitted'[i])]_vars
=============================================================================
