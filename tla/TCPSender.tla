----------------------------- MODULE TCPSender ------------------------------
(* The sending half of a TCP endpoint (src/src/tcp_sender.cc, .hh), as      *)
(* operators on one record with the members of the class.  A method that    *)
(* calls `transmit` is two operators: its effect on the sender, and the     *)
(* sequence of messages it transmits.  The loops of the code are written in *)
(* closed form; TCPSenderLoops.tla has them literally and compares.         *)
EXTENDS ByteStream, WrappingIntegers

CONSTANTS
  MAX_PAYLOAD_SIZE,   \* TCPConfig::MAX_PAYLOAD_SIZE
  InitialRTO          \* TCPConfig::rt_timeout, milliseconds

ASSUME SenderAssumption ==
  /\ MAX_PAYLOAD_SIZE \in Nat \ {0}
  /\ InitialRTO \in Nat \ {0}

NewSender(isn, capacity) ==
  [input |-> NewByteStream(capacity), isn |-> isn,
   next_seqno |-> 0, bytes_in_flight |-> 0, outstanding |-> <<>>,
   receiver_ackno |-> 0, receiver_window |-> 1,
   syn_sent |-> FALSE, fin_sent |-> FALSE,
   RTO |-> InitialRTO, timer_elapsed_ms |-> 0, timer_running |-> FALSE,
   consecutive_retx |-> 0]

\* TCPSenderMessage
SenderMessage(s, start, syn, payload, fin) ==
  [seqno |-> Wrap(start, s.isn), SYN |-> syn, payload |-> payload,
   FIN |-> fin, RST |-> s.input.error]

SequenceLength(m) ==
  (IF m.SYN THEN 1 ELSE 0) + Len(m.payload) + (IF m.FIN THEN 1 ELSE 0)

SegmentEnd(o) == o.seq_start + o.len

-----------------------------------------------------------------------------
(* push() = fill_window().  One call of the loop reads PayloadTotal bytes   *)
(* and cuts them into segments of MAX_PAYLOAD_SIZE; the SYN rides on the    *)
(* first, the FIN on the last if the stream is drained and the FIN fits.    *)

\* Mutants of Room: the segments in flight do not count, a zero window blocks
\* the sender, and the FIN does not end what is sent.
RoomIgnoresFlight(s) ==
  IF s.fin_sent THEN 0
  ELSE IF s.receiver_window = 0 THEN 1 ELSE s.receiver_window

RoomAfterFin(s) ==
  LET win_advertised == IF s.receiver_window = 0 THEN 1 ELSE s.receiver_window
  IN  IF s.bytes_in_flight >= win_advertised THEN 0
      ELSE win_advertised - s.bytes_in_flight

RoomNoProbe(s) ==
  IF s.fin_sent \/ s.bytes_in_flight >= s.receiver_window
    THEN 0
    ELSE s.receiver_window - s.bytes_in_flight

Room(s) ==
  LET win_advertised == IF s.receiver_window = 0 THEN 1 ELSE s.receiver_window
  IN  IF s.fin_sent \/ s.bytes_in_flight >= win_advertised
        THEN 0
        ELSE win_advertised - s.bytes_in_flight

SynSpace(s) == IF s.syn_sent THEN 0 ELSE 1

PayloadTotal(s) ==
  IF Room(s) <= SynSpace(s)
    THEN 0
    ELSE Least(Room(s) - SynSpace(s), Len(s.input.buffer))

\* Mutant of SendsFin: room for one more number than the FIN takes.
SendsFinTight(s) ==
  /\ s.input.closed
  /\ PayloadTotal(s) = Len(s.input.buffer)
  /\ SynSpace(s) + PayloadTotal(s) + 1 < Room(s)

SendsFin(s) ==
  /\ s.input.closed
  /\ PayloadTotal(s) = Len(s.input.buffer)
  /\ SynSpace(s) + PayloadTotal(s) + 1 <= Room(s)

SegmentCount(s) ==
  IF Room(s) = 0 THEN 0
  ELSE IF PayloadTotal(s) = 0
    THEN IF SynSpace(s) = 1 \/ SendsFin(s) THEN 1 ELSE 0
  ELSE (PayloadTotal(s) + MAX_PAYLOAD_SIZE - 1) \div MAX_PAYLOAD_SIZE

NewSegments(s) ==
  LET total == PayloadTotal(s)
      count == SegmentCount(s)
      fin   == SendsFin(s)
      start(k) == s.next_seqno
                    + (IF k = 1 THEN 0 ELSE SynSpace(s) + (k - 1) * MAX_PAYLOAD_SIZE)
      data(k)  == SubSeq(s.input.buffer, (k - 1) * MAX_PAYLOAD_SIZE + 1,
                         Least(k * MAX_PAYLOAD_SIZE, total))
      msg(k)   == SenderMessage(s, start(k), k = 1 /\ ~s.syn_sent, data(k),
                                k = count /\ fin)
  IN  [k \in 1..count |->
         [msg |-> msg(k), seq_start |-> start(k), len |-> SequenceLength(msg(k))]]

\* Mutant of Filled: the FIN takes no sequence number.
FilledWithoutFin(s) ==
  (IF Room(s) > 0 THEN SynSpace(s) ELSE 0) + PayloadTotal(s)

Filled(s) ==
  (IF Room(s) > 0 THEN SynSpace(s) ELSE 0)
    + PayloadTotal(s) + (IF SendsFin(s) THEN 1 ELSE 0)

Push(s) ==
  LET filled == Filled(s)
      sends  == SegmentCount(s) > 0
  IN  [s EXCEPT
        !.input = ReaderPop(@, PayloadTotal(s)),
        !.next_seqno = @ + filled,
        !.bytes_in_flight = @ + filled,
        !.outstanding = @ \o NewSegments(s),
        !.syn_sent = @ \/ Room(s) > 0,
        !.fin_sent = @ \/ SendsFin(s),
        !.timer_running = @ \/ sends,
        !.timer_elapsed_ms = IF sends /\ ~s.timer_running THEN 0 ELSE @]

PushTransmits(s) ==
  LET segments == NewSegments(s) IN [k \in DOMAIN segments |-> segments[k].msg]

EmptyMessage(s) == SenderMessage(s, s.next_seqno, FALSE, <<>>, FALSE)

-----------------------------------------------------------------------------
(* receive(): acknowledgment and window from the peer's receiver.           *)

\* How many segments the pop_front loop removes.
FullyAcked(out, ack) ==
  CHOOSE n \in 0..Len(out) :
    /\ \A i \in 1..n : SegmentEnd(out[i]) <= ack
    /\ n < Len(out) => SegmentEnd(out[n + 1]) > ack

Acknowledge(s, ack) ==
  LET n    == FullyAcked(s.outstanding, ack)
      kept == SubSeq(s.outstanding, n + 1, Len(s.outstanding))
      freed == IF n = 0 THEN 0
               ELSE SegmentEnd(s.outstanding[n]) - s.outstanding[1].seq_start
  IN  [s EXCEPT
        !.receiver_ackno = ack,
        !.outstanding = kept,
        !.bytes_in_flight = @ - freed,
        !.RTO = InitialRTO,
        !.consecutive_retx = 0,
        !.timer_running = kept # <<>>,
        !.timer_elapsed_ms = 0]

AcksNewData(s, ackno) ==
  /\ ackno # NoAckno
  /\ LET abs_ack == Unwrap(ackno, s.isn, s.receiver_ackno)
     IN  abs_ack <= s.next_seqno /\ abs_ack > s.receiver_ackno

SenderReceive(s, m) ==
  IF m.RST
    THEN [s EXCEPT !.input = SetError(@)]
  ELSE IF AcksNewData(s, m.ackno)
    THEN [Acknowledge(s, Unwrap(m.ackno, s.isn, s.receiver_ackno))
            EXCEPT !.receiver_window = m.window_size]
  ELSE [s EXCEPT !.receiver_window = m.window_size]

-----------------------------------------------------------------------------
(* tick(): the retransmission timer.                                        *)

\* Mutant of TimerFires: it fires only after the timeout.
TimerFiresLate(s, ms) ==
  s.timer_running /\ s.outstanding # <<>> /\ s.timer_elapsed_ms + ms > s.RTO

TimerFires(s, ms) ==
  /\ s.timer_running
  /\ s.outstanding # <<>>
  /\ s.timer_elapsed_ms + ms >= s.RTO

\* Mutant of Oldest: the segment gets a fresh number.
OldestRestamped(s) ==
  [s.outstanding[1] EXCEPT !.msg.seqno = Wrap(s.next_seqno, s.isn)]

Oldest(s) == [s.outstanding[1] EXCEPT !.msg.RST = @ \/ s.input.error]

\* Mutant of BackedOff: a probe of a zero window also doubles the timeout.
BackedOffByProbes(s) ==
  [s EXCEPT !.consecutive_retx = IF s.receiver_window > 0 THEN @ + 1 ELSE @,
            !.RTO = 2 * @]

\* Only a timeout with an open window counts and doubles the next timeout.
BackedOff(s) ==
  IF s.receiver_window > 0
    THEN [s EXCEPT !.consecutive_retx = @ + 1, !.RTO = 2 * @]
    ELSE s

SenderTick(s, ms) ==
  IF ~s.timer_running
    THEN s
  ELSE IF s.outstanding = <<>>
    THEN [s EXCEPT !.timer_running = FALSE]
  ELSE IF ~TimerFires(s, ms)
    THEN [s EXCEPT !.timer_elapsed_ms = @ + ms]
  ELSE [BackedOff(s) EXCEPT !.outstanding = [@ EXCEPT ![1] = Oldest(s)],
                            !.timer_elapsed_ms = 0]

\* Mutant of TickTransmits: the newest segment.
TickTransmitsNewest(s, ms) ==
  IF TimerFires(s, ms) THEN << s.outstanding[Len(s.outstanding)].msg >> ELSE <<>>

TickTransmits(s, ms) == IF TimerFires(s, ms) THEN << Oldest(s).msg >> ELSE <<>>

-----------------------------------------------------------------------------
(* What every reachable sender satisfies, on its own.                       *)

Messages ==
  [seqno : 0..(MOD - 1), SYN : BOOLEAN, payload : Seq(Byte),
   FIN : BOOLEAN, RST : BOOLEAN]

Segments == [msg : Messages, seq_start : Nat, len : Nat]

Senders ==
  [input : ByteStreams, isn : 0..(MOD - 1),
   next_seqno : Nat, bytes_in_flight : Nat, outstanding : Seq(Segments),
   receiver_ackno : Nat, receiver_window : Nat,
   syn_sent : BOOLEAN, fin_sent : BOOLEAN,
   RTO : Nat, timer_elapsed_ms : Nat, timer_running : BOOLEAN,
   consecutive_retx : Nat]

\* The deque holds consecutive, non-empty segments that end at next_seqno_.
Contiguous(out, next) ==
  /\ \A i \in 1..Len(out) : out[i].len > 0
  /\ \A i \in 1..(Len(out) - 1) : SegmentEnd(out[i]) = out[i + 1].seq_start
  /\ out # <<>> => SegmentEnd(out[Len(out)]) = next

\* The deque is exactly what the peer has not acknowledged: bytes_in_flight_
\* counts it, its front contains the first unacknowledged number even when
\* an ackno falls inside a segment, and it is empty once all is acked.
Unacked(s) ==
  LET out == s.outstanding
  IN  IF out = <<>>
        THEN /\ s.bytes_in_flight = 0
             /\ s.receiver_ackno = s.next_seqno
        ELSE /\ s.bytes_in_flight = s.next_seqno - out[1].seq_start
             /\ out[1].seq_start <= s.receiver_ackno
             /\ s.receiver_ackno < SegmentEnd(out[1])

\* The retransmission timer runs exactly while something is outstanding, so
\* that no unacknowledged segment is ever left without a timer and an idle
\* connection never retransmits.
TimerMatches(s) ==
  /\ s.timer_running <=> s.outstanding # <<>>
  /\ s.timer_elapsed_ms < s.RTO

\* next_seqno_ counts what is in segments: the SYN, the bytes read from the
\* stream and the FIN.  (Stronger than FinIsLast, and inductive.)
NumbersAddUp(s) ==
  /\ s.next_seqno = (IF s.syn_sent THEN 1 ELSE 0) + s.input.total_popped
                      + (IF s.fin_sent THEN 1 ELSE 0)
  /\ s.fin_sent => s.syn_sent /\ IsFinished(s.input)

\* A sequence number carries the same thing each time it is transmitted, in
\* whatever segment: number 0 the SYN, number k the k-th byte of the stream,
\* and the last number, once the FIN is out, the FIN.
Says(s, m, start) ==
  /\ m.seqno = Wrap(start, s.isn)
  /\ m.SYN <=> start = 0
  /\ m.payload = Substring(IF m.SYN THEN 0 ELSE start - 1, Len(m.payload))
  /\ start + SequenceLength(m) <= s.next_seqno
  /\ m.FIN <=> /\ s.fin_sent
               /\ SequenceLength(m) > 0
               /\ start + SequenceLength(m) = s.next_seqno

\* The segments in the deque and the bytes that wait say what they should, and
\* nothing is sent before the SYN.
Honest(s) ==
  /\ ~s.syn_sent => s.next_seqno = 0
  /\ s.input.buffer = Substring(s.input.total_popped, Len(s.input.buffer))
  /\ \A i \in 1..Len(s.outstanding) :
       /\ Says(s, s.outstanding[i].msg, s.outstanding[i].seq_start)
       /\ s.outstanding[i].len = SequenceLength(s.outstanding[i].msg)

\* The parts of the invariant that each method preserves.
Consistent(s) ==
  /\ s \in Senders
  /\ s.RTO > 0
  /\ StreamOk(s.input)
  /\ Contiguous(s.outstanding, s.next_seqno)
  /\ Unacked(s)
  /\ TimerMatches(s)
  /\ NumbersAddUp(s)
=============================================================================
