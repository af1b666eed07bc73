-------------------------- MODULE TCPSenderProofs ---------------------------
(* Proofs about TCPSenderSystem: the books of the sender agree for every    *)
(* modulus, payload size, timeout, capacity and set of windows, whatever    *)
(* the application and the peer do.                                         *)
EXTENDS TCPSenderLoops, TransportLemmas

-----------------------------------------------------------------------------
(* The theorems.                                                            *)

\* The inductive invariant.
Invariant ==
  /\ Consistent(sender)
  /\ Honest(sender)
  /\ sender.isn = Isn
  /\ transmitted \in Seq(Messages)
  /\ wire \subseteq Messages
  /\ WireIsHonest

\* A new sender.
LEMMA InitEstablishes == Init => Invariant
<1>1. Consistent(NewSender(Isn, Capacity)) /\ Honest(NewSender(Isn, Capacity))
  BY SystemAssumption, NewSenderIsConsistent, NewSenderIsHonest
<1>2. NewSender(Isn, Capacity).isn = Isn
  BY DEF NewSender
<1> QED BY <1>1, <1>2 DEF Init, Invariant, WireIsHonest

\* The invariant after a step: the sender goes on from what it was, and what
\* it transmits says what it should.
LEMMA StepPreserves ==
  ASSUME Invariant, NEW q \in Seq(Messages), Transmit(q),
         Consistent(sender'), Honest(sender'), Follows(sender, sender'),
         \A i \in 1..Len(q) : \E start \in 0..sender'.next_seqno :
           Says(sender', q[i], start)
  PROVE  Invariant'
<1>1. /\ wire \subseteq Messages /\ sender \in Senders /\ sender' \in Senders
      /\ sender.isn = Isn /\ sender.next_seqno \in Nat /\ sender'.next_seqno \in Nat
      /\ sender'.next_seqno >= sender.next_seqno
  BY DEF Invariant, Consistent, Senders, Follows
<1>2. RangeOf(q) \subseteq Messages
  BY DEF RangeOf
<1>3. transmitted' = q /\ wire' = wire \union RangeOf(q)
  BY DEF Transmit
<1>4. sender'.isn = Isn
  BY <1>1 DEF Follows
<1>5. ASSUME NEW m \in wire'
      PROVE  \E start \in 0..sender'.next_seqno : Says(sender', m, start)
  <2>1. CASE m \in wire
    <3>1. PICK start \in 0..sender.next_seqno : Says(sender, m, start)
      BY <2>1 DEF Invariant, WireIsHonest
    <3>2. start \in Nat /\ start \in 0..sender'.next_seqno /\ m \in Messages
      BY <1>1, <2>1
    <3>3. Says(sender', m, start)
      BY <1>1, <3>1, <3>2, SaysLater
    <3> QED BY <3>2, <3>3
  <2>2. CASE m \in RangeOf(q)
    BY <2>2 DEF RangeOf
  <2> QED BY <1>3, <2>1, <2>2
<1>6. WireIsHonest'
  BY <1>5 DEF WireIsHonest
<1>7. Consistent(sender)' /\ Honest(sender)'
  OBVIOUS
<1> QED BY <1>1, <1>2, <1>3, <1>4, <1>6, <1>7 DEF Invariant

\* Every call of the owner, and of the application, keeps the books.
LEMMA NextPreserves == Invariant /\ [Next]_vars => Invariant'
<1> SUFFICES ASSUME Invariant, [Next]_vars
             PROVE  Invariant'
  OBVIOUS
<1>1. /\ Consistent(sender) /\ Honest(sender) /\ sender \in Senders
      /\ sender.input \in ByteStreams /\ sender.next_seqno \in Nat
      /\ sender.next_seqno >= sender.next_seqno
  BY DEF Invariant, Consistent, Senders
<1>2. ASSUME Transmit(<<>>), Consistent(sender'), Honest(sender'),
             Follows(sender, sender')
      PROVE  Invariant'
  <2>1. <<>> \in Seq(Messages) /\ \A i \in 1..Len(<<>>) : FALSE
    OBVIOUS
  <2> QED BY <1>2, <2>1, StepPreserves, Zenon
<1>3. ASSUME NEW b, sender' = [sender EXCEPT !.input = b]
      PROVE  Follows(sender, sender')
  BY <1>1, <1>3 DEF Follows, Senders
<1>4. ASSUME NEW n \in 1..MaxStream, AppWrite(n)
      PROVE  Invariant'
  <2> DEFINE data == Substring(sender.input.total_pushed, n)
  <2>1. data \in Seq(Byte) /\ n \in Nat
    <3>1. sender.input.total_pushed \in Nat /\ MaxStream \in Nat /\ n \in Nat
      BY <1>1, SystemAssumption DEF ByteStreams
    <3> QED BY <3>1 DEF Byte, Substring
  <2>2. /\ sender' = [sender EXCEPT !.input = WriterPush(sender.input, data)]
        /\ ~sender.input.closed /\ Transmit(<<>>)
    BY <1>4 DEF AppWrite
  <2>3. Honest(sender')
    BY <1>1, <2>1, <2>2, WriteKeepsHonest
  <2> HIDE DEF data
  <2>4. Consistent(sender')
    BY <1>1, <2>1, <2>2, WriteKeepsConsistent
  <2> QED BY <1>2, <1>3, <2>2, <2>3, <2>4
<1>5. ASSUME NEW closed \in BOOLEAN, NEW error \in BOOLEAN,
             sender.input.closed => closed, Transmit(<<>>),
             sender' = [sender EXCEPT !.input = [sender.input EXCEPT
                          !.closed = closed, !.error = error]]
      PROVE  Invariant'
  <2>1. Consistent(sender') /\ Honest(sender')
    BY <1>1, <1>5, MarkKeepsConsistent, MarkKeepsHonest, Zenon
  <2> QED BY <1>2, <1>3, <1>5, <2>1
<1>6. ASSUME AppClose
      PROVE  Invariant'
  <2>1. sender.input.error \in BOOLEAN
    BY <1>1 DEF ByteStreams
  <2>2. sender' = [sender EXCEPT !.input = [sender.input EXCEPT
                     !.closed = TRUE, !.error = sender.input.error]]
    <3>1. WriterClose(sender.input) =
            [sender.input EXCEPT !.closed = TRUE, !.error = sender.input.error]
      BY <1>1 DEF WriterClose, ByteStreams
    <3>2. sender' = [sender EXCEPT !.input = WriterClose(sender.input)]
      BY <1>6 DEF AppClose
    <3> QED BY <3>1, <3>2, Zenon
  <2>3. Transmit(<<>>)
    BY <1>6 DEF AppClose
  <2> QED BY <1>5, <2>1, <2>2, <2>3, Zenon
<1>7. ASSUME AppError
      PROVE  Invariant'
  <2>1. sender.input.closed \in BOOLEAN
    BY <1>1 DEF ByteStreams
  <2>2. sender' = [sender EXCEPT !.input = [sender.input EXCEPT
                     !.closed = sender.input.closed, !.error = TRUE]]
    <3>1. SetError(sender.input) =
            [sender.input EXCEPT !.closed = sender.input.closed, !.error = TRUE]
      BY <1>1 DEF SetError, ByteStreams
    <3>2. sender' = [sender EXCEPT !.input = SetError(sender.input)]
      BY <1>7 DEF AppError
    <3> QED BY <3>1, <3>2, Zenon
  <2>3. Transmit(<<>>)
    BY <1>7 DEF AppError
  <2> QED BY <1>5, <2>1, <2>2, <2>3, Zenon
<1>8. ASSUME CallPush
      PROVE  Invariant'
  <2>1. sender' = Push(sender) /\ Transmit(PushTransmits(sender))
    BY <1>8 DEF CallPush
  <2>2. Consistent(Push(sender)) /\ Honest(Push(sender)) /\ Follows(sender, Push(sender))
    BY <1>1, PushKeepsConsistent, PushKeepsHonest, PushFollows
  <2>3. PushTransmits(sender) \in Seq(Messages)
    <3>1. 0 \in Nat
      OBVIOUS
    <3> QED BY <1>1, <3>1, TransmissionsTyped
  <2>4. \A i \in 1..Len(PushTransmits(sender)) : \E start \in 0..Push(sender).next_seqno :
          Says(Push(sender), PushTransmits(sender)[i], start)
    BY <1>1, PushSays
  <2> QED BY <2>1, <2>2, <2>3, <2>4, StepPreserves
<1>9. ASSUME NEW m \in ReceiverMessages, CallReceive(m)
      PROVE  Invariant'
  <2> DEFINE t == SenderReceive(sender, m)
  <2>1. m.window_size \in Nat /\ m.ackno \in 0..(MOD - 1) \union {NoAckno}
    BY SystemAssumption DEF ReceiverMessages
  <2>2. Consistent(t) /\ Honest(t)
    BY <1>1, <2>1, ReceiveKeepsConsistent, ReceiveKeepsHonest
  <2>3. Follows(sender, t)
    <3>1. t.isn = sender.isn /\ t.next_seqno = sender.next_seqno
          /\ t.fin_sent = sender.fin_sent
      BY <1>1, <2>1, ReceiveLeaves
    <3> HIDE DEF t
    <3> QED BY <1>1, <3>1 DEF Follows
  <2> QED BY <1>2, <1>9, <2>2, <2>3 DEF CallReceive
<1>10. ASSUME NEW ms \in Ticks, CallTick(ms)
       PROVE  Invariant'
  <2> DEFINE t == SenderTick(sender, ms)
             q == TickTransmits(sender, ms)
  <2>1. ms \in Nat /\ sender' = t /\ Transmit(q)
    BY <1>10, SystemAssumption DEF CallTick
  <2>2. Consistent(t) /\ Honest(t) /\ q \in Seq(Messages)
    BY <1>1, <2>1, TickKeepsConsistent, TickKeepsHonest, TransmissionsTyped
  <2>3. Follows(sender, t)
    <3>1. t.isn = sender.isn /\ t.next_seqno = sender.next_seqno
          /\ t.fin_sent = sender.fin_sent
      BY <1>1, <2>1, TickLeaves
    <3> HIDE DEF t
    <3> QED BY <1>1, <3>1 DEF Follows
  <2>4. \A i \in 1..Len(q) : \E start \in 0..t.next_seqno : Says(t, q[i], start)
    BY <1>1, <2>1, TickSays
  <2> HIDE DEF t, q
  <2> QED BY <2>1, <2>2, <2>3, <2>4, StepPreserves
<1>11. ASSUME UNCHANGED vars
       PROVE  Invariant'
  BY <1>11 DEF vars, Invariant, WireIsHonest
<1> QED BY <1>4, <1>6, <1>7, <1>8, <1>9, <1>10, <1>11 DEF Next

\* The books of the sender agree after any sequence of calls.
THEOREM SenderInvariant == Spec => []Invariant
<1>1. Init => Invariant
  BY InitEstablishes
<1>2. Invariant /\ [Next]_vars => Invariant'
  BY NextPreserves
<1> QED BY <1>1, <1>2, PTL DEF Spec

\* Every member of TCPSender and of its stream keeps its type and its range:
\* no counter of tcp_sender.cc is ever decremented below zero.
THEOREM TypeCorrect == Spec => []TypeOK
<1>1. Invariant => TypeOK
  BY DEF Invariant, Consistent, TypeOK
<1> QED BY <1>1, SenderInvariant, PTL

\* outstanding_segments_ always holds consecutive, non-empty segments that end
\* at next_seqno_.
THEOREM DequeIsContiguous == Spec => []OutstandingIsContiguous
<1>1. Invariant => OutstandingIsContiguous
  BY DEF Invariant, Consistent, OutstandingIsContiguous
<1> QED BY <1>1, SenderInvariant, PTL

\* outstanding_segments_ is exactly what the peer has not acknowledged, and
\* sequence_numbers_in_flight() is its size, for partial, repeated, late and
\* bogus acknowledgments alike.
THEOREM DequeIsUnacked == Spec => []OutstandingIsUnacked
<1>1. Invariant => OutstandingIsUnacked
  BY DEF Invariant, Consistent, OutstandingIsUnacked
<1> QED BY <1>1, SenderInvariant, PTL

\* The retransmission timer runs exactly while something is outstanding.
THEOREM TimerCorrect == Spec => []TimerRunsIffOutstanding
<1>1. Invariant => TimerRunsIffOutstanding
  BY DEF Invariant, Consistent, TimerRunsIffOutstanding
<1> QED BY <1>1, SenderInvariant, PTL

\* When the FIN is sent the whole stream is in segments and the FIN has the
\* number after its last byte: nothing is ever sent after it.
THEOREM FinCorrect == Spec => []FinIsLast
<1>1. Invariant => FinIsLast
  <2>1. SUFFICES ASSUME Consistent(sender), sender.fin_sent
                 PROVE  /\ IsFinished(sender.input)
                        /\ sender.next_seqno = sender.input.total_pushed + 2
    BY DEF Invariant, FinIsLast
  <2>2. /\ sender.next_seqno = 1 + sender.input.total_popped + 1
        /\ IsFinished(sender.input)
    BY <2>1 DEF Consistent, NumbersAddUp
  <2>3. /\ sender.input.total_pushed = sender.input.total_popped + Len(sender.input.buffer)
        /\ sender.input.total_popped \in Nat
    BY <2>1 DEF Consistent, StreamOk, Senders, ByteStreams
  <2>4. Len(sender.input.buffer) = 0
    BY <2>2 DEF IsFinished
  <2> QED BY <2>2, <2>3, <2>4
<1> QED BY <1>1, SenderInvariant, PTL

\* Flow control: whatever windows the peer advertised before, new segments
\* never take sequence_numbers_in_flight() beyond the window in force (a zero
\* window counts as one), and there are none after the FIN.
THEOREM WindowRespected == Spec => WindowIsRespected
<1>1. ASSUME Invariant, [Next]_vars
      PROVE  [sender'.next_seqno > sender.next_seqno =>
                /\ \/ sender'.bytes_in_flight <= sender.receiver_window
                   \/ sender'.bytes_in_flight = 1
                /\ ~sender.fin_sent]_vars
  <2>1. sender \in Senders /\ sender.next_seqno \in Nat
    BY <1>1 DEF Invariant, Consistent, Senders
  <2>2. CASE CallPush
    BY <2>1, <2>2, PushFitsWindow DEF CallPush
  <2>3. ASSUME sender'.next_seqno = sender.next_seqno
        PROVE  ~(sender'.next_seqno > sender.next_seqno)
    BY <2>1, <2>3
  <2>4. CASE \E n \in 1..MaxStream : AppWrite(n)
    BY <2>1, <2>3, <2>4 DEF AppWrite, Senders
  <2>5. CASE AppClose \/ AppError
    BY <2>1, <2>3, <2>5 DEF AppClose, AppError, Senders
  <2>6. CASE \E m \in ReceiverMessages : CallReceive(m)
    <3>1. ASSUME NEW m \in ReceiverMessages
          PROVE  SenderReceive(sender, m).next_seqno = sender.next_seqno
      <4>1. ASSUME NEW ack
            PROVE  /\ Acknowledge(sender, ack).next_seqno = sender.next_seqno
                   /\ [Acknowledge(sender, ack) EXCEPT
                         !.receiver_window = m.window_size].next_seqno = sender.next_seqno
        BY <2>1 DEF Acknowledge, Senders
      <4> QED BY <2>1, <4>1 DEF SenderReceive, Senders
    <3> QED BY <2>3, <2>6, <3>1 DEF CallReceive
  <2>7. CASE \E ms \in Ticks : CallTick(ms)
    <3>1. ASSUME NEW ms \in Ticks
          PROVE  SenderTick(sender, ms).next_seqno = sender.next_seqno
      BY <2>1 DEF SenderTick, BackedOff, Senders
    <3> QED BY <2>3, <2>7, <3>1 DEF CallTick
  <2>8. CASE UNCHANGED vars
    BY <2>3, <2>8 DEF vars
  <2> QED BY <1>1, <2>2, <2>4, <2>5, <2>6, <2>7, <2>8 DEF Next
<1> QED BY <1>1, SenderInvariant, PTL DEF Spec, WindowIsRespected

\* Whatever was lost, acknowledged or sent again, every message on the wire
\* carries what its sequence number means: the SYN on number 0, byte k on
\* number k, the FIN after the last byte.
THEOREM WireHonest == Spec => []WireIsHonest
<1>1. Invariant => WireIsHonest
  BY DEF Invariant
<1> QED BY <1>1, SenderInvariant, PTL

\* A retransmission is always one the peer needs: it holds the first number
\* that the peer has not acknowledged.
THEOREM RetransmissionNeeded == Spec => RetransmissionIsNeeded
<1>1. ASSUME Invariant, [Next]_vars
      PROVE  [\A i \in 1..Len(transmitted') :
                sender'.next_seqno = sender.next_seqno =>
                  \E start \in 0..sender.receiver_ackno :
                    /\ transmitted'[i].seqno = Wrap(start, Isn)
                    /\ sender.receiver_ackno < start + SequenceLength(transmitted'[i])]_vars
  <2>1. /\ Consistent(sender) /\ Honest(sender) /\ sender \in Senders
        /\ sender.isn = Isn
        /\ sender.next_seqno \in Nat /\ sender.receiver_ackno \in Nat
    BY <1>1 DEF Invariant, Consistent, Senders
  <2>2. CASE CallPush
    <3>1. /\ sender'.next_seqno = sender.next_seqno + Filled(sender)
          /\ transmitted' = PushTransmits(sender)
      BY <2>1, <2>2 DEF CallPush, Push, Transmit, Senders
    <3>2. /\ Filled(sender) \in Nat /\ (SegmentCount(sender) = 0 <=> Filled(sender) = 0)
          /\ Len(NewSegments(sender)) = SegmentCount(sender)
          /\ NewSegments(sender) \in Seq(Segments)
      BY <2>1, FilledFits, DataOfSegments, NewSegmentsContinue
    <3>3. sender'.next_seqno = sender.next_seqno => Len(transmitted') = 0
      <4>1. sender'.next_seqno = sender.next_seqno => Filled(sender) = 0
        BY <2>1, <3>1, <3>2
      <4>2. Len(NewSegments(sender)) = 0 => Len(transmitted') = 0
        BY <3>1, <3>2 DEF PushTransmits
      <4> QED BY <3>2, <4>1, <4>2
    <3> QED BY <3>3
  <2>3. ASSUME Transmit(<<>>)
        PROVE  Len(transmitted') = 0
    BY <2>3 DEF Transmit
  <2>4. CASE (\E n \in 1..MaxStream : AppWrite(n)) \/ AppClose \/ AppError
               \/ \E m \in ReceiverMessages : CallReceive(m)
    BY <2>3, <2>4 DEF AppWrite, AppClose, AppError, CallReceive
  <2>5. ASSUME NEW ms \in Ticks, CallTick(ms), NEW i \in 1..Len(transmitted')
        PROVE  \E start \in 0..sender.receiver_ackno :
                 /\ transmitted'[i].seqno = Wrap(start, Isn)
                 /\ sender.receiver_ackno < start + SequenceLength(transmitted'[i])
    <3>1. ms \in Nat /\ transmitted' = TickTransmits(sender, ms)
      BY <2>5, SystemAssumption DEF CallTick, Transmit
    <3> DEFINE m == transmitted'[i]
               t == SenderTick(sender, ms)
    <3>2. PICK start \in 0..t.next_seqno :
            /\ Says(t, m, start) /\ start <= sender.receiver_ackno
            /\ sender.receiver_ackno < start + SequenceLength(m)
      BY <2>1, <2>5, <3>1, TickSays
    <3>3. t.isn = Isn /\ t.next_seqno = sender.next_seqno
      BY <2>1, <3>1, TickLeaves
    <3> HIDE DEF t, m
    <3>4. m.seqno = Wrap(start, Isn)
      BY <3>2, <3>3 DEF Says
    <3>5. start \in 0..sender.receiver_ackno
      BY <2>1, <3>2, <3>3
    <3> QED BY <3>2, <3>4, <3>5 DEF m
  <2> QED BY <1>1, <2>2, <2>4, <2>5 DEF Next
<1> QED BY <1>1, SenderInvariant, PTL DEF Spec, RetransmissionIsNeeded

\* The timeout is the initial one doubled once per counted retransmission: only
\* a timeout with an open window does either, and an acknowledgment of new data
\* undoes both (TCPSender::tick and receive).
THEOREM BackoffCorrect == Spec => []BackoffMatchesRetransmissions
<1>1. Init => BackoffMatchesRetransmissions
  <2> SUFFICES ASSUME Init PROVE BackoffMatchesRetransmissions
    OBVIOUS
  <2>1. sender.RTO = InitialRTO /\ sender.consecutive_retx = 0
    BY DEF Init, NewSender
  <2>2. Power2(0) = 1 /\ InitialRTO \in Nat
    BY PowerNext, SenderAssumption
  <2> QED BY <2>1, <2>2 DEF BackoffMatchesRetransmissions
<1>2. Invariant /\ BackoffMatchesRetransmissions /\ [Next]_vars
        => BackoffMatchesRetransmissions'
  <2> SUFFICES ASSUME Invariant, BackoffMatchesRetransmissions, [Next]_vars
               PROVE  BackoffMatchesRetransmissions'
    OBVIOUS
  <2>1. /\ sender \in Senders /\ sender.consecutive_retx \in Nat
        /\ sender.RTO = InitialRTO * Power2(sender.consecutive_retx)
    BY DEF Invariant, Consistent, Senders, BackoffMatchesRetransmissions
  <2>2. ASSUME sender'.RTO = sender.RTO,
               sender'.consecutive_retx = sender.consecutive_retx
        PROVE  BackoffMatchesRetransmissions'
    BY <2>1, <2>2 DEF BackoffMatchesRetransmissions
  <2>3. ASSUME sender'.RTO = InitialRTO, sender'.consecutive_retx = 0
        PROVE  BackoffMatchesRetransmissions'
    <3>1. Power2(0) = 1 /\ InitialRTO \in Nat
      BY PowerNext, SenderAssumption
    <3> QED BY <2>3, <3>1 DEF BackoffMatchesRetransmissions
  <2>4. ASSUME sender'.RTO = 2 * sender.RTO,
               sender'.consecutive_retx = sender.consecutive_retx + 1
        PROVE  BackoffMatchesRetransmissions'
    <3> DEFINE p == Power2(sender.consecutive_retx)
    <3>1. /\ p \in Nat /\ InitialRTO \in Nat
          /\ Power2(sender.consecutive_retx + 1) = 2 * p
      BY <2>1, PowerNext, SenderAssumption
    <3>2. InitialRTO * (2 * p) = 2 * (InitialRTO * p)
      <4> HIDE DEF p
      <4> QED BY ONLY <3>1
    <3> QED BY <2>1, <2>4, <3>1, <3>2 DEF BackoffMatchesRetransmissions
  <2>5. CASE \E n \in 1..MaxStream : AppWrite(n)
    BY <2>1, <2>2, <2>5 DEF AppWrite, Senders
  <2>6. CASE AppClose \/ AppError
    BY <2>1, <2>2, <2>6 DEF AppClose, AppError, Senders
  <2>7. CASE CallPush
    BY <2>1, <2>2, <2>7 DEF CallPush, Push, Senders
  <2>8. ASSUME NEW m \in ReceiverMessages, CallReceive(m)
        PROVE  BackoffMatchesRetransmissions'
    <3> DEFINE ack == Unwrap(m.ackno, sender.isn, sender.receiver_ackno)
    <3>1. sender' = SenderReceive(sender, m)
      BY <2>8 DEF CallReceive
    <3>2. CASE ~m.RST /\ AcksNewData(sender, m.ackno)
      <4>1. sender' = [Acknowledge(sender, ack) EXCEPT !.receiver_window = m.window_size]
        BY <3>1, <3>2 DEF SenderReceive
      <4> HIDE DEF ack
      <4>2. sender'.RTO = InitialRTO /\ sender'.consecutive_retx = 0
        BY <2>1, <4>1 DEF Acknowledge, Senders
      <4> QED BY <2>3, <4>2
    <3>3. CASE m.RST \/ ~AcksNewData(sender, m.ackno)
      BY <2>1, <2>2, <3>1, <3>3 DEF SenderReceive, Senders
    <3> QED BY <3>2, <3>3
  <2>9. ASSUME NEW ms \in Ticks, CallTick(ms)
        PROVE  BackoffMatchesRetransmissions'
    <3>1. sender' = SenderTick(sender, ms)
      BY <2>9 DEF CallTick
    <3>2. CASE TimerFires(sender, ms) /\ sender.receiver_window > 0
      <4>1. /\ sender'.RTO = 2 * sender.RTO
            /\ sender'.consecutive_retx = sender.consecutive_retx + 1
        BY <2>1, <3>1, <3>2 DEF SenderTick, TimerFires, BackedOff, Senders
      <4> QED BY <2>4, <4>1
    <3>3. CASE ~(TimerFires(sender, ms) /\ sender.receiver_window > 0)
      <4>1. /\ sender'.RTO = sender.RTO
            /\ sender'.consecutive_retx = sender.consecutive_retx
        BY <2>1, <3>1, <3>3 DEF SenderTick, BackedOff, Senders
      <4> QED BY <2>2, <4>1
    <3> QED BY <3>2, <3>3
  <2>10. CASE UNCHANGED vars
    BY <2>2, <2>10 DEF vars
  <2> QED BY <2>5, <2>6, <2>7, <2>8, <2>9, <2>10 DEF Next
<1>3. Spec => [](Invariant /\ BackoffMatchesRetransmissions)
  <2>1. Init => Invariant
    BY InitEstablishes
  <2>2. Invariant /\ [Next]_vars => Invariant'
    BY NextPreserves
  <2> QED BY <1>1, <1>2, <2>1, <2>2, PTL DEF Spec
<1> QED BY <1>3, PTL

-----------------------------------------------------------------------------
(* One turn of fill_window()'s loop.                                        *)

\* A zero window counts as one.
Advertised(s) == IF s.receiver_window = 0 THEN 1 ELSE s.receiver_window

\* What the turn reads, sends and leaves.
TurnSpace(s) ==
  LET avail == Advertised(s) - s.bytes_in_flight
  IN  IF avail > SynSpace(s) THEN avail - SynSpace(s) ELSE 0

TurnPayload(s) == Peek(s.input, Least(TurnSpace(s), MAX_PAYLOAD_SIZE))

TurnRest(s) == ReaderPop(s.input, Len(TurnPayload(s)))

TurnFin(s) ==
  /\ ~s.fin_sent
  /\ IsFinished(TurnRest(s))
  /\ s.bytes_in_flight + SynSpace(s) + Len(TurnPayload(s)) + 1 <= Advertised(s)

TurnMessage(s) ==
  SenderMessage(s, s.next_seqno, ~s.syn_sent, TurnPayload(s), TurnFin(s))

TurnRead(s) ==
  [s EXCEPT !.syn_sent = TRUE, !.input = TurnRest(s), !.fin_sent = @ \/ TurnFin(s)]

\* A turn, in terms of the segment that it makes.
LEMMA FillTurnIs ==
  ASSUME NEW s, NEW q
  PROVE  FillTurn([sender |-> s, sent |-> q, over |-> FALSE], Advertised(s)) =
           IF s.bytes_in_flight >= Advertised(s)
             THEN [sender |-> s, sent |-> q, over |-> TRUE]
           ELSE IF SequenceLength(TurnMessage(s)) = 0
             THEN [sender |-> TurnRead(s), sent |-> q, over |-> TRUE]
           ELSE [sender |-> SendSegment(TurnRead(s), TurnMessage(s)),
                 sent |-> Append(q, TurnMessage(s)), over |-> FALSE]
<1> DEFINE t == [sender |-> s, sent |-> q, over |-> FALSE]
<1>1. FillTurn(t, Advertised(s)) =
           IF t.over THEN t
           ELSE IF t.sender.bytes_in_flight >= Advertised(s)
             THEN [sender |-> t.sender, sent |-> t.sent, over |-> TRUE]
           ELSE IF SequenceLength(TurnMessage(t.sender)) = 0
             THEN [sender |-> TurnRead(t.sender), sent |-> t.sent, over |-> TRUE]
           ELSE [sender |-> SendSegment(TurnRead(t.sender), TurnMessage(t.sender)),
                 sent |-> Append(t.sent, TurnMessage(t.sender)), over |-> FALSE]
  BY DEF FillTurn, TurnMessage, TurnRead, TurnFin, TurnRest, TurnPayload, TurnSpace,
         SynSpace
<1>2. t.over = FALSE /\ t.sender = s /\ t.sent = q
  OBVIOUS
<1> HIDE DEF t
<1> QED BY <1>1, <1>2, Zenon DEF t

\* All that pushing needs of a sender.
CanPush(s) ==
  /\ s \in Senders
  /\ StreamOk(s.input)
  /\ s.fin_sent => s.syn_sent /\ IsFinished(s.input)

\* What the turn reads is the data of the first segment of the closed form, and
\* the FIN is on it if that segment is the last one.
LEMMA TurnIsFirstSegment ==
  ASSUME NEW s, CanPush(s), ~s.fin_sent, s.bytes_in_flight < Advertised(s)
  PROVE  /\ Room(s) = Advertised(s) - s.bytes_in_flight /\ Room(s) > 0
         /\ TurnPayload(s) = SegmentData(s, 1)
         /\ TurnPayload(s) \in Seq(Byte)
         /\ Len(TurnPayload(s)) = Least(MAX_PAYLOAD_SIZE, PayloadTotal(s))
         /\ TurnFin(s) <=> SendsFin(s) /\ PayloadTotal(s) <= MAX_PAYLOAD_SIZE
<1> DEFINE M   == MAX_PAYLOAD_SIZE
           R   == Room(s)
           u   == SynSpace(s)
           T   == PayloadTotal(s)
           buf == s.input.buffer
           L   == Len(buf)
           p   == Least(M, T)
<1>1. /\ s \in Senders /\ s.input \in ByteStreams /\ buf \in Seq(Byte) /\ L \in Nat
      /\ s.bytes_in_flight \in Nat /\ Advertised(s) \in Nat
      /\ M \in Nat /\ M > 0 /\ s.input.closed \in BOOLEAN
  BY SenderAssumption DEF CanPush, Senders, ByteStreams, Advertised
<1>2. R = Advertised(s) - s.bytes_in_flight
  BY <1>1 DEF Room, Advertised
<1>3. /\ R \in Nat /\ R > 0 /\ u \in {0, 1} /\ T \in Nat /\ T <= L
      /\ T = (IF R <= u THEN 0 ELSE Least(R - u, L))
  BY <1>1, <1>2, FilledFits DEF PayloadTotal
<1>4. TurnSpace(s) = (IF R > u THEN R - u ELSE 0)
  BY <1>2 DEF TurnSpace
<1>5. Least(Least(TurnSpace(s), M), L) = p
  <2> HIDE DEF R, u, T, L, M
  <2> QED BY <1>1, <1>3, <1>4 DEF Least
<1>6. p \in Nat /\ p <= L /\ p <= T /\ p <= M /\ (p = T \/ (p = M /\ M < T))
  <2> HIDE DEF R, u, T, L, M
  <2> QED BY <1>1, <1>3 DEF Least
<1>7. TurnPayload(s) = SubSeq(buf, 1, p)
  BY <1>5 DEF TurnPayload, Peek
<1>8. TurnPayload(s) = SegmentData(s, 1)
  <2>1. (1 - 1) * M + 1 = 1 /\ 1 * M = M
    BY <1>1
  <2> QED BY <1>7, <2>1 DEF SegmentData
<1>9. TurnPayload(s) \in Seq(Byte) /\ Len(TurnPayload(s)) = p
  <2>1. 0 \in Nat /\ 0 <= p /\ 0 + 1 = 1 /\ p - 0 = p
    BY <1>6
  <2> HIDE DEF p, buf, L
  <2>2. SubSeq(buf, 0 + 1, p) \in Seq(Byte) /\ Len(SubSeq(buf, 0 + 1, p)) = p - 0
    <3>1. p <= Len(buf)
      BY <1>6 DEF L
    <3> QED BY <1>1, <1>6, <2>1, <3>1, PartOfSequence
  <2> QED BY <1>7, <2>1, <2>2
<1>10. /\ TurnRest(s).closed = s.input.closed
       /\ TurnRest(s).buffer = <<>> <=> p = L
  <2>1. TurnRest(s) = ReaderPop(s.input, p)
    BY <1>9 DEF TurnRest
  <2>2. StreamOk(s.input)
    BY DEF CanPush
  <2>3. ReaderPop(s.input, p).closed = s.input.closed
    BY <1>1, <1>6, <2>2, PopAccounts
  <2>4. /\ ReaderPop(s.input, p).buffer = SubSeq(buf, p + 1, L)
        /\ Len(ReaderPop(s.input, p).buffer) = L - p
    <3>1. p + 0 <= L /\ 0 \in Nat
      BY <1>6
    <3> QED BY <1>1, <1>6, <2>2, <3>1, PopTwice
  <2>5. SubSeq(buf, p + 1, L) \in Seq(Byte)
    <3> HIDE DEF p
    <3> QED BY <1>1, <1>6, PartOfSequence
  <2>6. SubSeq(buf, p + 1, L) = <<>> <=> L - p = 0
    <3> DEFINE r == SubSeq(buf, p + 1, L)
    <3>1. r \in Seq(Byte) /\ Len(r) = L - p
      BY <2>4, <2>5
    <3> HIDE DEF r, p, L
    <3>2. r = <<>> <=> Len(r) = 0
      BY <3>1
    <3> QED BY <3>1, <3>2 DEF r
  <2>7. L - p = 0 <=> p = L
    <3> HIDE DEF p, L
    <3> QED BY <1>1, <1>6
  <2> QED BY <2>1, <2>3, <2>4, <2>6, <2>7
<1>11. TurnFin(s) <=> SendsFin(s) /\ T <= M
  <2>1. TurnFin(s) <=> /\ s.input.closed /\ p = L
                       /\ s.bytes_in_flight + u + p + 1 <= Advertised(s)
    BY <1>9, <1>10 DEF TurnFin, IsFinished
  <2>2. SendsFin(s) <=> s.input.closed /\ T = L /\ u + T + 1 <= R
    BY DEF SendsFin
  <2> HIDE DEF R, u, T, L, M, p
  <2>3. CASE p = T
    <3>1. s.bytes_in_flight + u + p + 1 <= Advertised(s) <=> u + T + 1 <= R
      <4>1. /\ s.bytes_in_flight \in Nat /\ Advertised(s) \in Nat /\ T \in Nat
            /\ u \in Nat
        BY <1>1, <1>3
      <4> HIDE DEF Advertised
      <4> QED BY <1>2, <2>3, <4>1
    <3> QED BY <1>6, <2>1, <2>2, <2>3, <3>1
  <2>4. CASE p = M /\ M < T
    <3>1. p # L /\ ~(T <= M)
      BY <1>1, <1>3, <2>4
    <3> QED BY <2>1, <3>1
  <2> QED BY <1>6, <2>3, <2>4
<1> QED BY <1>2, <1>3, <1>8, <1>9, <1>11

\* When the loop has nothing to send it ends and changes nothing, and the closed
\* form changes nothing either.
LEMMA LastTurn ==
  ASSUME NEW s, CanPush(s), NEW q,
         SegmentCount(s) = 0,
         NEW t, t = [sender |-> s, sent |-> q, over |-> FALSE]
  PROVE  /\ FillTurn(t, Advertised(s)) = [sender |-> s, sent |-> q, over |-> TRUE]
         /\ Push(s) = s
         /\ PushTransmits(s) = <<>>
<1>1. /\ s \in Senders /\ s.input \in ByteStreams /\ s.outstanding \in Seq(Segments)
      /\ s.syn_sent \in BOOLEAN /\ s.fin_sent \in BOOLEAN
      /\ s.timer_running \in BOOLEAN /\ s.next_seqno \in Nat /\ s.bytes_in_flight \in Nat
      /\ Advertised(s) \in Nat
  BY DEF CanPush, Senders, Advertised
<1>2. /\ Filled(s) = 0 /\ PayloadTotal(s) = 0 /\ ~SendsFin(s)
      /\ Room(s) > 0 => s.syn_sent
      /\ Room(s) \in Nat /\ PayloadTotal(s) \in Nat
  <2>1. Filled(s) = 0
    BY <1>1, DataOfSegments
  <2> QED BY <1>1, <2>1, FilledFits DEF Filled, SynSpace
<1>3. ReaderPop(s.input, 0) = s.input
  BY <1>1, PopNothing
<1>4. NewSegments(s) = <<>>
  <2>1. NewSegments(s) \in Seq(Segments) /\ Len(NewSegments(s)) = 0
    BY <1>1, NewSegmentsContinue
  <2> QED BY <2>1
<1>5. PushTransmits(s) = <<>>
  <2>1. DOMAIN NewSegments(s) = {}
    BY <1>4
  <2> QED BY <2>1 DEF PushTransmits
<1>6. Push(s) = s
  <2>1. /\ ReaderPop(s.input, PayloadTotal(s)) = s.input
        /\ s.next_seqno + Filled(s) = s.next_seqno
        /\ s.bytes_in_flight + Filled(s) = s.bytes_in_flight
        /\ s.outstanding \o NewSegments(s) = s.outstanding
        /\ (s.syn_sent \/ Room(s) > 0) = s.syn_sent
        /\ (s.fin_sent \/ SendsFin(s)) = s.fin_sent
        /\ (s.timer_running \/ SegmentCount(s) > 0) = s.timer_running
        /\ (IF SegmentCount(s) > 0 /\ ~s.timer_running THEN 0 ELSE s.timer_elapsed_ms)
             = s.timer_elapsed_ms
    BY <1>1, <1>2, <1>3, <1>4
  <2>2. Push(s) = [s EXCEPT !.input = s.input, !.next_seqno = s.next_seqno,
                            !.bytes_in_flight = s.bytes_in_flight,
                            !.outstanding = s.outstanding,
                            !.syn_sent = s.syn_sent, !.fin_sent = s.fin_sent,
                            !.timer_running = s.timer_running,
                            !.timer_elapsed_ms = s.timer_elapsed_ms]
    BY <2>1, Zenon DEF Push
  <2> QED BY <1>1, <2>2 DEF Senders
<1>8. CASE s.bytes_in_flight >= Advertised(s)
  <2>1. FillTurn(t, Advertised(s)) = [sender |-> s, sent |-> q, over |-> TRUE]
    BY <1>8, FillTurnIs, Zenon
  <2> QED BY <1>5, <1>6, <2>1
<1>9. CASE ~(s.bytes_in_flight >= Advertised(s))
  <2>1. TurnPayload(s) = <<>> /\ Len(TurnPayload(s)) = 0 /\ s.syn_sent
    <3>1. CASE s.fin_sent
      <4>1. s.input.buffer = <<>> /\ s.syn_sent
        BY <3>1 DEF CanPush, IsFinished
      <4>2. TurnPayload(s) = SubSeq(<<>>, 1, Least(Least(TurnSpace(s), MAX_PAYLOAD_SIZE), 0))
        BY <4>1 DEF TurnPayload, Peek
      <4>3. Least(Least(TurnSpace(s), MAX_PAYLOAD_SIZE), 0) \in {0}
        <5>1. TurnSpace(s) \in Nat /\ MAX_PAYLOAD_SIZE \in Nat
          BY <1>1, SenderAssumption DEF TurnSpace, SynSpace
        <5> QED BY <5>1 DEF Least
      <4>4. SubSeq(<<>>, 1, 0) = <<>>
        OBVIOUS
      <4> QED BY <4>1, <4>2, <4>3, <4>4
    <3>2. CASE ~s.fin_sent
      <4>1. /\ Len(TurnPayload(s)) = Least(MAX_PAYLOAD_SIZE, 0)
            /\ TurnPayload(s) \in Seq(Byte) /\ Room(s) > 0
        BY <1>1, <1>2, <1>9, <3>2, TurnIsFirstSegment
      <4>2. Least(MAX_PAYLOAD_SIZE, 0) = 0
        BY SenderAssumption DEF Least
      <4> QED BY <1>2, <4>1, <4>2
    <3> QED BY <3>1, <3>2
  <2>2. TurnFin(s) = FALSE
    <3>1. CASE s.fin_sent
      BY <3>1 DEF TurnFin
    <3>2. CASE ~s.fin_sent
      <4>1. TurnFin(s) => SendsFin(s)
        BY <1>1, <1>9, <3>2, TurnIsFirstSegment
      <4> QED BY <1>2, <4>1
    <3> QED BY <3>1, <3>2
  <2>3. SequenceLength(TurnMessage(s)) = 0
    <3>1. TurnMessage(s).SYN = ~s.syn_sent /\ TurnMessage(s).payload = TurnPayload(s)
          /\ TurnMessage(s).FIN = TurnFin(s)
      BY DEF TurnMessage, SenderMessage
    <3>2. ~TurnMessage(s).SYN /\ ~TurnMessage(s).FIN /\ Len(TurnMessage(s).payload) = 0
      BY <1>1, <2>1, <2>2, <3>1
    <3> QED BY <3>2 DEF SequenceLength
  <2>4. TurnRead(s) = s
    <3>1. TurnRest(s) = s.input
      BY <1>3, <2>1 DEF TurnRest
    <3>2. TurnRead(s) = [s EXCEPT !.syn_sent = s.syn_sent, !.input = s.input,
                                  !.fin_sent = s.fin_sent]
      <4>1. TRUE = s.syn_sent /\ (s.fin_sent \/ TurnFin(s)) = s.fin_sent
        BY <1>1, <2>1, <2>2
      <4> QED BY <3>1, <4>1, Zenon DEF TurnRead
    <3> QED BY <1>1, <3>2 DEF Senders
  <2>5. FillTurn(t, Advertised(s)) = [sender |-> TurnRead(s), sent |-> q, over |-> TRUE]
    BY <1>9, <2>3, FillTurnIs, Zenon
  <2> QED BY <1>5, <1>6, <2>4, <2>5
<1> QED BY <1>8, <1>9

\* The turn sends the first segment of the closed form.
LEMMA TurnSendsFirst ==
  ASSUME NEW s, CanPush(s), SegmentCount(s) > 0
  PROVE  /\ ~s.fin_sent /\ s.bytes_in_flight < Advertised(s)
         /\ TurnMessage(s) = NewSegments(s)[1].msg
         /\ NewSegments(s)[1] =
              [msg |-> TurnMessage(s), seq_start |-> s.next_seqno,
               len |-> SequenceLength(TurnMessage(s))]
         /\ SequenceLength(TurnMessage(s)) \in Nat /\ SequenceLength(TurnMessage(s)) > 0
         /\ SequenceLength(TurnMessage(s)) =
              SynSpace(s) + Least(MAX_PAYLOAD_SIZE, PayloadTotal(s))
                + (IF TurnFin(s) THEN 1 ELSE 0)
         /\ SegmentCount(s) = 1 <=> PayloadTotal(s) <= MAX_PAYLOAD_SIZE
<1> DEFINE M     == MAX_PAYLOAD_SIZE
           T     == PayloadTotal(s)
           count == SegmentCount(s)
           msg   == TurnMessage(s)
<1>1. /\ s \in Senders /\ s.next_seqno \in Nat /\ s.bytes_in_flight \in Nat
      /\ s.fin_sent \in BOOLEAN /\ s.syn_sent \in BOOLEAN /\ Advertised(s) \in Nat
      /\ M \in Nat /\ M > 0 /\ count \in Nat /\ T \in Nat
      /\ SynSpace(s) \in {0, 1} /\ SendsFin(s) \in BOOLEAN
  BY SenderAssumption, DataOfSegments, FilledFits DEF CanPush, Senders, Advertised
<1>2. ~s.fin_sent /\ s.bytes_in_flight < Advertised(s)
  <2>1. Room(s) # 0
    BY <1>1, DataOfSegments
  <2> QED BY <1>1, <2>1 DEF Room, Advertised
<1>3. /\ TurnPayload(s) = SegmentData(s, 1) /\ TurnPayload(s) \in Seq(Byte)
      /\ Len(TurnPayload(s)) = Least(M, T)
      /\ TurnFin(s) <=> SendsFin(s) /\ T <= M
  BY <1>2, TurnIsFirstSegment
<1>4. count = 1 <=> T <= M
  <2>1. CASE T = 0
    BY <1>1, <2>1, DataOfSegments
  <2>2. CASE T > 0
    <3>1. (count - 1) * M < T /\ T <= count * M
      BY <1>1, <2>2, DataOfSegments
    <3>2. ASSUME count = 1 PROVE T <= M
      <4>1. count * M = M
        BY <1>1, <3>2
      <4> HIDE DEF count
      <4> QED BY <3>1, <4>1
    <3>3. ASSUME count > 1 PROVE T > M
      <4>1. (count - 1) * M >= M
        <5>1. count - 1 >= 1 /\ count - 1 \in Nat
          BY <1>1, <3>3
        <5> HIDE DEF count
        <5>2. \A c \in Nat : c >= 1 => c * M >= M
          BY <1>1, Z3
        <5> QED BY <5>1, <5>2
      <4>2. (count - 1) * M \in Nat
        BY <1>1
      <4> HIDE DEF count
      <4> QED BY <1>1, <3>1, <4>1, <4>2
    <3> QED BY <1>1, <3>2, <3>3
  <2> QED BY <1>1, <2>1, <2>2
<1>5. /\ msg.SYN = ~s.syn_sent /\ msg.payload = TurnPayload(s)
      /\ msg.FIN = TurnFin(s)
  BY DEF TurnMessage, SenderMessage
<1>6. TurnFin(s) \in BOOLEAN /\ TurnFin(s) = (1 = count /\ SendsFin(s))
  BY <1>1, <1>3, <1>4 DEF TurnFin
<1>7. SequenceLength(msg) = SynSpace(s) + Least(M, T) + (IF TurnFin(s) THEN 1 ELSE 0)
  <2>1. (IF msg.SYN THEN 1 ELSE 0) = SynSpace(s)
    BY <1>1, <1>5 DEF SynSpace
  <2>2. Len(msg.payload) = Least(M, T)
    BY <1>3, <1>5
  <2>3. (IF msg.FIN THEN 1 ELSE 0) = (IF TurnFin(s) THEN 1 ELSE 0)
    BY <1>5
  <2> QED BY <2>1, <2>2, <2>3 DEF SequenceLength
<1>8. 1 \in 1..count
  BY <1>1
<1>9. NewSegments(s)[1] =
        [msg |-> msg, seq_start |-> s.next_seqno, len |-> SequenceLength(msg)]
  <2> DEFINE begin == s.next_seqno + (IF 1 = 1 THEN 0 ELSE SynSpace(s) + (1 - 1) * M)
             data  == SubSeq(s.input.buffer, (1 - 1) * M + 1, Least(1 * M, T))
             one   == SenderMessage(s, begin, 1 = 1 /\ ~s.syn_sent, data,
                                    1 = count /\ SendsFin(s))
  <2>1. NewSegments(s)[1] =
          [msg |-> one, seq_start |-> begin, len |-> SequenceLength(one)]
    BY <1>8 DEF NewSegments
  <2>2. begin = s.next_seqno
    BY <1>1
  <2>3. data = TurnPayload(s)
    BY <1>3 DEF SegmentData
  <2>4. (1 = 1 /\ ~s.syn_sent) = ~s.syn_sent
    OBVIOUS
  <2>5. one = msg
    BY <1>6, <2>2, <2>3, <2>4, Zenon DEF TurnMessage
  <2> HIDE DEF one, begin, data, msg
  <2> QED BY <2>1, <2>2, <2>5
<1>10. SequenceLength(msg) \in Nat /\ SequenceLength(msg) > 0
  <2>1. NewSegments(s)[1].len > 0 /\ NewSegments(s)[1].len = SegmentLength(s, 1)
    BY <1>1, <1>8, SegmentShape
  <2>2. NewSegments(s)[1] \in Segments
    BY <1>1, <1>8, SegmentShape
  <2>3. NewSegments(s)[1].len = SequenceLength(msg)
    BY <1>9
  <2> QED BY <2>1, <2>2, <2>3 DEF Segments
<1>11. msg = NewSegments(s)[1].msg
  BY <1>9
<1> QED BY <1>2, <1>4, <1>7, <1>9, <1>10, <1>11

\* A sender after a turn that reads p bytes and sends len numbers.
AfterTurn(s, p, len) ==
  [s EXCEPT !.input = ReaderPop(s.input, p),
            !.syn_sent = TRUE, !.fin_sent = TurnFin(s),
            !.outstanding = Append(s.outstanding, NewSegments(s)[1]),
            !.bytes_in_flight = s.bytes_in_flight + len,
            !.next_seqno = s.next_seqno + len,
            !.timer_running = TRUE,
            !.timer_elapsed_ms = IF s.timer_running THEN s.timer_elapsed_ms ELSE 0]

\* That is what the turn leaves.
LEMMA TurnLeaves ==
  ASSUME NEW s, CanPush(s), SegmentCount(s) > 0,
         NEW r, r = SendSegment(TurnRead(s), TurnMessage(s)),
         NEW p, p = Least(MAX_PAYLOAD_SIZE, PayloadTotal(s)),
         NEW len, len = SequenceLength(TurnMessage(s))
  PROVE  /\ CanPush(r)
         /\ r = AfterTurn(s, p, len)
         /\ p \in Nat /\ p <= PayloadTotal(s) /\ p <= Len(s.input.buffer)
         /\ TurnFin(s) \in BOOLEAN
<1>1. /\ s \in Senders /\ s.input \in ByteStreams /\ StreamOk(s.input)
      /\ s.outstanding \in Seq(Segments) /\ s.fin_sent = FALSE
      /\ s.next_seqno \in Nat /\ s.bytes_in_flight \in Nat
      /\ s.timer_elapsed_ms \in Nat /\ Len(s.input.buffer) \in Nat
  <2>1. s.fin_sent = FALSE
    <3>1. ~s.fin_sent
      BY TurnSendsFirst
    <3> QED BY <3>1 DEF CanPush, Senders
  <2> QED BY <2>1 DEF CanPush, Senders, ByteStreams
<1>2. /\ p \in Nat /\ p <= PayloadTotal(s) /\ p <= Len(s.input.buffer)
  BY <1>1, SenderAssumption, FilledFits DEF Least
<1>3. Len(TurnPayload(s)) = p /\ TurnFin(s) \in BOOLEAN
  BY TurnSendsFirst, TurnIsFirstSegment DEF TurnFin
<1>4. /\ NewSegments(s)[1] = [msg |-> TurnMessage(s), seq_start |-> s.next_seqno, len |-> len]
      /\ NewSegments(s)[1] \in Segments
      /\ len \in Nat
  <2>1. 1 \in 1..SegmentCount(s)
    BY <1>1, DataOfSegments
  <2> QED BY <1>1, <2>1, TurnSendsFirst, SegmentShape
<1> DEFINE input == ReaderPop(s.input, p)
           first == NewSegments(s)[1]
           fin   == TurnFin(s)
           msg   == TurnMessage(s)
           read  == TurnRead(s)
<1>5. read = [s EXCEPT !.syn_sent = TRUE, !.input = input, !.fin_sent = fin]
  <2>1. TurnRest(s) = input
    BY <1>3 DEF TurnRest
  <2>2. (s.fin_sent \/ fin) = fin
    BY <1>1, <1>3
  <2> QED BY <2>1, <2>2, Zenon DEF TurnRead
<1>6. input \in ByteStreams /\ StreamOk(input)
  BY <1>1, <1>2, PopAccounts
<1> DEFINE elapsed == IF s.timer_running THEN s.timer_elapsed_ms ELSE 0
           flight  == s.bytes_in_flight + len
           next    == s.next_seqno + len
           out     == Append(s.outstanding, first)
<1>7. elapsed \in Nat /\ flight \in Nat /\ next \in Nat /\ out \in Seq(Segments)
  <2> HIDE DEF first
  <2> QED BY <1>1, <1>4 DEF first
<1>8. r = [s EXCEPT !.input = input, !.syn_sent = TRUE, !.fin_sent = fin,
                    !.outstanding = out,
                    !.bytes_in_flight = flight, !.next_seqno = next,
                    !.timer_running = TRUE,
                    !.timer_elapsed_ms = elapsed]
  <2>1. /\ read.next_seqno = s.next_seqno /\ read.bytes_in_flight = s.bytes_in_flight
        /\ read.outstanding = s.outstanding /\ read.timer_running = s.timer_running
        /\ read.timer_elapsed_ms = s.timer_elapsed_ms
    BY <1>1, <1>5 DEF Senders
  <2>2. r = [read EXCEPT !.outstanding = out, !.bytes_in_flight = flight,
                         !.next_seqno = next, !.timer_running = TRUE,
                         !.timer_elapsed_ms = elapsed]
    <3> HIDE DEF read, msg
    <3> QED BY <1>4, <2>1 DEF SendSegment, read, msg
  <2> HIDE DEF read, input, fin, out, flight, next, elapsed
  <2> QED BY <1>1, <1>5, <2>2 DEF Senders
<1>9. CanPush(r)
  <2>1. r \in Senders /\ r.input = input /\ r.syn_sent /\ r.fin_sent = fin
    <3> HIDE DEF input, fin, out, flight, next, elapsed
    <3>1. fin \in BOOLEAN
      BY <1>3 DEF fin
    <3>2. r.input = input /\ r.syn_sent = TRUE /\ r.fin_sent = fin
      BY <1>1, <1>8 DEF Senders
    <3>3. s \in Senders /\ input \in ByteStreams
      BY <1>1, <1>6
    <3>4. [s EXCEPT !.input = input, !.syn_sent = TRUE, !.fin_sent = fin,
                    !.outstanding = out,
                    !.bytes_in_flight = flight, !.next_seqno = next,
                    !.timer_running = TRUE,
                    !.timer_elapsed_ms = elapsed] \in Senders
      BY <1>7, <3>1, <3>3 DEF Senders
    <3> QED BY <1>8, <3>2, <3>4
  <2>2. fin => IsFinished(input)
    BY <1>3 DEF TurnFin, TurnRest
  <2> QED BY <1>6, <2>1, <2>2 DEF CanPush
<1> QED BY <1>2, <1>3, <1>8, <1>9, Zenon DEF AfterTurn

\* What is left to push after the turn is what the closed form has after its
\* first segment.
LEMMA RestOfPush ==
  ASSUME NEW s, CanPush(s), SegmentCount(s) > 0,
         NEW r, r = SendSegment(TurnRead(s), TurnMessage(s)),
         NEW p, p = Least(MAX_PAYLOAD_SIZE, PayloadTotal(s)),
         NEW len, len = SequenceLength(TurnMessage(s))
  PROVE  /\ SynSpace(r) = 0
         /\ PayloadTotal(r) = PayloadTotal(s) - p
         /\ SendsFin(r) <=> SendsFin(s) /\ ~TurnFin(s)
         /\ SendsFin(s) /\ TurnFin(s) => SegmentCount(s) = 1
         /\ TurnFin(s) => SendsFin(s)
         /\ SegmentCount(r) = SegmentCount(s) - 1
         /\ Filled(r) = Filled(s) - len
<1> DEFINE M == MAX_PAYLOAD_SIZE
           R == Room(s)
           u == SynSpace(s)
           T == PayloadTotal(s)
           L == Len(s.input.buffer)
           F == TurnFin(s)
           A == Advertised(s)
           b == s.bytes_in_flight
<1>1. /\ s \in Senders /\ s.input \in ByteStreams /\ StreamOk(s.input)
      /\ b \in Nat /\ A \in Nat /\ L \in Nat
      /\ M \in Nat /\ M > 0 /\ s.input.closed \in BOOLEAN
      /\ SegmentCount(s) \in Nat
  BY SenderAssumption, DataOfSegments DEF CanPush, Senders, ByteStreams, Advertised
<1>2. /\ ~s.fin_sent /\ b < A /\ len \in Nat /\ len > 0
      /\ len = u + p + (IF F THEN 1 ELSE 0)
      /\ SegmentCount(s) = 1 <=> T <= M
  BY TurnSendsFirst
<1>3. /\ R = A - b /\ R > 0
      /\ F <=> SendsFin(s) /\ T <= M
  BY <1>2, TurnIsFirstSegment
<1>4. /\ CanPush(r) /\ r \in Senders
      /\ r.input = ReaderPop(s.input, p) /\ r.syn_sent = TRUE /\ r.fin_sent = F
      /\ r.bytes_in_flight = b + len /\ r.receiver_window = s.receiver_window
      /\ p \in Nat /\ p <= T /\ p <= L /\ F \in BOOLEAN
  <2>1. r = AfterTurn(s, p, len)
    BY TurnLeaves
  <2>2. /\ r.input = ReaderPop(s.input, p) /\ r.syn_sent = TRUE /\ r.fin_sent = F
        /\ r.bytes_in_flight = b + len /\ r.receiver_window = s.receiver_window
    BY <1>1, <2>1 DEF AfterTurn, Senders
  <2>3. CanPush(r) /\ p \in Nat /\ p <= T /\ p <= L /\ F \in BOOLEAN
    BY TurnLeaves, Zenon
  <2> QED BY <2>2, <2>3 DEF CanPush
<1>5. Len(r.input.buffer) = L - p /\ r.input.closed = s.input.closed
  <2>1. p + 0 <= L /\ 0 \in Nat
    BY <1>1, <1>4
  <2> DEFINE in == s.input
  <2>2. in \in ByteStreams /\ StreamOk(in) /\ p \in Nat /\ p <= Len(in.buffer)
        /\ p + 0 <= Len(in.buffer) /\ 0 \in Nat
    BY <1>1, <1>4, <2>1
  <2> HIDE DEF in
  <2>3. Len(ReaderPop(in, p).buffer) = Len(in.buffer) - p
    BY <2>2, PopTwice
  <2>4. ReaderPop(in, p).closed = in.closed
    BY <2>2, PopAccounts
  <2> QED BY <1>4, <2>3, <2>4 DEF in
<1>6. /\ T \in Nat /\ T <= L /\ u \in {0, 1} /\ R \in Nat
      /\ T = (IF R <= u THEN 0 ELSE Least(R - u, L))
      /\ u + T <= R
      /\ SendsFin(s) <=> s.input.closed /\ T = L /\ u + T + 1 <= R
      /\ SendsFin(s) \in BOOLEAN
      /\ (p = T /\ T <= M) \/ (p = M /\ M < T)
      /\ Filled(s) = u + T + (IF SendsFin(s) THEN 1 ELSE 0)
  <2>1. (p = T /\ T <= M) \/ (p = M /\ M < T)
    BY <1>1, FilledFits DEF Least
  <2>2. R \in Nat /\ u \in {0, 1} /\ T \in Nat /\ T <= L /\ u + T <= R
        /\ SendsFin(s) \in BOOLEAN
    BY <1>1, <1>3, FilledFits
  <2> QED BY <1>1, <1>3, <2>1, <2>2 DEF PayloadTotal, SendsFin, Filled
<1>7. SynSpace(r) = 0
  BY <1>4 DEF SynSpace
<1>8. Room(r) = IF F \/ b + len >= A THEN 0 ELSE A - (b + len)
  BY <1>4 DEF Room, Advertised
<1> HIDE DEF M, R, u, T, L, F, A, b
<1>9. F => T <= M /\ p = T
  BY <1>1, <1>3, <1>6
<1>10. /\ Room(r) \in Nat
       /\ F => Room(r) = 0
       /\ ~F => Room(r) = R - u - p
  <2>1. CASE F
    BY <1>8, <2>1
  <2>2. CASE ~F
    <3>1. len = u + p /\ u \in Nat /\ p \in Nat
      BY <1>2, <1>4, <1>6, <2>2
    <3>2. u + p <= R
      BY <1>4, <1>6
    <3> QED BY <1>1, <1>3, <1>8, <2>2, <3>1, <3>2
  <2> QED BY <2>1, <2>2
<1>11. PayloadTotal(r) = IF Room(r) <= 0 THEN 0 ELSE Least(Room(r) - 0, L - p)
  BY <1>5, <1>7 DEF PayloadTotal
<1>12. PayloadTotal(r) = T - p
  <2>1. CASE F
    BY <1>6, <1>9, <1>10, <1>11, <2>1
  <2>2. CASE ~F
    <3>1. CASE R <= u
      BY <1>4, <1>6, <1>10, <1>11, <2>2, <3>1
    <3>2. CASE ~(R <= u)
      <4>1. T = Least(R - u, L)
        BY <1>6, <3>2
      <4>2. u \in Nat /\ R \in Nat /\ L \in Nat /\ p \in Nat /\ p <= L /\ p <= R - u
        BY <1>1, <1>4, <1>6
      <4>3. Room(r) = R - u - p
        BY <1>10, <2>2
      <4> QED BY <1>11, <4>1, <4>2, <4>3 DEF Least
    <3> QED BY <3>1, <3>2
  <2> QED BY <2>1, <2>2
<1>13. SendsFin(r) <=> s.input.closed /\ T - p = L - p /\ 0 + (T - p) + 1 <= Room(r)
  BY <1>5, <1>7, <1>12 DEF SendsFin
<1>14. SendsFin(r) <=> SendsFin(s) /\ ~F
  <2>1. CASE F
    <3>1. ~(0 + (T - p) + 1 <= Room(r))
      BY <1>4, <1>6, <1>9, <1>10, <2>1
    <3> QED BY <1>13, <2>1, <3>1
  <2>2. CASE ~F
    <3>1. T - p = L - p <=> T = L
      BY <1>1, <1>4, <1>6
    <3>2. 0 + (T - p) + 1 <= Room(r) <=> u + T + 1 <= R
      <4>1. Room(r) = R - u - p /\ u \in Nat
        BY <1>6, <1>10, <2>2
      <4> QED BY <1>4, <1>6, <4>1
    <3> QED BY <1>6, <1>13, <2>2, <3>1, <3>2
  <2> QED BY <2>1, <2>2
<1>15. SegmentCount(r) =
         IF Room(r) = 0 THEN 0
         ELSE IF T - p = 0 THEN IF SendsFin(s) /\ ~F THEN 1 ELSE 0
         ELSE ((T - p) + M - 1) \div M
  BY <1>7, <1>12, <1>14 DEF SegmentCount, M
<1>16. SegmentCount(r) = SegmentCount(s) - 1
  <2>1. CASE T <= M
    <3>1. p = T /\ SegmentCount(s) = 1 /\ (SendsFin(s) => F)
      BY <1>1, <1>2, <1>3, <1>6, <2>1
    <3>2. T - p = 0
      BY <1>6, <3>1
    <3> QED BY <1>15, <3>1, <3>2
  <2>2. CASE ~(T <= M)
    <3>1. p = M /\ T - p \in Nat /\ T - p > 0 /\ ~F
      <4>1. p = M /\ ~F
        BY <1>1, <1>6, <1>9, <2>2
      <4>2. M < T /\ T \in Nat
        BY <1>1, <1>6, <2>2
      <4> QED BY <1>1, <4>1, <4>2
    <3>2. Room(r) >= T - p
      <4>1. Room(r) = R - u - p /\ u \in Nat
        BY <1>6, <1>10, <3>1
      <4> QED BY <1>4, <1>6, <4>1
    <3>3. SegmentCount(r) = ((T - M) + M - 1) \div M
      BY <1>6, <1>10, <1>15, <3>1, <3>2
    <3>4. SegmentCount(s) = (T + M - 1) \div M
      <4>1. R # 0 /\ T # 0
        BY <1>1, <1>3, <1>6, <2>2
      <4> QED BY <4>1 DEF SegmentCount, R, T, M
    <3>5. (T + M - 1) \div M = ((T - M) + M - 1) \div M + 1
      <4>1. T \in Nat /\ M \in Nat /\ M > 0 /\ T > M
        BY <1>1, <1>6, <2>2
      <4> QED BY <4>1, Z3
    <3>6. ((T - M) + M - 1) \div M \in Int
      BY <1>1, <1>6, <3>1
    <3> QED BY <3>3, <3>4, <3>5, <3>6
  <2> QED BY <2>1, <2>2
<1>17. Filled(r) = Filled(s) - len
  <2>1. Filled(r) = (T - p) + (IF SendsFin(s) /\ ~F THEN 1 ELSE 0)
    BY <1>4, <1>6, <1>7, <1>12, <1>14 DEF Filled
  <2>2. F => SendsFin(s)
    BY <1>3
  <2>3. u \in Nat
    BY <1>6
  <2>4. Filled(s) - len =
          (T - p) + ((IF SendsFin(s) THEN 1 ELSE 0) - (IF F THEN 1 ELSE 0))
    <3> DEFINE x == IF SendsFin(s) THEN 1 ELSE 0
               y == IF F THEN 1 ELSE 0
    <3>1. x \in Nat /\ y \in Nat
      OBVIOUS
    <3>2. Filled(s) = u + T + x /\ len = u + p + y /\ T \in Nat /\ p \in Nat
      BY <1>2, <1>4, <1>6
    <3> HIDE DEF x, y
    <3>3. Filled(s) - len = (T - p) + (x - y)
      BY <2>3, <3>1, <3>2
    <3> QED BY <3>3 DEF x, y
  <2> QED BY <1>4, <1>6, <2>1, <2>2, <2>4
<1> QED BY <1>2, <1>3, <1>7, <1>12, <1>14, <1>16, <1>17 DEF T, F, M

\* Multiplication keeps the order.
LEMMA TimesGrows ==
  ASSUME NEW a \in Nat, NEW b \in Nat, a <= b, NEW c \in Nat
  PROVE  a * c <= b * c
<1>1. PICK d \in Nat : b = a + d
  <2>1. b - a \in Nat /\ b = a + (b - a)
    OBVIOUS
  <2> QED BY <2>1
<1>2. b * c = a * c + d * c
  BY <1>1
<1>3. a * c \in Nat /\ d * c \in Nat
  OBVIOUS
<1> QED BY <1>2, <1>3

\* The segments of the rest are those that follow the first.
LEMMA RestOfSegments ==
  ASSUME NEW s, CanPush(s), SegmentCount(s) > 0,
         NEW r, r = SendSegment(TurnRead(s), TurnMessage(s)),
         NEW k \in 1..SegmentCount(r)
  PROVE  /\ k + 1 \in 1..SegmentCount(s)
         /\ NewSegments(r)[k] = NewSegments(s)[k + 1]
<1> DEFINE M     == MAX_PAYLOAD_SIZE
           T     == PayloadTotal(s)
           buf   == s.input.buffer
           count == SegmentCount(s)
           p     == Least(M, T)
           len   == SequenceLength(TurnMessage(s))
           beg(x, j)  == x.next_seqno + (IF j = 1 THEN 0 ELSE SynSpace(x) + (j - 1) * M)
           data(x, j) == SubSeq(x.input.buffer, (j - 1) * M + 1,
                                Least(j * M, PayloadTotal(x)))
           last(x, j) == j = SegmentCount(x) /\ SendsFin(x)
           syn(x, j)  == j = 1 /\ ~x.syn_sent
           msg(x, j)  == SenderMessage(x, beg(x, j), syn(x, j), data(x, j), last(x, j))
<1>1. /\ s \in Senders /\ s.input \in ByteStreams /\ StreamOk(s.input)
      /\ buf \in Seq(Byte) /\ Len(buf) \in Nat
      /\ s.next_seqno \in Nat
      /\ M \in Nat /\ M > 0
      /\ count \in Nat /\ T \in Nat /\ T <= Len(buf) /\ SynSpace(s) \in Nat
  <2>1. s \in Senders /\ StreamOk(s.input)
    BY DEF CanPush
  <2>2. /\ s.input \in ByteStreams /\ s.next_seqno \in Nat
        /\ buf \in Seq(Byte) /\ Len(buf) \in Nat
    BY <2>1 DEF Senders, ByteStreams
  <2>3. count \in Nat
    BY <2>1, DataOfSegments
  <2>4. T \in Nat /\ T <= Len(buf) /\ SynSpace(s) \in {0, 1}
    BY <2>1, FilledFits
  <2>5. M \in Nat /\ M > 0
    BY SenderAssumption
  <2> HIDE DEF buf, count, T, M
  <2>6. SynSpace(s) \in Nat
    BY <2>4
  <2> QED BY <2>1, <2>2, <2>3, <2>4, <2>5, <2>6
<1>2. /\ p \in Nat /\ p <= T
      /\ r = AfterTurn(s, p, len)
      /\ r.next_seqno = s.next_seqno + len /\ r.input = ReaderPop(s.input, p)
      /\ r.isn = s.isn /\ r.syn_sent = TRUE
  <2>1. CanPush(r) /\ r = AfterTurn(s, p, len) /\ p \in Nat /\ p <= T
    BY TurnLeaves
  <2> HIDE DEF p, len
  <2> QED BY <1>1, <2>1 DEF AfterTurn, Senders
<1>3. /\ SynSpace(r) = 0 /\ PayloadTotal(r) = T - p
      /\ SendsFin(r) <=> SendsFin(s) /\ ~TurnFin(s)
      /\ SendsFin(s) /\ TurnFin(s) => count = 1
      /\ SegmentCount(r) = count - 1
  BY RestOfPush
<1>4. /\ len = SynSpace(s) + p + (IF TurnFin(s) THEN 1 ELSE 0)
      /\ count = 1 <=> T <= M
      /\ TurnFin(s) => SendsFin(s)
  BY TurnSendsFirst, RestOfPush
<1>5. /\ k \in Nat /\ k >= 1 /\ k + 1 \in 1..count /\ k <= count - 1
      /\ T > M /\ p = M /\ ~TurnFin(s)
  <2>1. k \in Nat /\ k >= 1 /\ k + 1 \in 1..count /\ k <= count - 1
    BY <1>1, <1>3
  <2>2. T > M /\ ~TurnFin(s)
    BY <1>1, <1>3, <1>4, <2>1
  <2>3. p = M
    BY <1>1, <2>2 DEF Least
  <2> QED BY <2>1, <2>2, <2>3
<1>6. /\ (k - 1) * M \in Nat /\ k * M \in Nat /\ k * M = (k - 1) * M + M
      /\ ((k + 1) - 1) * M = k * M /\ (k + 1) * M = k * M + M
      /\ (k - 1) * M < T - M
      /\ k = 1 => (k - 1) * M = 0
  <2>1. /\ (k - 1) * M \in Nat /\ k * M \in Nat /\ k * M = (k - 1) * M + M
        /\ ((k + 1) - 1) * M = k * M /\ (k + 1) * M = k * M + M
        /\ k = 1 => (k - 1) * M = 0
    <3>1. k \in Nat /\ k >= 1 /\ M \in Nat
      BY <1>1, <1>5
    <3> QED BY ONLY <3>1, Z3
  <2>2. (count - 1) * M < T
    <3>1. s \in Senders /\ T > 0
      BY <1>1, <1>5
    <3> QED BY <3>1, DataOfSegments
  <2>3. k * M <= (count - 1) * M
    <3>1. k \in Nat /\ count - 1 \in Nat /\ k <= count - 1 /\ M \in Nat
      BY <1>1, <1>5
    <3> HIDE DEF M, count
    <3> QED BY <3>1, TimesGrows
  <2>4. (count - 1) * M \in Int
    BY <1>1
  <2>5. k * M < T
    <3> DEFINE a == k * M
               c == (count - 1) * M
    <3>1. a \in Nat /\ c \in Int /\ a <= c /\ c < T /\ T \in Nat
      BY <1>1, <2>1, <2>2, <2>3, <2>4
    <3> HIDE DEF a, c, T
    <3>2. a < T
      BY <3>1
    <3> QED BY <3>2 DEF a
  <2> QED BY <1>1, <2>1, <2>5
<1>7. beg(r, k) = beg(s, k + 1)
  <2>1. beg(r, k) = (s.next_seqno + SynSpace(s) + M) + (k - 1) * M
    <3>1. len = SynSpace(s) + M
      BY <1>1, <1>4, <1>5
    <3>2. beg(r, k) = (s.next_seqno + len) + (IF k = 1 THEN 0 ELSE 0 + (k - 1) * M)
      BY <1>2, <1>3
    <3> DEFINE c == (k - 1) * M
    <3>3. c \in Nat /\ (k = 1 => c = 0)
      BY <1>6
    <3> HIDE DEF c, len
    <3>4. (IF k = 1 THEN 0 ELSE 0 + c) = c
      BY <3>3
    <3>5. (s.next_seqno + len) + (IF k = 1 THEN 0 ELSE 0 + c)
            = (s.next_seqno + SynSpace(s) + M) + c
      BY <1>1, <3>1, <3>3, <3>4
    <3> QED BY <3>2, <3>5 DEF c
  <2>2. beg(s, k + 1) = s.next_seqno + (SynSpace(s) + k * M)
    BY <1>5, <1>6
  <2> DEFINE c == (k - 1) * M
             d == k * M
  <2>3. c \in Nat /\ d = c + M
    BY <1>6
  <2> HIDE DEF c, d, beg
  <2>4. (s.next_seqno + SynSpace(s) + M) + c = s.next_seqno + (SynSpace(s) + d)
    <3>1. s.next_seqno \in Nat /\ SynSpace(s) \in Nat /\ M \in Nat
      BY <1>1
    <3> QED BY <2>3, <3>1
  <2> QED BY <2>1, <2>2, <2>4 DEF c, d
<1>8. data(r, k) = data(s, k + 1)
  <2> DEFINE from == (k - 1) * M
             upto == Least(k * M, T - M)
  <2>1. from \in Nat /\ upto \in Nat /\ from <= upto /\ M + upto <= Len(buf)
        /\ Least((k + 1) * M, T) = M + upto /\ M + from = k * M
    <3> HIDE DEF T, M, buf
    <3> QED BY <1>1, <1>5, <1>6 DEF Least
  <2>2. r.input.buffer = SubSeq(buf, M + 1, Len(buf))
    <3>1. M + 0 <= Len(buf) /\ 0 \in Nat
      BY <1>1, <1>5
    <3>2. ReaderPop(s.input, M).buffer = SubSeq(buf, M + 1, Len(buf))
      BY <1>1, <3>1, PopTwice
    <3> QED BY <1>2, <1>5, <3>2
  <2>3. data(r, k) = SubSeq(SubSeq(buf, M + 1, Len(buf)), from + 1, upto)
    BY <1>3, <1>5, <2>2
  <2>4. data(s, k + 1) = SubSeq(buf, (M + from) + 1, M + upto)
    BY <1>6, <2>1
  <2> HIDE DEF data, from, upto, buf
  <2>5. SubSeq(SubSeq(buf, M + 1, Len(buf)), from + 1, upto) =
          SubSeq(buf, (M + from) + 1, M + upto)
    BY <1>1, <2>1, PartOfRest
  <2> QED BY <2>3, <2>4, <2>5
<1>9. last(r, k) = last(s, k + 1)
  <2>1. k = SegmentCount(r) <=> k + 1 = count
    BY <1>1, <1>3, <1>5
  <2>2. SendsFin(r) <=> SendsFin(s)
    BY <1>3, <1>5
  <2> QED BY <2>1, <2>2
<1>10. syn(r, k) = FALSE /\ syn(s, k + 1) = FALSE
  BY <1>2, <1>5
<1>11. r.input.error = s.input.error
  <2>1. p <= Len(buf)
    BY <1>1, <1>2
  <2> QED BY <1>1, <1>2, <2>1, PopAccounts
<1>12. msg(r, k) = msg(s, k + 1)
  <2> HIDE DEF beg, data, last, syn
  <2> QED BY <1>2, <1>7, <1>8, <1>9, <1>10, <1>11 DEF SenderMessage
<1>13. NewSegments(r)[k] =
         [msg |-> msg(r, k), seq_start |-> beg(r, k), len |-> SequenceLength(msg(r, k))]
  BY DEF NewSegments
<1>14. NewSegments(s)[k + 1] =
         [msg |-> msg(s, k + 1), seq_start |-> beg(s, k + 1),
          len |-> SequenceLength(msg(s, k + 1))]
  BY <1>5 DEF NewSegments
<1> HIDE DEF msg, beg
<1> QED BY <1>5, <1>7, <1>12, <1>13, <1>14

\* A turn that sends leaves the closed form where it was going.
LEMMA TurnKeepsPush ==
  ASSUME NEW s, CanPush(s), SegmentCount(s) > 0,
         NEW r, r = SendSegment(TurnRead(s), TurnMessage(s))
  PROVE  /\ CanPush(r)
         /\ r.bytes_in_flight > s.bytes_in_flight /\ s.bytes_in_flight < Advertised(s)
         /\ Advertised(r) = Advertised(s)
         /\ Push(r) = Push(s)
         /\ PushTransmits(s) = <<TurnMessage(s)>> \o PushTransmits(r)
         /\ TurnMessage(s) \in Messages /\ PushTransmits(r) \in Seq(Messages)
<1> DEFINE p     == Least(MAX_PAYLOAD_SIZE, PayloadTotal(s))
           len   == SequenceLength(TurnMessage(s))
           first == NewSegments(s)[1]
           whole == NewSegments(s)
           rest  == NewSegments(r)
           count == SegmentCount(s)
<1>1. /\ s \in Senders /\ s.input \in ByteStreams /\ StreamOk(s.input)
      /\ s.outstanding \in Seq(Segments)
      /\ s.next_seqno \in Nat /\ s.bytes_in_flight \in Nat
      /\ s.timer_running \in BOOLEAN /\ s.timer_elapsed_ms \in Nat
      /\ s.fin_sent \in BOOLEAN /\ s.syn_sent \in BOOLEAN
      /\ count \in Nat /\ count > 0 /\ Filled(s) \in Nat /\ PayloadTotal(s) \in Nat
      /\ PayloadTotal(s) <= Len(s.input.buffer) /\ Len(s.input.buffer) \in Nat
      /\ SendsFin(s) \in BOOLEAN /\ Room(s) > 0
  <2>1. s \in Senders
    BY DEF CanPush
  <2>2. Room(s) > 0
    BY <2>1, DataOfSegments, FilledFits
  <2> QED BY <2>1, <2>2, DataOfSegments, FilledFits DEF CanPush, Senders, ByteStreams
<1>2. /\ CanPush(r) /\ r \in Senders /\ r = AfterTurn(s, p, len)
      /\ p \in Nat /\ p <= PayloadTotal(s) /\ TurnFin(s) \in BOOLEAN
  <2>1. /\ CanPush(r) /\ r = AfterTurn(s, p, len)
        /\ p \in Nat /\ p <= PayloadTotal(s) /\ TurnFin(s) \in BOOLEAN
    BY TurnLeaves
  <2> QED BY <2>1 DEF CanPush
<1>3. /\ PayloadTotal(r) = PayloadTotal(s) - p
      /\ SendsFin(r) <=> SendsFin(s) /\ ~TurnFin(s)
      /\ TurnFin(s) => SendsFin(s)
      /\ SegmentCount(r) = count - 1
      /\ Filled(r) = Filled(s) - len
  BY RestOfPush
<1>4. /\ first = [msg |-> TurnMessage(s), seq_start |-> s.next_seqno, len |-> len]
      /\ len \in Nat /\ len > 0 /\ s.fin_sent = FALSE
      /\ s.bytes_in_flight < Advertised(s)
  BY <1>1, TurnSendsFirst
<1>5. /\ whole \in Seq(Segments) /\ Len(whole) = count
      /\ rest \in Seq(Segments) /\ Len(rest) = count - 1
      /\ first \in Segments /\ first.msg = TurnMessage(s) /\ 1 \in 1..count
  <2>1. 1 \in 1..count
    BY <1>1
  <2> QED BY <1>1, <1>2, <1>3, <1>4, <2>1, NewSegmentsContinue, SegmentShape
<1>6. \A k \in 1..(count - 1) : k + 1 \in 1..count /\ rest[k] = whole[k + 1]
  BY <1>3, RestOfSegments
<1>7. DOMAIN whole = 1..count /\ DOMAIN rest = 1..(count - 1)
  BY <1>5
<1> HIDE DEF p, len
<1>8. /\ r.input = ReaderPop(s.input, p)
      /\ r.syn_sent = TRUE /\ r.fin_sent = TurnFin(s)
      /\ r.outstanding = Append(s.outstanding, first)
      /\ r.bytes_in_flight = s.bytes_in_flight + len
      /\ r.next_seqno = s.next_seqno + len
      /\ r.timer_running = TRUE
      /\ r.timer_elapsed_ms = (IF s.timer_running THEN s.timer_elapsed_ms ELSE 0)
      /\ r.receiver_window = s.receiver_window
  BY <1>1, <1>2 DEF AfterTurn, Senders
<1> HIDE DEF whole, rest, first, count
<1>9. Append(s.outstanding, first) \o rest = s.outstanding \o whole
  <2>1. first = whole[1]
    BY DEF first, whole
  <2>2. IsFirst(first, rest, whole)
    BY <1>1, <1>5, <1>6, <2>1 DEF IsFirst
  <2>3. Append(s.outstanding, first) \o rest = s.outstanding \o whole
    <3>1. Shifts(s.outstanding, first, rest, whole)
      BY <1>1, <1>5, <2>2, FirstMoves, Zenon
    <3> QED BY <3>1 DEF Shifts
  <2> QED BY <2>1, <2>3
<1>10. Push(r) = Push(s)
  <2> DEFINE input   == ReaderPop(s.input, PayloadTotal(s))
             next    == s.next_seqno + Filled(s)
             flight  == s.bytes_in_flight + Filled(s)
             out     == s.outstanding \o whole
             fin     == SendsFin(s)
             elapsed == IF s.timer_running THEN s.timer_elapsed_ms ELSE 0
  <2>1. ReaderPop(r.input, PayloadTotal(r)) = input
    <3>1. PayloadTotal(s) - p \in Nat /\ p + (PayloadTotal(s) - p) = PayloadTotal(s)
      <4>1. PayloadTotal(s) \in Nat /\ p \in Nat /\ p <= PayloadTotal(s)
        BY <1>1, <1>2
      <4> QED BY <4>1
    <3> QED BY <1>1, <1>2, <1>3, <1>8, <3>1, PopTwice
  <2>2. /\ r.next_seqno + Filled(r) = next
        /\ r.bytes_in_flight + Filled(r) = flight
    <3>1. /\ s.next_seqno \in Nat /\ s.bytes_in_flight \in Nat
          /\ Filled(s) \in Nat /\ len \in Nat
      BY <1>1, <1>4
    <3>2. /\ (s.next_seqno + len) + (Filled(s) - len) = s.next_seqno + Filled(s)
          /\ (s.bytes_in_flight + len) + (Filled(s) - len) = s.bytes_in_flight + Filled(s)
      BY <3>1
    <3> QED BY <1>3, <1>8, <3>2
  <2>3. r.outstanding \o rest = out
    BY <1>8, <1>9
  <2>4. (r.syn_sent \/ Room(r) > 0) = TRUE
    BY <1>8
  <2>5. (r.fin_sent \/ SendsFin(r)) = fin
    BY <1>1, <1>2, <1>3, <1>8
  <2>6. (r.timer_running \/ SegmentCount(r) > 0) = TRUE
    BY <1>8
  <2>7. (IF SegmentCount(r) > 0 /\ ~r.timer_running THEN 0 ELSE r.timer_elapsed_ms)
          = elapsed
    BY <1>8
  <2>8. Push(r) = [r EXCEPT !.input = input, !.next_seqno = next,
                            !.bytes_in_flight = flight, !.outstanding = out,
                            !.syn_sent = TRUE, !.fin_sent = fin,
                            !.timer_running = TRUE, !.timer_elapsed_ms = elapsed]
    <3> HIDE DEF input, next, flight, out, fin, elapsed
    <3> QED BY <2>1, <2>2, <2>3, <2>4, <2>5, <2>6, <2>7, Zenon DEF Push, rest
  <2>9. Push(s) = [s EXCEPT !.input = input, !.next_seqno = next,
                            !.bytes_in_flight = flight, !.outstanding = out,
                            !.syn_sent = TRUE, !.fin_sent = fin,
                            !.timer_running = TRUE, !.timer_elapsed_ms = elapsed]
    <3>1. /\ (s.syn_sent \/ Room(s) > 0) = TRUE
          /\ (s.fin_sent \/ SendsFin(s)) = fin
          /\ (s.timer_running \/ SegmentCount(s) > 0) = TRUE
          /\ (IF SegmentCount(s) > 0 /\ ~s.timer_running THEN 0 ELSE s.timer_elapsed_ms)
               = elapsed
      BY <1>1, <1>4
    <3>2. s.outstanding \o NewSegments(s) = out
      BY DEF whole
    <3> HIDE DEF input, next, flight, out, fin, elapsed
    <3> QED BY <3>1, <3>2, Zenon DEF Push, input, next, flight
  <2> DEFINE newer == AfterTurn(s, p, len)
  <2> HIDE DEF input, next, flight, out, fin, elapsed
  <2>10. [r EXCEPT !.input = input, !.next_seqno = next,
                   !.bytes_in_flight = flight, !.outstanding = out,
                   !.syn_sent = TRUE, !.fin_sent = fin,
                   !.timer_running = TRUE, !.timer_elapsed_ms = elapsed] =
         [s EXCEPT !.input = input, !.next_seqno = next,
                   !.bytes_in_flight = flight, !.outstanding = out,
                   !.syn_sent = TRUE, !.fin_sent = fin,
                   !.timer_running = TRUE, !.timer_elapsed_ms = elapsed]
    BY <1>1, <1>2 DEF AfterTurn, Senders
  <2> QED BY <2>8, <2>9, <2>10
<1>11. PushTransmits(s) = <<TurnMessage(s)>> \o PushTransmits(r)
       /\ TurnMessage(s) \in Messages /\ PushTransmits(r) \in Seq(Messages)
  <2> DEFINE x == PushTransmits(s)
             y == PushTransmits(r)
             m == TurnMessage(s)
             z == <<m>> \o y
  <2>1. /\ x = [k \in 1..count |-> whole[k].msg]
        /\ y = [k \in 1..(count - 1) |-> rest[k].msg]
    BY <1>7 DEF PushTransmits, whole, rest
  <2>2. /\ \A k \in 1..count : whole[k].msg \in Messages
        /\ \A k \in 1..(count - 1) : rest[k].msg \in Messages
    <3>1. \A k \in 1..count : whole[k] \in Segments
      BY <1>5
    <3>2. \A k \in 1..(count - 1) : rest[k] \in Segments
      BY <1>5
    <3> QED BY <3>1, <3>2 DEF Segments
  <2> HIDE DEF m
  <2>3. /\ x \in Seq(Messages) /\ Len(x) = count
        /\ y \in Seq(Messages) /\ Len(y) = count - 1
    <3>1. count - 1 \in Nat
      BY <1>1
    <3>2. x \in Seq(Messages) /\ Len(x) = count
      <4>1. count \in Nat
        BY <1>1
      <4> HIDE DEF x, whole, count
      <4> QED BY <2>1, <2>2, <4>1
    <3>3. y \in Seq(Messages) /\ Len(y) = count - 1
      <4> HIDE DEF y, rest, count
      <4> QED BY <2>1, <2>2, <3>1
    <3> QED BY <3>2, <3>3
  <2>4. m \in Messages /\ m = whole[1].msg
    BY <1>5, <2>2 DEF m, first, whole
  <2>5. x[1] = m /\ \A k \in 1..(count - 1) : y[k] = x[k + 1]
    BY <1>5, <1>6, <2>1, <2>4
  <2> HIDE DEF x, y
  <2>6. IsFirst(m, y, x)
    BY <1>1, <2>3, <2>5 DEF IsFirst
  <2>7. <<m>> \o y = x
    BY <2>3, <2>6, FirstStays
  <2> QED BY <2>3, <2>4, <2>5, <2>7 DEF x, y, m
<1>12. Advertised(r) = Advertised(s)
  BY <1>8 DEF Advertised
<1>13. r.bytes_in_flight > s.bytes_in_flight
  BY <1>1, <1>4, <1>8
<1> QED BY <1>2, <1>4, <1>10, <1>11, <1>12, <1>13

-----------------------------------------------------------------------------
(* The loop of fill_window().                                               *)

LoopStates == [sender : Senders, sent : Seq(Messages), over : BOOLEAN]

\* Where the loop of Push(s) can be: what is sent and what is left to push make
\* up what the closed form sends.
InLoop(t, s) ==
  /\ t \in LoopStates
  /\ CanPush(t.sender)
  /\ Advertised(t.sender) = Advertised(s)
  /\ Push(t.sender) = Push(s)
  /\ t.sent \o PushTransmits(t.sender) = PushTransmits(s)
  /\ t.over => t.sender = Push(s) /\ t.sent = PushTransmits(s)

\* A loop state that is not over, by its parts.
LEMMA LoopStateParts ==
  ASSUME NEW t \in LoopStates, t.over = FALSE
  PROVE  t = [sender |-> t.sender, sent |-> t.sent, over |-> FALSE]
BY DEF LoopStates

\* A state of the loop, made from its parts.
LEMMA LoopStateMade ==
  ASSUME NEW s \in Senders, NEW q \in Seq(Messages), NEW o, o \in BOOLEAN,
         NEW t, t = [sender |-> s, sent |-> q, over |-> o]
  PROVE  t \in LoopStates /\ t.sender = s /\ t.sent = q /\ t.over = o
BY DEF LoopStates

\* A turn goes from one such place to another; it ends the loop when the window
\* is full, and otherwise either ends it or puts more in flight.
LEMMA TurnStaysInLoop ==
  ASSUME NEW s, NEW t, InLoop(t, s),
         NEW u, u = FillTurn(t, Advertised(s))
  PROVE  /\ InLoop(u, s)
         /\ t.over => u.over
         /\ t.sender.bytes_in_flight >= Advertised(s) => u.over
         /\ u.over \/ u.sender.bytes_in_flight > t.sender.bytes_in_flight
<1>1. /\ t \in LoopStates /\ t.sender \in Senders /\ t.sent \in Seq(Messages)
      /\ t.over \in BOOLEAN /\ CanPush(t.sender)
      /\ Advertised(t.sender) = Advertised(s) /\ Push(t.sender) = Push(s)
      /\ t.sent \o PushTransmits(t.sender) = PushTransmits(s)
  BY DEF InLoop, LoopStates
<1>2. CASE t.over
  <2>1. u = t
    BY <1>2 DEF FillTurn
  <2> QED BY <1>2, <2>1
<1>3. CASE ~t.over
  <2> DEFINE x == t.sender
             q == t.sent
  <2>1. t = [sender |-> x, sent |-> q, over |-> FALSE]
    BY <1>1, <1>3, LoopStateParts
  <2> HIDE DEF x, q
  <2>2. /\ x \in Senders /\ CanPush(x) /\ q \in Seq(Messages)
        /\ Advertised(x) = Advertised(s) /\ Push(x) = Push(s)
        /\ q \o PushTransmits(x) = PushTransmits(s)
    BY <1>1 DEF x, q
  <2>3. u = FillTurn([sender |-> x, sent |-> q, over |-> FALSE], Advertised(x))
    BY <2>1, <2>2, Zenon
  <2>4. SegmentCount(x) \in Nat /\ x.bytes_in_flight \in Nat /\ Advertised(x) \in Nat
    BY <2>2, DataOfSegments DEF Senders, Advertised
  <2>5. CASE SegmentCount(x) = 0
    <3>1. /\ u = [sender |-> x, sent |-> q, over |-> TRUE]
          /\ Push(x) = x /\ PushTransmits(x) = <<>>
      BY <2>2, <2>3, <2>5, LastTurn, Zenon
    <3>2. u \in LoopStates /\ u.sender = x /\ u.sent = q /\ u.over = TRUE
      <4>1. TRUE \in BOOLEAN
        OBVIOUS
      <4> QED BY <2>2, <3>1, <4>1, LoopStateMade, Zenon
    <3>3. q = PushTransmits(s)
      BY <2>2, <3>1
    <3>4. InLoop(u, s)
      BY <2>2, <3>1, <3>2, <3>3 DEF InLoop
    <3> QED BY <1>3, <3>2, <3>4
  <2>6. CASE SegmentCount(x) > 0
    <3> DEFINE m == TurnMessage(x)
               r == SendSegment(TurnRead(x), m)
    <3>1. /\ CanPush(r) /\ r.bytes_in_flight > x.bytes_in_flight
          /\ x.bytes_in_flight < Advertised(x)
          /\ Advertised(r) = Advertised(x) /\ Push(r) = Push(x)
          /\ PushTransmits(x) = <<m>> \o PushTransmits(r)
          /\ m \in Messages /\ PushTransmits(r) \in Seq(Messages)
      BY <2>2, <2>6, TurnKeepsPush
    <3>2. SequenceLength(m) \in Nat /\ SequenceLength(m) > 0
      BY <2>2, <2>6, TurnSendsFirst
    <3>3. u = [sender |-> r, sent |-> Append(q, m), over |-> FALSE]
      <4>1. ~(x.bytes_in_flight >= Advertised(x)) /\ SequenceLength(m) # 0
        BY <2>4, <3>1, <3>2
      <4> QED BY <2>3, <4>1, FillTurnIs, Zenon
    <3> HIDE DEF m, r
    <3>4. r \in Senders /\ Append(q, m) \in Seq(Messages)
      BY <2>2, <3>1 DEF CanPush
    <3>5. u \in LoopStates /\ u.sender = r /\ u.sent = Append(q, m) /\ u.over = FALSE
      <4> DEFINE a == Append(q, m)
                 o == FALSE
      <4>1. /\ u = [sender |-> r, sent |-> a, over |-> o]
            /\ a \in Seq(Messages) /\ o \in BOOLEAN
        BY <3>3, <3>4
      <4> HIDE DEF a, o
      <4>2. u \in LoopStates /\ u.sender = r /\ u.sent = a /\ u.over = o
        BY <3>4, <4>1, LoopStateMade
      <4> QED BY <4>2 DEF a, o
    <3>6. Append(q, m) \o PushTransmits(r) = PushTransmits(s)
      <4> DEFINE z == PushTransmits(r)
                 w == <<m>> \o z
      <4>1. z \in Seq(Messages) /\ m \in Messages /\ w = PushTransmits(x)
        BY <3>1
      <4> HIDE DEF z
      <4>2. w \in Seq(Messages) /\ IsFirst(m, z, w)
        <5>1. w \in Seq(Messages) /\ Len(w) = Len(z) + 1 /\ w[1] = m
          BY <4>1
        <5>2. \A k \in 1..Len(z) : z[k] = w[k + 1]
          BY <4>1
        <5> QED BY <5>1, <5>2 DEF IsFirst
      <4> HIDE DEF w
      <4>3. Shifts(q, m, z, w)
        BY <2>2, <4>1, <4>2, FirstMoves, Zenon
      <4> QED BY <2>2, <4>1, <4>3 DEF Shifts, z
    <3>7. InLoop(u, s)
      BY <2>2, <3>1, <3>5, <3>6 DEF InLoop
    <3>8. ~(t.sender.bytes_in_flight >= Advertised(s))
      BY <2>2, <2>4, <3>1 DEF x
    <3>9. u.sender.bytes_in_flight > t.sender.bytes_in_flight
      BY <3>1, <3>5 DEF x
    <3> QED BY <1>3, <3>7, <3>8, <3>9
  <2> QED BY <2>4, <2>5, <2>6
<1> QED BY <1>1, <1>2, <1>3

\* The loop of fill_window() does and sends what the closed form says.
LEMMA FillWindowIsPush ==
  ASSUME NEW s, CanPush(s)
  PROVE  FillWindow(s) = [sender |-> Push(s), sent |-> PushTransmits(s), over |-> TRUE]
<1> DEFINE win  == Advertised(s)
           n    == win + 1
           V    == {t \in LoopStates : InLoop(t, s)}
           base == [sender |-> s, sent |-> <<>>, over |-> s.fin_sent]
           P    == (1..n) \X V
           step == [x \in P |-> FillTurn(x[2], win)]
           g    == CHOOSE g : g = [i \in 0..n |->
                     IF i = 0 THEN base ELSE FillTurn(g[i - 1], win)]
<1>1. /\ s \in Senders /\ win \in Nat /\ n \in Nat /\ s.bytes_in_flight \in Nat
      /\ s.fin_sent \in BOOLEAN
  BY DEF CanPush, Senders, Advertised
<1>2. base \in V /\ base.sender = s
  <2>1. <<>> \in Seq(Messages)
    OBVIOUS
  <2>2. base \in LoopStates /\ base.sender = s /\ base.sent = <<>>
        /\ base.over = s.fin_sent
    <3> DEFINE none == <<>>
    <3>1. base = [sender |-> s, sent |-> none, over |-> s.fin_sent]
          /\ none \in Seq(Messages)
      BY <2>1
    <3> HIDE DEF none, base
    <3>2. base \in LoopStates /\ base.sender = s /\ base.sent = none
          /\ base.over = s.fin_sent
      BY <1>1, <3>1, LoopStateMade
    <3> QED BY <3>2 DEF none
  <2>3. PushTransmits(s) \in Seq(Messages)
    <3>1. NewSegments(s) \in Seq(Segments) /\ SegmentCount(s) \in Nat
          /\ Len(NewSegments(s)) = SegmentCount(s)
      BY <1>1, NewSegmentsContinue, DataOfSegments
    <3> DEFINE c == SegmentCount(s)
    <3>2. PushTransmits(s) = [k \in 1..c |-> NewSegments(s)[k].msg]
      BY <3>1 DEF PushTransmits
    <3>3. \A k \in 1..c : NewSegments(s)[k].msg \in Messages
      <4>1. \A k \in 1..c : NewSegments(s)[k] \in Segments
        BY <3>1
      <4> QED BY <4>1 DEF Segments
    <3> HIDE DEF c
    <3> QED BY <3>1, <3>2, <3>3 DEF c
  <2>4. <<>> \o PushTransmits(s) = PushTransmits(s)
    BY <2>3
  <2>5. s.fin_sent => s = Push(s) /\ <<>> = PushTransmits(s)
    <3>1. s.fin_sent => SegmentCount(s) = 0
      BY <1>1, DataOfSegments DEF Room
    <3>2. ASSUME SegmentCount(s) = 0 PROVE s = Push(s) /\ <<>> = PushTransmits(s)
      <4> DEFINE t == [sender |-> s, sent |-> <<>>, over |-> FALSE]
      <4>1. Push(s) = s /\ PushTransmits(s) = <<>>
        BY <3>2, LastTurn
      <4> QED BY <4>1
    <3> QED BY <3>1, <3>2
  <2> HIDE DEF base
  <2>6. InLoop(base, s)
    BY <1>1, <2>2, <2>4, <2>5 DEF InLoop
  <2> QED BY <2>2, <2>6
<1>3. ASSUME NEW i \in 1..n, NEW v \in V
      PROVE  step[<<i, v>>] = FillTurn(v, win) /\ step[<<i, v>>] \in V
  <2>1. <<i, v>> \in P /\ <<i, v>>[2] = v
    OBVIOUS
  <2>2. step[<<i, v>>] = FillTurn(v, win)
    BY <2>1
  <2>3. InLoop(FillTurn(v, win), s)
    BY TurnStaysInLoop
  <2>4. FillTurn(v, win) \in V
    BY <2>3 DEF InLoop
  <2> HIDE DEF step, V
  <2> QED BY <2>2, <2>4
<1> HIDE DEF V, step, base
<1>4. Closed(n, V, step)
  BY <1>3, Zenon DEF Closed
<1>5. PICK f \in [0..n -> V] : Iterates(f, n, base, step)
  BY <1>1, <1>2, <1>4, Recursion
<1>6. f = [i \in 0..n |-> IF i = 0 THEN base ELSE FillTurn(f[i - 1], win)]
  <2>1. ASSUME NEW i \in 0..n
        PROVE  f[i] = IF i = 0 THEN base ELSE FillTurn(f[i - 1], win)
    <3>1. CASE i = 0
      BY <1>5, <3>1 DEF Iterates
    <3>2. CASE i # 0
      <4>1. i \in 1..n /\ i - 1 \in 0..n
        BY <1>1, <3>2
      <4>2. f[i] = step[<<i, f[i - 1]>>] /\ f[i - 1] \in V
        BY <1>5, <4>1 DEF Iterates
      <4> QED BY <1>3, <3>2, <4>1, <4>2
    <3> QED BY <3>1, <3>2
  <2> QED BY <2>1
<1>7. g = [i \in 0..n |-> IF i = 0 THEN base ELSE FillTurn(g[i - 1], win)]
  BY <1>6
<1> HIDE DEF g
<1> DEFINE Far == {i \in 0..n : g[i] \in V /\
                     (g[i].over \/ (i <= win /\ g[i].sender.bytes_in_flight >= i))}
<1>8. 0 \in Far
  BY <1>1, <1>2, <1>7
<1>9. ASSUME NEW i \in 1..n, i - 1 \in Far
      PROVE  i \in Far
  <2> DEFINE t == g[i - 1]
             u == g[i]
  <2>1. /\ t \in V /\ (t.over \/ (i - 1 <= win /\ t.sender.bytes_in_flight >= i - 1))
        /\ u = FillTurn(t, win)
    BY <1>1, <1>7, <1>9
  <2> HIDE DEF t, u
  <2>2. InLoop(t, s) /\ t.sender.bytes_in_flight \in Nat
    BY <2>1 DEF V, LoopStates, Senders
  <2>3. /\ InLoop(u, s)
        /\ t.over => u.over
        /\ t.sender.bytes_in_flight >= win => u.over
        /\ u.over \/ u.sender.bytes_in_flight > t.sender.bytes_in_flight
    BY <2>1, <2>2, TurnStaysInLoop
  <2>4. u \in V /\ u.sender.bytes_in_flight \in Nat
    BY <2>3 DEF V, InLoop, LoopStates, Senders
  <2>5. u.over \/ (i <= win /\ u.sender.bytes_in_flight >= i)
    BY <1>1, <2>1, <2>2, <2>3, <2>4
  <2> QED BY <2>4, <2>5 DEF u
<1>10. n \in Far
  <2> HIDE DEF Far
  <2>1. \A i \in 0..n : i \in Far
    BY <1>1, <1>8, <1>9, InductionUpTo
  <2>2. n \in 0..n
    BY <1>1
  <2> QED BY <2>1, <2>2
<1>11. g[n] \in V /\ g[n].over
  BY <1>1, <1>10
<1>12. FillWindow(s) = g[n]
  BY DEF FillWindow, g, base, Advertised
<1>13. ASSUME NEW t, InLoop(t, s), t.over
       PROVE  t = [sender |-> Push(s), sent |-> PushTransmits(s), over |-> TRUE]
  <2>1. t.sender = Push(s) /\ t.sent = PushTransmits(s) /\ t \in LoopStates /\ t.over = TRUE
    BY <1>13 DEF InLoop, LoopStates
  <2> QED BY <2>1 DEF LoopStates
<1> QED BY <1>11, <1>12, <1>13 DEF V

-----------------------------------------------------------------------------
(* The loop of receive().                                                   *)

\* What the first j segments count in bytes_in_flight_.
Gone(s, j) ==
  IF j = 0 THEN 0 ELSE SegmentEnd(s.outstanding[j]) - s.outstanding[1].seq_start

\* The sender when the ackno is in and the first j segments are popped.
AfterPops(s, ack, j) ==
  [s EXCEPT !.receiver_ackno = ack,
            !.outstanding = SubSeq(s.outstanding, j + 1, Len(s.outstanding)),
            !.bytes_in_flight = s.bytes_in_flight - Gone(s, j)]

\* Each turn pops one segment more, up to those that are fully acknowledged.
LEMMA PopTurnPops ==
  ASSUME NEW s, Consistent(s), NEW ack \in Nat,
         NEW n, n = FullyAcked(s.outstanding, ack), NEW j \in 0..n
  PROVE  /\ FrontIsAcked(AfterPops(s, ack, j)) <=> j < n
         /\ PopTurn(AfterPops(s, ack, j)) =
              IF j < n THEN AfterPops(s, ack, j + 1) ELSE AfterPops(s, ack, n)
<1> DEFINE out == s.outstanding
           L   == Len(out)
           b   == s.bytes_in_flight
           p   == AfterPops(s, ack, j)
           q   == SubSeq(out, j + 1, L)
<1>1. /\ s \in Senders /\ out \in Seq(Segments) /\ L \in Nat /\ b \in Nat
      /\ Contiguous(out, s.next_seqno)
  BY DEF Consistent, Senders
<1>2. /\ n \in 0..L /\ n \in Nat
      /\ \A i \in 1..n : SegmentEnd(out[i]) <= ack
      /\ n < L => SegmentEnd(out[n + 1]) > ack
  <2>1. /\ n \in 0..L
        /\ \A i \in 1..n : SegmentEnd(out[i]) <= ack
        /\ n < L => SegmentEnd(out[n + 1]) > ack
    BY <1>1, FullyAckedStops
  <2> HIDE DEF out
  <2>2. n \in Nat
    BY <1>1, <2>1
  <2> QED BY <2>1, <2>2
<1>3. \A i \in 1..L : /\ out[i].seq_start \in Nat /\ out[i].len \in Nat
                      /\ SegmentEnd(out[i]) = out[i].seq_start + out[i].len
  BY <1>1, FrontTyped DEF SegmentEnd
<1>4. j \in Nat /\ j <= n /\ j <= L
  BY <1>1, <1>2
<1> HIDE DEF out, L
<1>5. /\ q \in Seq(Segments) /\ Len(q) = L - j
      /\ \A i \in 1..(L - j) : j + i \in 1..L /\ q[i] = out[j + i]
  BY <1>1, <1>4, PartOfSequence DEF L
<1>6. /\ p.outstanding = q /\ p.bytes_in_flight = b - Gone(s, j)
      /\ p.receiver_ackno = ack
  BY <1>1 DEF AfterPops, Senders, out, L
<1> HIDE DEF p, q
<1>7. CASE j < n
  <2>1. /\ q # <<>> /\ Head(q) = out[j + 1] /\ j + 1 \in 1..n /\ j + 1 \in 1..L
        /\ L - j \in Nat /\ 1 <= L - j
    BY <1>1, <1>2, <1>4, <1>5, <1>7
  <2>2. FrontIsAcked(p)
    BY <1>2, <1>6, <2>1 DEF FrontIsAcked
  <2>3. Tail(q) = SubSeq(out, (j + 1) + 1, L)
    <3>1. Tail(q) = SubSeq(q, 1 + 1, L - j)
      BY <1>5, <2>1
    <3>2. j + (L - j) = L /\ 1 \in Nat
      BY <1>1, <1>4
    <3>3. SubSeq(SubSeq(out, j + 1, Len(out)), 1 + 1, L - j) =
            SubSeq(out, (j + 1) + 1, j + (L - j))
      <4>1. j + (L - j) <= Len(out)
        BY <1>1, <3>2 DEF L
      <4> QED BY <1>1, <1>4, <2>1, <3>2, <4>1, PartOfRest
    <3> QED BY <3>1, <3>2, <3>3 DEF q, L
  <2>4. (b - Gone(s, j)) - Head(q).len = b - Gone(s, j + 1)
    <3>1. out[1].seq_start \in Nat /\ out[j + 1].seq_start \in Nat /\ out[j + 1].len \in Nat
          /\ SegmentEnd(out[j + 1]) = out[j + 1].seq_start + out[j + 1].len
      <4>1. 1 \in 1..L
        BY <1>1, <2>1
      <4> QED BY <1>3, <2>1, <4>1
    <3>2. Gone(s, j + 1) = SegmentEnd(out[j + 1]) - out[1].seq_start
      BY <1>4 DEF Gone, out
    <3>3. Gone(s, j) = out[j + 1].seq_start - out[1].seq_start
      <4>1. CASE j = 0
        <5>1. out[j + 1].seq_start = out[1].seq_start
          BY <4>1
        <5> QED BY <3>1, <4>1, <5>1 DEF Gone
      <4>2. CASE j # 0
        <5>1. j \in 1..(L - 1)
          BY <1>1, <1>4, <2>1, <4>2
        <5>2. SegmentEnd(out[j]) = out[j + 1].seq_start
          BY <1>1, <5>1 DEF Contiguous, L
        <5> QED BY <4>2, <5>2 DEF Gone, out
      <4> QED BY <4>1, <4>2
    <3>4. Gone(s, j + 1) = Gone(s, j) + out[j + 1].len /\ Gone(s, j) \in Int
      BY <3>1, <3>2, <3>3
    <3>5. Head(q).len = out[j + 1].len
      BY <2>1
    <3> QED BY <1>1, <3>1, <3>4, <3>5
  <2>5. PopTurn(p) = [p EXCEPT !.outstanding = Tail(q),
                               !.bytes_in_flight = b - Gone(s, j + 1)]
    BY <1>6, <2>2, <2>4 DEF PopTurn
  <2> DEFINE rest   == SubSeq(out, (j + 1) + 1, L)
             flight == b - Gone(s, j + 1)
  <2>6. AfterPops(s, ack, j + 1) = [s EXCEPT !.receiver_ackno = ack, !.outstanding = rest,
                                          !.bytes_in_flight = flight]
    BY DEF AfterPops, out, L
  <2>7. p = [s EXCEPT !.receiver_ackno = ack, !.outstanding = q,
                      !.bytes_in_flight = b - Gone(s, j)]
    BY DEF AfterPops, out, L, p, q
  <2> HIDE DEF rest, flight, b
  <2>8. PopTurn(p) = [p EXCEPT !.outstanding = rest, !.bytes_in_flight = flight]
    BY <2>3, <2>5 DEF rest, flight
  <2>9. PopTurn(p) = AfterPops(s, ack, j + 1)
    BY <1>1, <2>6, <2>7, <2>8 DEF Senders
  <2> QED BY <1>7, <2>2, <2>9 DEF p
<1>8. CASE j = n
  <2>1. ~FrontIsAcked(p)
    <3>1. CASE n = L
      <4>1. q = <<>>
        BY <1>1, <1>5, <1>8, <3>1
      <4> QED BY <1>6, <4>1 DEF FrontIsAcked
    <3>2. CASE n # L
      <4>1. n < L /\ 1 \in 1..(L - j) /\ n + 1 \in 1..L
        BY <1>1, <1>2, <1>8, <3>2
      <4>2. q[1] = out[n + 1]
        BY <1>5, <1>8, <4>1
      <4>3. Head(q) = out[n + 1]
        BY <1>5, <4>1, <4>2
      <4>4. SegmentEnd(out[n + 1]) > ack /\ SegmentEnd(out[n + 1]) \in Nat
        BY <1>2, <1>3, <4>1
      <4> QED BY <1>6, <4>3, <4>4 DEF FrontIsAcked
    <3> QED BY <3>1, <3>2
  <2>2. PopTurn(p) = p
    BY <2>1 DEF PopTurn
  <2> QED BY <1>2, <1>8, <2>1, <2>2 DEF p
<1> QED BY <1>2, <1>4, <1>7, <1>8

\* The loop of receive() removes what the closed form removes, and stops there.
LEMMA PopAckedIsAcknowledge ==
  ASSUME NEW s, Consistent(s), NEW ack \in Nat,
         NEW popped, popped = PopAcked([s EXCEPT !.receiver_ackno = ack])
  PROVE  /\ ~FrontIsAcked(popped)
         /\ Acknowledge(s, ack).outstanding = popped.outstanding
         /\ Acknowledge(s, ack).bytes_in_flight = popped.bytes_in_flight
<1> DEFINE out  == s.outstanding
           L    == Len(out)
           n    == FullyAcked(out, ack)
           V    == {AfterPops(s, ack, j) : j \in 0..n}
           base == [s EXCEPT !.receiver_ackno = ack]
           P    == (1..L) \X V
           step == [x \in P |-> PopTurn(x[2])]
           g    == CHOOSE g : g = [i \in 0..L |->
                     IF i = 0 THEN base ELSE PopTurn(g[i - 1])]
<1>1. /\ s \in Senders /\ out \in Seq(Segments) /\ L \in Nat /\ s.bytes_in_flight \in Nat
      /\ n \in 0..L
  <2>1. s \in Senders /\ out \in Seq(Segments)
    BY DEF Consistent, Senders
  <2> QED BY <2>1, FullyAckedStops DEF Senders
<1>2. base = AfterPops(s, ack, 0) /\ base \in V /\ n \in Nat
  <2>1. SubSeq(out, 0 + 1, L) = out
    BY <1>1
  <2>2. s.bytes_in_flight - Gone(s, 0) = s.bytes_in_flight
    BY <1>1 DEF Gone
  <2>3. AfterPops(s, ack, 0) = [s EXCEPT !.receiver_ackno = ack, !.outstanding = out,
                                      !.bytes_in_flight = s.bytes_in_flight]
    BY <2>1, <2>2, Zenon DEF AfterPops
  <2>4. base = AfterPops(s, ack, 0)
    BY <1>1, <2>3 DEF Senders
  <2>5. 0 \in 0..n /\ n \in Nat
    <3> HIDE DEF n, L
    <3> QED BY <1>1
  <2> QED BY <2>4, <2>5
<1>3. ASSUME NEW j \in 0..n
      PROVE  PopTurn(AfterPops(s, ack, j)) =
               IF j < n THEN AfterPops(s, ack, j + 1) ELSE AfterPops(s, ack, n)
  BY PopTurnPops
<1> HIDE DEF n, L, base
<1>4. ASSUME NEW i \in 1..L, NEW v \in V
      PROVE  step[<<i, v>>] = PopTurn(v) /\ step[<<i, v>>] \in V
  <2>1. <<i, v>> \in P /\ <<i, v>>[2] = v
    OBVIOUS
  <2>2. step[<<i, v>>] = PopTurn(v)
    BY <2>1
  <2>3. PICK j \in 0..n : v = AfterPops(s, ack, j)
    OBVIOUS
  <2>4. PopTurn(v) \in V
    <3>1. j < n => j + 1 \in 0..n
      BY <1>2
    <3>2. n \in 0..n
      BY <1>2
    <3> QED BY <1>3, <2>3, <3>1, <3>2
  <2> HIDE DEF step, V
  <2> QED BY <2>2, <2>4
<1> HIDE DEF V, step
<1>5. Closed(L, V, step)
  BY <1>4, Zenon DEF Closed
<1>6. PICK f \in [0..L -> V] : Iterates(f, L, base, step)
  BY <1>1, <1>2, <1>5, Recursion
<1>7. f = [i \in 0..L |-> IF i = 0 THEN base ELSE PopTurn(f[i - 1])]
  <2>1. ASSUME NEW i \in 0..L
        PROVE  f[i] = IF i = 0 THEN base ELSE PopTurn(f[i - 1])
    <3>1. CASE i = 0
      BY <1>6, <3>1 DEF Iterates
    <3>2. CASE i # 0
      <4>1. i \in 1..L /\ i - 1 \in 0..L
        BY <1>1, <3>2
      <4>2. f[i] = step[<<i, f[i - 1]>>] /\ f[i - 1] \in V
        BY <1>6, <4>1 DEF Iterates
      <4> QED BY <1>4, <3>2, <4>1, <4>2
    <3> QED BY <3>1, <3>2
  <2> QED BY <2>1
<1>8. g = [i \in 0..L |-> IF i = 0 THEN base ELSE PopTurn(g[i - 1])]
  BY <1>7
<1> HIDE DEF g
<1> DEFINE Far == {i \in 0..L : g[i] = AfterPops(s, ack, IF i < n THEN i ELSE n)}
<1>9. 0 \in Far
  <2>1. (IF 0 < n THEN 0 ELSE n) = 0 /\ 0 \in 0..L
    BY <1>1, <1>2
  <2> QED BY <1>2, <1>8, <2>1
<1>10. ASSUME NEW i \in 1..L, i - 1 \in Far
       PROVE  i \in Far
  <2> DEFINE j == IF i - 1 < n THEN i - 1 ELSE n
  <2>1. g[i] = PopTurn(g[i - 1]) /\ g[i - 1] = AfterPops(s, ack, j) /\ j \in 0..n
    <3>1. i \in 0..L /\ i # 0
      BY <1>1
    <3>2. g[i] = PopTurn(g[i - 1])
      BY <1>8, <3>1
    <3>3. g[i - 1] = AfterPops(s, ack, j)
      BY <1>10
    <3>4. j \in 0..n
      BY <1>1, <1>2
    <3> QED BY <3>2, <3>3, <3>4
  <2>2. g[i] = IF j < n THEN AfterPops(s, ack, j + 1) ELSE AfterPops(s, ack, n)
    BY <1>3, <2>1
  <2>3. (IF j < n THEN j + 1 ELSE n) = (IF i < n THEN i ELSE n)
    BY <1>1, <1>2
  <2> HIDE DEF j
  <2> QED BY <2>2, <2>3
<1>11. g[L] = AfterPops(s, ack, n)
  <2> HIDE DEF Far
  <2>1. L \in 0..L /\ \A i \in 0..L : i \in Far
    BY <1>1, <1>9, <1>10, InductionUpTo
  <2>2. L \in Far
    BY <2>1
  <2>3. (IF L < n THEN L ELSE n) = n
    BY <1>1
  <2> QED BY <2>2, <2>3 DEF Far
<1>12. popped = g[L]
  <2>1. base.outstanding = out
    BY <1>1 DEF base, Senders
  <2> HIDE DEF out
  <2>2. PopAcked(base) = g[L]
    BY <2>1 DEF PopAcked, g, L
  <2> QED BY <2>2 DEF base
<1>13. ~FrontIsAcked(popped)
  <2>1. n \in 0..n /\ ~(n < n)
    BY <1>2
  <2> QED BY <1>11, <1>12, <2>1, PopTurnPops DEF n
<1>14. /\ popped.outstanding = SubSeq(out, n + 1, L)
       /\ popped.bytes_in_flight = s.bytes_in_flight - Gone(s, n)
  BY <1>1, <1>11, <1>12 DEF AfterPops, Senders, L
<1>15. /\ Acknowledge(s, ack).outstanding = SubSeq(out, n + 1, L)
       /\ Acknowledge(s, ack).bytes_in_flight = s.bytes_in_flight - Gone(s, n)
  BY <1>1 DEF Acknowledge, Gone, Senders, n, L
<1> QED BY <1>13, <1>14, <1>15

\* push() and receive() of the model are the loops of the code, in every state:
\* fill_window() sends those segments and leaves that sender, and the
\* pop_front loop leaves that deque and that flight.
THEOREM LoopsAreTheClosedForms == Spec => []ClosedFormsAreTheLoops
<1>1. ASSUME Invariant PROVE ClosedFormsAreTheLoops
  <2>1. Consistent(sender) /\ sender \in Senders /\ sender.receiver_ackno \in Nat
        /\ sender.next_seqno \in Nat
    BY <1>1 DEF Invariant, Consistent, Senders
  <2>2. CanPush(sender)
    BY <2>1 DEF Consistent, NumbersAddUp, CanPush
  <2>3. FillWindow(sender) =
          [sender |-> Push(sender), sent |-> PushTransmits(sender), over |-> TRUE]
    BY <2>2, FillWindowIsPush
  <2>4. ASSUME NEW ack \in (sender.receiver_ackno + 1)..sender.next_seqno
        PROVE  LET popped == PopAcked([sender EXCEPT !.receiver_ackno = ack])
                   acked  == Acknowledge(sender, ack)
               IN  /\ ~FrontIsAcked(popped)
                   /\ acked.outstanding = popped.outstanding
                   /\ acked.bytes_in_flight = popped.bytes_in_flight
    <3>1. ack \in Nat
      BY <2>1
    <3> QED BY <2>1, <3>1, PopAckedIsAcknowledge
  <2> QED BY <2>3, <2>4, Zenon DEF ClosedFormsAreTheLoops
<1> QED BY <1>1, SenderInvariant, PTL
=============================================================================
