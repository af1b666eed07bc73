--------------------------- MODULE TCPSenderLoops ---------------------------
(* The two loops of TCPSender as the code writes them, one iteration at a   *)
(* time, compared with the closed forms of TCPSender.tla in every state     *)
(* that TCPSenderSystem reaches.                                            *)
EXTENDS TCPSenderSystem

\* send_segment(): record a segment and start the timer.
SendSegment(s, msg) ==
  LET len == SequenceLength(msg)
  IN  [s EXCEPT
        !.outstanding = Append(@, [msg |-> msg, seq_start |-> s.next_seqno, len |-> len]),
        !.bytes_in_flight = @ + len,
        !.next_seqno = @ + len,
        !.timer_running = TRUE,
        !.timer_elapsed_ms = IF s.timer_running THEN @ ELSE 0]

\* One turn of the while loop of fill_window().  t is where the loop is: the
\* sender, what was sent, and whether the loop is over.
FillTurn(t, win_advertised) ==
  LET s         == t.sender
      used      == IF s.syn_sent THEN 0 ELSE 1
      avail     == win_advertised - s.bytes_in_flight
      remaining == IF avail > used THEN avail - used ELSE 0
      payload   == Peek(s.input, Least(remaining, MAX_PAYLOAD_SIZE))
      rest      == ReaderPop(s.input, Len(payload))
      fin       == /\ ~s.fin_sent
                   /\ IsFinished(rest)
                   /\ s.bytes_in_flight + used + Len(payload) + 1 <= win_advertised
      msg       == SenderMessage(s, s.next_seqno, ~s.syn_sent, payload, fin)
      read      == [s EXCEPT !.syn_sent = TRUE, !.input = rest, !.fin_sent = @ \/ fin]
  IN  IF t.over THEN t
      ELSE IF s.bytes_in_flight >= win_advertised
        THEN [sender |-> s, sent |-> t.sent, over |-> TRUE]
      ELSE IF SequenceLength(msg) = 0
        THEN [sender |-> read, sent |-> t.sent, over |-> TRUE]
      ELSE [sender |-> SendSegment(read, msg), sent |-> Append(t.sent, msg), over |-> FALSE]

\* As many turns as there are numbers in the window, and one to find it full.
FillWindow(s) ==
  LET win_advertised == IF s.receiver_window = 0 THEN 1 ELSE s.receiver_window
      turns[n \in 0..(win_advertised + 1)] ==
        IF n = 0 THEN [sender |-> s, sent |-> <<>>, over |-> s.fin_sent]
        ELSE FillTurn(turns[n - 1], win_advertised)
  IN  turns[win_advertised + 1]

\* The pop_front loop of receive().
FrontIsAcked(s) ==
  s.outstanding # <<>> /\ SegmentEnd(Head(s.outstanding)) <= s.receiver_ackno

PopTurn(s) ==
  IF FrontIsAcked(s)
    THEN [s EXCEPT !.outstanding = Tail(@),
                   !.bytes_in_flight = @ - Head(s.outstanding).len]
    ELSE s

PopAcked(s) ==
  LET turns[n \in 0..Len(s.outstanding)] == IF n = 0 THEN s ELSE PopTurn(turns[n - 1])
  IN  turns[Len(s.outstanding)]

\* push() of the model does and sends what the loop of fill_window() does, which
\* ends as soon as a segment would be empty, and acknowledging in one go leaves
\* the same segments and the same flight as the loop of receive(), which removes
\* them one by one.
ClosedFormsAreTheLoops ==
  /\ FillWindow(sender) =
       [sender |-> Push(sender), sent |-> PushTransmits(sender), over |-> TRUE]
  /\ \A ack \in (sender.receiver_ackno + 1)..sender.next_seqno :
       LET popped == PopAcked([sender EXCEPT !.receiver_ackno = ack])
           acked  == Acknowledge(sender, ack)
       IN  /\ ~FrontIsAcked(popped)
           /\ acked.outstanding = popped.outstanding
           /\ acked.bytes_in_flight = popped.bytes_in_flight
=============================================================================
