---------------------------- MODULE TCPReceiver -----------------------------
(* The receiving half of a TCP endpoint (src/src/tcp_receiver.cc, .hh): it  *)
(* turns wrapped sequence numbers into stream indices for its Reassembler,  *)
(* and its Reassembler's progress into acknowledgments.                     *)
EXTENDS Reassembler, WrappingIntegers

CONSTANT UINT16_MAX   \* the largest window that can be advertised

NewReceiver(capacity) ==
  [reassembler |-> NewReassembler(capacity), isn |-> NoAckno]

\* stream_index is a uint64_t: the number before the first one is UINT64_MAX.
StreamIndex(abs_seqno, syn) ==
  IF abs_seqno > 0 THEN abs_seqno - 1
  ELSE IF syn THEN 0
  ELSE UINT64_MAX

ReceiverReceive(r, m) ==
  LET isn    == IF m.SYN /\ r.isn = NoAckno THEN m.seqno ELSE r.isn
      pushed == r.reassembler.output.total_pushed
      index  == StreamIndex(Unwrap(m.seqno, isn, pushed + 1), m.SYN)
  IN  IF m.RST
        THEN [r EXCEPT !.reassembler.output = SetError(@)]
      ELSE IF isn = NoAckno
        THEN r
      ELSE [reassembler |-> Insert(r.reassembler, index, m.payload, m.FIN),
            isn |-> isn]

\* Mutant of AckAbs: the FIN is acknowledged before the bytes that precede it.
AckAbsEarlyFin(r) ==
  r.reassembler.output.total_pushed + 1
    + (IF r.reassembler.last_seen THEN 1 ELSE 0)

\* The absolute number of the next byte (or FIN) wanted.
AckAbs(r) ==
  r.reassembler.output.total_pushed + 1
    + (IF r.reassembler.output.closed THEN 1 ELSE 0)

ReceiverSend(r) ==
  IF r.reassembler.output.error
    THEN [ackno |-> NoAckno, window_size |-> 0, RST |-> TRUE]
    ELSE [ackno |-> IF r.isn = NoAckno THEN NoAckno ELSE Wrap(AckAbs(r), r.isn),
          window_size |-> Least(UINT16_MAX, AvailableCapacity(r.reassembler.output)),
          RST |-> FALSE]
=============================================================================
