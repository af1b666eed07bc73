----------------------------- MODULE TCPSegment -----------------------------
(* TCPSegment (src/util/tcp_segment.cc): a message of TCPPeer with two      *)
(* ports as octets.  seqno and ackno are the pair of words of a Wrap32.     *)
EXTENDS IPv4

CONSTANT NoAckno

HEADER_LENGTH == 20

TCPWidths == << 2, 2, 2, 2, 2, 2, 1, 1, 2, 2, 2 >>

Flag(set, bit) == IF set THEN bit ELSE 0

SerializeSegment(seg) ==
  LET sender   == seg.message.sender
      receiver == seg.message.receiver
      ackno    == IF receiver.ackno = NoAckno THEN << 0, 0 >> ELSE receiver.ackno
      flags    == Flag(receiver.ackno # NoAckno, 16) + Flag(sender.RST \/ receiver.RST, 4)
                    + Flag(sender.SYN, 2) + Flag(sender.FIN, 1)
  IN  Finish(PutIntegers(<< seg.src_port, seg.dst_port, sender.seqno[1], sender.seqno[2],
                            ackno[1], ackno[2], (HEADER_LENGTH \div 4) * 16, flags,
                            receiver.window_size, seg.cksum, 0 >>, TCPWidths),
             << sender.payload >>)

ComputeSegmentChecksum(seg, pseudo) ==
  LET blank == [seg EXCEPT !.cksum = 0]
  IN  [seg EXCEPT
        !.cksum = ChecksumValue(ChecksumAdd(pseudo, FlattenSeq(SerializeSegment(blank))))]

\* Both halves of the message share the RST flag.
SegmentOf(v, payload) ==
  LET HasFlag(bit) == (v[8] \div bit) % 2 = 1
  IN  [src_port |-> v[1], dst_port |-> v[2], cksum |-> v[10],
       message |->
         [sender   |-> [seqno |-> << v[3], v[4] >>, SYN |-> HasFlag(2), payload |-> payload,
                        FIN |-> HasFlag(1), RST |-> HasFlag(4)],
          receiver |-> [ackno |-> IF HasFlag(16) THEN << v[5], v[6] >> ELSE NoAckno,
                        window_size |-> v[9], RST |-> HasFlag(4)]]]

\* The checksum over all that the datagram carries, its own field included.
Verified(p, pseudo) == ChecksumValue(ChecksumAdd(pseudo, FlattenSeq(Remaining(p)))) = 0

Invalid == [valid |-> FALSE]

\* What is more in the header than its fields is skipped.
SegmentRead(v, p) ==
  LET data_offset == v[7] \div 16
      rest        == RemovePrefix(p, data_offset * 4 - HEADER_LENGTH)
  IN  IF data_offset < HEADER_LENGTH \div 4 \/ p.error THEN Invalid
      ELSE [valid |-> TRUE, seg |-> SegmentOf(v, ConcatenateAllRemaining(rest))]

SegmentFields(read) == SegmentRead(read.values, read.parser)

VerifyAndParse(p, pseudo) ==
  IF Verified(p, pseudo) THEN SegmentFields(Integers(p, TCPWidths)) ELSE Invalid

ParseSegment(buffers, pseudo) == VerifyAndParse(NewParser(buffers), pseudo)
=============================================================================
