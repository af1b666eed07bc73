------------------------- MODULE TCPOverIPv4Adapter -------------------------
(* The adapter between TCPPeer and the TUN device: FdAdapterBase, the       *)
(* filtering of TCPOverIPv4Adapter (src/util/tcp_over_ip.cc), the octets of *)
(* TCPOverIPv4OverTunFdAdapter (tuntap_adapter.cc) and the losses of        *)
(* LossyFdAdapter.  An Address is a record [ip, port].                      *)
EXTENDS TCPSegment

CONSTANT NoMessage

\* connect() gives the adapter both addresses; listen_and_accept() its own, and
\* listens.
NewAdapter(source, destination, listening, loss_rate_up, loss_rate_dn) ==
  [source |-> source, destination |-> destination, listening |-> listening,
   loss_rate_up |-> loss_rate_up, loss_rate_dn |-> loss_rate_dn]

\* Nothing was read, and the adapter is as it was.
Unrelated(a) == [adapter |-> a, message |-> NoMessage]

\* Who opens with a SYN is the peer from now on, and reached us at the address
\* to reply from.
Accepted(a, header, seg) ==
  [a EXCEPT !.source.ip = header.dst,
            !.destination = [ip |-> header.src, port |-> seg.src_port],
            !.listening = FALSE]

\* Mutant of IsOurs: the address that a datagram comes from is not looked at.
IsOursFromAnywhere(a, header) == a.listening \/ header.dst = a.source.ip

IsOurs(a, header) ==
  a.listening \/ (header.dst = a.source.ip /\ header.src = a.destination.ip)

\* A segment with this header is for this adapter.
SegmentFor(a, header, seg) ==
  LET opens == seg.message.sender.SYN /\ ~seg.message.sender.RST
      now   == IF a.listening THEN Accepted(a, header, seg) ELSE a
  IN  IF seg.dst_port # a.source.port \/ (a.listening /\ ~opens) THEN Unrelated(a)
      ELSE IF seg.src_port # now.destination.port THEN Unrelated(now)
      ELSE [adapter |-> now, message |-> seg.message]

Unwrapped(a, header, parsed) ==
  IF parsed.valid THEN SegmentFor(a, header, parsed.seg) ELSE Unrelated(a)

UnwrapTcpInIp(a, header, payload) ==
  IF ~IsOurs(a, header) \/ header.proto # PROTO_TCP THEN Unrelated(a)
  ELSE Unwrapped(a, header, ParseSegment(payload, PseudoChecksum(header)))

WrapTcpInIp(a, message) ==
  LET seg    == [src_port |-> a.source.port, dst_port |-> a.destination.port,
                 cksum |-> 0, message |-> message]
      header == [NewIPv4Header(a.source.ip, a.destination.ip) EXCEPT
                   !.len = @ + LENGTH + HEADER_LENGTH + Len(message.sender.payload)]
  IN  [header  |-> ComputeHeaderChecksum(header),
       payload |-> SerializeSegment(ComputeSegmentChecksum(seg, PseudoChecksum(header)))]

\* FileDescriptor::read() into buffers of these lengths and one for the rest;
\* one that is not filled is cut.
ReadInto(lengths, octets) ==
  LET Start(i) == FoldLeft(LAMBDA n, len : n + len, 0, SubSeq(lengths, 1, i - 1))
      last == Len(lengths) + 1
      End(i) == IF i = last THEN Len(octets) ELSE Lesser(Start(i) + lengths[i], Len(octets))
  IN  [i \in 1..last |-> SubSeq(octets, Start(i) + 1, End(i))]

\* read() and write() of the adapter on the TUN device, ...
Received(a, dgram) ==
  IF dgram.valid THEN UnwrapTcpInIp(a, dgram.header, dgram.payload) ELSE Unrelated(a)

TunRead(a, octets) ==
  Received(a, ParseDatagram(ReadInto(<< LENGTH, HEADER_LENGTH >>, octets)))

TunWrite(a, message) == FlattenSeq(SerializeDatagram(WrapTcpInIp(a, message)))

\* ... and what the adapter around it may do: a datagram is dropped after the
\* adapter has read it, a message before it is written.
LossyReads(a, read) ==
  {read} \union (IF a.loss_rate_dn # 0 THEN {[read EXCEPT !.message = NoMessage]} ELSE {})

MayDrop(a) == a.loss_rate_up # 0
=============================================================================
