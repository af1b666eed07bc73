---------------------------- MODULE MinnowSocket ----------------------------
(* TCPMinnowSocket (src/util/tcp_minnow_socket_impl.hh): the three rules    *)
(* between a TCPPeer and the thread's end of the pair of sockets.  Of the   *)
(* TCPPeer it keeps the two streams and what decides when it is active; a   *)
(* window of one sequence number, and segments that are named for their     *)
(* effect.  That segments have these effects whatever the network does is   *)
(* what TCPConnection and TCPLiveness are about.                            *)
EXTENDS FileDescriptor

CONSTANTS
  send_capacity,   \* TCPConfig
  recv_capacity,
  RemoteBytes      \* bound: bytes the remote application writes

SocketRules == << "receive", "push", "read_inbound" >>

NewTcp ==
  [outbound |-> NewByteStream(send_capacity), inbound |-> NewByteStream(recv_capacity),
   has_ackno |-> FALSE, syn_sent |-> FALSE, fin_sent |-> FALSE, in_flight |-> 0,
   linger |-> TRUE, elapsed |-> FALSE, rst_sent |-> FALSE]

\* With the socket, the datagram that poll() found in the TUN device.
NewSocket ==
  [tcp |-> NewTcp, inbound_shutdown |-> FALSE, outbound_shutdown |-> FALSE,
   datagram |-> "none"]

\* Bytes and FIN of one side and of the other are settled.
SenderActive(t) == t.in_flight > 0 \/ ~IsFinished(t.outbound)
ReceiverActive(t) == ~t.inbound.closed

\* Mutant of TcpActive: the outbound stream does not keep it active.
TcpActiveDeaf(t) ==
  /\ ~t.inbound.error /\ ~t.outbound.error
  /\ ReceiverActive(t) \/ (t.linger /\ ~t.elapsed)

\* Mutant of TcpActive: it lingers without end.
TcpActiveLingers(t) ==
  /\ ~t.inbound.error /\ ~t.outbound.error
  /\ SenderActive(t) \/ ReceiverActive(t) \/ t.linger

TcpActive(t) ==
  /\ ~t.inbound.error /\ ~t.outbound.error
  /\ SenderActive(t) \/ ReceiverActive(t) \/ (t.linger /\ ~t.elapsed)

\* push() fills the window: first the SYN, at the end the FIN.  The segments of
\* a stream with an error are resets.
TcpPush(t) ==
  LET sent == [t EXCEPT !.in_flight = 1, !.rst_sent = @ \/ t.outbound.error]
  IN  IF t.in_flight > 0 \/ t.fin_sent THEN t
      ELSE IF ~t.syn_sent THEN [sent EXCEPT !.syn_sent = TRUE]
      ELSE IF t.outbound.buffer # <<>> THEN [sent EXCEPT !.outbound = ReaderPop(@, 1)]
      ELSE IF t.outbound.closed THEN [sent EXCEPT !.fin_sent = TRUE]
      ELSE t

\* The remote side sends data only after it saw our SYN, with its acknowledgment.
SynIsAcked(t) ==
  t.has_ackno /\ (t.in_flight = 0 \/ t.outbound.total_popped > 0 \/ t.fin_sent)

\* What the remote side may have sent by now.  "other" is not for this connection;
\* "stale" is, and only says that the remote side is there.
Datagrams(t) ==
  {"other", "reset"}
    \union (IF SenderActive(t) \/ ReceiverActive(t) THEN {} ELSE {"stale"})
    \union (IF t.has_ackno THEN {} ELSE IF t.syn_sent THEN {"synack"} ELSE {"syn"})
    \union (IF t.has_ackno /\ t.in_flight > 0 THEN {"ack"} ELSE {})
    \union (IF ~SynIsAcked(t) \/ t.inbound.closed THEN {}
            ELSE IF t.inbound.total_pushed < RemoteBytes THEN {"byte"} ELSE {"fin"})

Absorb(t, segment) ==
  CASE segment = "syn"    -> [t EXCEPT !.has_ackno = TRUE]
    [] segment = "synack" -> [t EXCEPT !.has_ackno = TRUE, !.in_flight = 0]
    [] segment = "ack"    -> [t EXCEPT !.in_flight = 0]
    [] segment = "byte"   -> [t EXCEPT !.inbound = WriterPush(@, << @.total_pushed + 1 >>)]
    [] segment = "fin"    -> [t EXCEPT !.inbound = WriterClose(@)]
    [] segment = "reset"  -> [t EXCEPT !.inbound = SetError(@), !.outbound = SetError(@)]
    [] OTHER              -> t

TcpReceive(t, segment) ==
  LET pushed == TcpPush(Absorb(t, segment))
  IN  IF ~TcpActive(t) THEN t
      ELSE [pushed EXCEPT
             !.elapsed = FALSE,
             !.linger = @ /\ ~(pushed.inbound.closed /\ ~IsFinished(pushed.outbound))]

-----------------------------------------------------------------------------
(* The rules of _initialize_TCP().                                          *)

SocketDirection(r) == IF r = "read_inbound" THEN Out ELSE In

SocketEof(s, r) == r = "push" /\ s.files.toTcp.eof

SocketClosed(s, r) == FALSE

RuleConditions(s, r) ==
  IF r = "receive" THEN (IF s.me.datagram # "none" THEN {In} ELSE {})
  ELSE SocketConditions(s.files.toTcp, s.files.toOwner)

SocketInterested(s, r) ==
  LET t == s.me.tcp
  IN  CASE r = "receive" -> TcpActive(t)
        [] r = "push" -> /\ TcpActive(t) /\ ~s.me.outbound_shutdown
                         /\ AvailableCapacity(t.outbound) > 0
        [] r = "read_inbound" ->
             \/ t.inbound.buffer # <<>>
             \/ (IsFinished(t.inbound) \/ t.inbound.error) /\ ~s.me.inbound_shutdown

\* Rule 1: the adapter may have read nothing for this connection.
Receive(s) ==
  [s EXCEPT
    !.me.tcp = IF s.me.datagram = "other" THEN @ ELSE TcpReceive(@, s.me.datagram),
    !.loop.serviced = TRUE]

\* Mutant of PushBytes: the end of the stream is not pushed.
PushBytesUnpushed(s) ==
  LET size   == AvailableCapacity(s.me.tcp.outbound)
      after  == AfterRead(s.files.toTcp, size)
      pushed == WriterPush(s.me.tcp.outbound, BytesRead(s.files.toTcp, size))
  IN  [s EXCEPT
        !.me.tcp = IF after.eof THEN [@ EXCEPT !.outbound = WriterClose(pushed)]
                   ELSE TcpPush([@ EXCEPT !.outbound = pushed]),
        !.me.outbound_shutdown = @ \/ after.eof,
        !.files.toTcp = after,
        !.loop.serviced = ReadCounts(s.files.toTcp)]

\* Rule 2.
PushBytes(s) ==
  LET size   == AvailableCapacity(s.me.tcp.outbound)
      after  == AfterRead(s.files.toTcp, size)
      pushed == WriterPush(s.me.tcp.outbound, BytesRead(s.files.toTcp, size))
      stream == IF after.eof THEN WriterClose(pushed) ELSE pushed
  IN  [s EXCEPT
        !.me.tcp = TcpPush([@ EXCEPT !.outbound = stream]),
        !.me.outbound_shutdown = @ \/ after.eof,
        !.files.toTcp = after,
        !.loop.serviced = ReadCounts(s.files.toTcp)]

\* Mutant of ReadInbound: all that was buffered is popped, not what was written.
ReadInboundAll(s) ==
  LET buffer  == s.me.tcp.inbound.buffer
      drained == ReaderPop(s.me.tcp.inbound, Len(buffer))
      sent    == AfterWrite(s.files.toOwner, buffer)
      ends    == IsFinished(drained) \/ drained.error
  IN  IF WriteKills(s.files.toOwner, buffer) THEN [s EXCEPT !.fate = "killed"]
      ELSE [s EXCEPT
             !.me.tcp.inbound = drained,
             !.me.inbound_shutdown = @ \/ ends,
             !.files.toOwner = IF ends THEN Shutdown(sent) ELSE sent,
             !.loop.serviced = ends \/ buffer # <<>>]

\* Rule 3.
ReadInbound(s) ==
  LET buffer  == s.me.tcp.inbound.buffer
      drained == ReaderPop(s.me.tcp.inbound, Written(s.files.toOwner, buffer))
      sent    == AfterWrite(s.files.toOwner, buffer)
      ends    == IsFinished(drained) \/ drained.error
  IN  IF WriteKills(s.files.toOwner, buffer) THEN [s EXCEPT !.fate = "killed"]
      ELSE IF WriteThrows(s.files.toOwner, buffer) THEN [s EXCEPT !.fate = "threw"]
      ELSE [s EXCEPT
             !.me.tcp.inbound = drained,
             !.me.inbound_shutdown = @ \/ ends,
             !.files.toOwner = IF ends THEN Shutdown(sent) ELSE sent,
             !.loop.serviced = ends \/ buffer # <<>>]

SocketCallback(s, r) ==
  CASE r = "receive"      -> Receive(s)
    [] r = "push"         -> PushBytes(s)
    [] r = "read_inbound" -> ReadInbound(s)

SocketCancelled(s, r) ==
  IF r = "push"
    THEN [s EXCEPT !.me.tcp.outbound = WriterClose(@), !.me.outbound_shutdown = TRUE]
    ELSE s

SocketErrored(s, r) ==
  CASE r = "push"         -> [s EXCEPT !.me.tcp.outbound = SetError(@)]
    [] r = "read_inbound" -> [s EXCEPT !.me.tcp.inbound = SetError(@)]
    [] OTHER              -> s

Loop == INSTANCE EventLoop WITH
  Direction <- SocketDirection, Eof <- SocketEof, Closed <- SocketClosed,
  Conditions <- RuleConditions, Interested <- SocketInterested,
  Callback <- SocketCallback, Cancelled <- SocketCancelled, Errored <- SocketErrored
=============================================================================
