----------------------------- MODULE StreamCopy -----------------------------
(* bidirectional_stream_copy() (src/apps/bidirectional_stream_copy.cc): its *)
(* two byte streams and four rules.  s.me is what the function owns, s.files *)
(* the descriptors and whether standard input is a terminal (or a file),    *)
(* s.fate whether the program lives, was killed by a signal or threw.       *)
EXTENDS FileDescriptor

CONSTANT buffer_size   \* capacity of each stream

CopyRules == << "read_stdin", "write_socket", "read_socket", "write_stdout" >>

NewCopy ==
  [outbound |-> NewByteStream(buffer_size), inbound |-> NewByteStream(buffer_size),
   outbound_shutdown |-> FALSE, inbound_shutdown |-> FALSE]

CopyDirection(r) == IF r \in {"read_stdin", "read_socket"} THEN In ELSE Out

CopyEof(s, r) ==
  CASE r = "read_stdin"  -> s.files.input.eof
    [] r = "read_socket" -> s.files.toOwner.eof
    [] OTHER             -> FALSE

CopyClosed(s, r) == r = "write_stdout" /\ s.files.output.closed

CopyConditions(s, r) ==
  CASE r = "read_stdin" ->
         IF s.files.terminal THEN TerminalConditions(s.files.input)
                             ELSE PipeConditions(s.files.input)
    [] r = "write_stdout" -> SinkConditions(s.files.output)
    [] OTHER -> SocketConditions(s.files.toOwner, s.files.toTcp)

MayRead(s, stream) ==
  /\ ~s.me.outbound.error /\ ~s.me.inbound.error
  /\ AvailableCapacity(stream) > 0 /\ ~stream.closed

MayWrite(stream, shut) == stream.buffer # <<>> \/ (IsFinished(stream) /\ ~shut)

CopyInterested(s, r) ==
  CASE r = "read_stdin"   -> MayRead(s, s.me.outbound)
    [] r = "write_socket" -> MayWrite(s.me.outbound, s.me.outbound_shutdown)
    [] r = "read_socket"  -> MayRead(s, s.me.inbound)
    [] r = "write_stdout" -> MayWrite(s.me.inbound, s.me.inbound_shutdown)

\* What a stream becomes when a file is read into it, with the end of the file.
Filled(stream, file) ==
  LET size   == AvailableCapacity(stream)
      pushed == WriterPush(stream, BytesRead(file, size))
  IN  IF AfterRead(file, size).eof THEN WriterClose(pushed) ELSE pushed

\* What it becomes when it is written into a file.
Drained(stream, file) == ReaderPop(stream, Written(file, stream.buffer))

\* The fate of a program that writes the stream into the file.
WriteFate(s, stream, file) ==
  IF WriteKills(file, stream.buffer) THEN "killed"
  ELSE IF WriteThrows(file, stream.buffer) THEN "threw"
  ELSE s.fate

ReadStdin(s) ==
  [s EXCEPT
    !.me.outbound = Filled(@, s.files.input),
    !.files.input = AfterRead(@, AvailableCapacity(s.me.outbound)),
    !.loop.serviced = ReadCounts(s.files.input)]

ReadSocket(s) ==
  [s EXCEPT
    !.me.inbound = Filled(@, s.files.toOwner),
    !.files.toOwner = AfterRead(@, AvailableCapacity(s.me.inbound)),
    !.loop.serviced = ReadCounts(s.files.toOwner)]

WriteSocket(s) ==
  LET drained == Drained(s.me.outbound, s.files.toTcp)
      sent    == AfterWrite(s.files.toTcp, s.me.outbound.buffer)
      ends    == IsFinished(drained)
      fate    == WriteFate(s, s.me.outbound, s.files.toTcp)
  IN  IF fate # s.fate THEN [s EXCEPT !.fate = fate]
      ELSE [s EXCEPT
             !.me.outbound = drained,
             !.me.outbound_shutdown = @ \/ ends,
             !.files.toTcp = IF ends THEN Shutdown(sent) ELSE sent,
             !.loop.serviced = ends \/ s.me.outbound.buffer # <<>>]

WriteStdout(s) ==
  LET drained == Drained(s.me.inbound, s.files.output)
      sent    == AfterWrite(s.files.output, s.me.inbound.buffer)
      ends    == IsFinished(drained)
      fate    == WriteFate(s, s.me.inbound, s.files.output)
  IN  IF fate # s.fate THEN [s EXCEPT !.fate = fate]
      ELSE [s EXCEPT
             !.me.inbound = drained,
             !.me.inbound_shutdown = @ \/ ends,
             !.files.output = IF ends THEN Close(sent) ELSE sent,
             !.loop.serviced = s.me.inbound.buffer # <<>>]

CopyCallback(s, r) ==
  CASE r = "read_stdin"   -> ReadStdin(s)
    [] r = "write_socket" -> WriteSocket(s)
    [] r = "read_socket"  -> ReadSocket(s)
    [] r = "write_stdout" -> WriteStdout(s)

CopyCancelled(s, r) ==
  IF r \in {"read_stdin", "write_socket"}
    THEN [s EXCEPT !.me.outbound = WriterClose(@)]
    ELSE [s EXCEPT !.me.inbound = WriterClose(@)]

CopyErrored(s, r) ==
  [s EXCEPT !.me.outbound = SetError(@), !.me.inbound = SetError(@)]

Loop == INSTANCE EventLoop WITH
  Direction <- CopyDirection, Eof <- CopyEof, Closed <- CopyClosed,
  Conditions <- CopyConditions, Interested <- CopyInterested,
  Callback <- CopyCallback, Cancelled <- CopyCancelled, Errored <- CopyErrored
=============================================================================
