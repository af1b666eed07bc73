--------------------------- MODULE FileDescriptor ---------------------------
(* FileDescriptor (src/util/file_descriptor.cc) and Socket::shutdown on one *)
(* direction of what the kernel keeps for a stream: a pipe, or one half of  *)
(* a pair of AF_UNIX sockets.  The record joins the kernel's side (data,    *)
(* room, ended, broken) and the flags of the one FDWrapper that looks at    *)
(* it (eof, closed).  All descriptors are non-blocking.                     *)
EXTENDS ByteStream

CONSTANT kReadBufferSize

In  == "IN"    \* POLLIN
Out == "OUT"   \* POLLOUT
Hup == "HUP"   \* POLLHUP
Err == "ERR"   \* POLLERR

NewFile(room) ==
  [data |-> <<>>, room |-> room, ended |-> FALSE, broken |-> FALSE,
   eof |-> FALSE, closed |-> FALSE]

\* read() into a string of some size; an empty one is resized.
ReadSize(size) == IF size = 0 THEN kReadBufferSize ELSE size

BytesRead(f, size) == SubSeq(f.data, 1, Least(ReadSize(size), Len(f.data)))

AfterRead(f, size) ==
  [f EXCEPT !.data = SubSeq(@, Len(BytesRead(f, size)) + 1, Len(@)),
            !.eof = @ \/ (f.data = <<>> /\ f.ended)]

\* EAGAIN returns before register_read().
ReadCounts(f) == f.data # <<>> \/ f.ended

\* write(): as much as there is room for.  Nothing in the repository ignores
\* SIGPIPE, which kills a program that writes where nobody reads any more.
Written(f, bytes) == Least(f.room - Len(f.data), Len(bytes))

AfterWrite(f, bytes) == [f EXCEPT !.data = @ \o SubSeq(bytes, 1, Written(f, bytes))]

WriteKills(f, bytes) == bytes # <<>> /\ (f.ended \/ f.broken)
WriteThrows(f, bytes) == bytes # <<>> /\ Written(f, bytes) = 0

\* shutdown() of the side that writes, or of the side that reads.
Shutdown(f) == [f EXCEPT !.ended = TRUE]

Close(f) == [f EXCEPT !.eof = TRUE, !.closed = TRUE]

\* What poll() has to say of a socket that reads one direction and writes the
\* other, ...
SocketConditions(reads, writes) ==
  (IF reads.data # <<>> \/ reads.ended THEN {In} ELSE {})
    \union (IF writes.room > Len(writes.data) THEN {Out} ELSE {})
    \union (IF reads.ended /\ writes.ended THEN {Hup} ELSE {})

\* ... of the end of a pipe that reads, of a file or terminal, which is always
\* readable at its end, ...
PipeConditions(f) ==
  (IF f.data # <<>> THEN {In} ELSE {}) \union (IF f.ended THEN {Hup} ELSE {})

TerminalConditions(f) == IF ReadCounts(f) THEN {In} ELSE {}

\* ... and of the end of a pipe that writes.
SinkConditions(f) ==
  (IF f.room > Len(f.data) THEN {Out} ELSE {}) \union (IF f.broken THEN {Err} ELSE {})
=============================================================================
