--------------------------- MODULE ProgramProofs ----------------------------
(* Proofs about Program: the two threads of tcp_ipv4 neither kill the       *)
(* program nor leave bytes behind, and between standard input, TCP and      *)
(* standard output keep each byte in its place, whatever the sizes.         *)
EXTENDS Program, BasicLemmas, SequenceTheorems

USE DEF In, Out, Hup, Err, Copy!In, Copy!Out, Copy!Hup, Copy!Err,
        Copy!Loop!In, Copy!Loop!Out, Copy!Loop!Hup, Copy!Loop!Err,
        Socket!In, Socket!Out, Socket!Hup, Socket!Err,
        Socket!Loop!In, Socket!Loop!Out, Socket!Loop!Hup, Socket!Loop!Err

-----------------------------------------------------------------------------
(* Streams and files.                                                       *)

\* What is known of a byte stream, a direction of a pipe or socket, and the rest.
Streams == {b \in ByteStreams : Len(b.buffer) <= b.capacity}

Files ==
  {f \in [data : Seq(Byte), room : Nat, ended : BOOLEAN, broken : BOOLEAN,
          eof : BOOLEAN, closed : BOOLEAN] : Len(f.data) <= f.room}

FileTables ==
  [terminal : BOOLEAN, input : Files, output : Files, toTcp : Files, toOwner : Files]

Copies ==
  [outbound : Streams, inbound : Streams,
   outbound_shutdown : BOOLEAN, inbound_shutdown : BOOLEAN]

Tcps ==
  [outbound : Streams, inbound : Streams, has_ackno : BOOLEAN, syn_sent : BOOLEAN,
   fin_sent : BOOLEAN, in_flight : {0, 1}, linger : BOOLEAN, elapsed : BOOLEAN,
   rst_sent : BOOLEAN]

Segments == {"none", "other", "reset", "stale", "syn", "synack", "ack", "byte", "fin"}

Sockets ==
  [tcp : Tcps, inbound_shutdown : BOOLEAN, outbound_shutdown : BOOLEAN,
   datagram : Segments]

CopyRuleNames   == {"read_stdin", "write_socket", "read_socket", "write_stdout"}
SocketRuleNames == {"receive", "push", "read_inbound"}

\* A loop over these rules, with what poll() returned.
Loops(R, polled) ==
  [rules : Seq(R), asked : SUBSET R, polled : {polled}, serviced : BOOLEAN,
   done : BOOLEAN]

Fates == {"alive", "killed", "threw"}

CopyWorlds(p) ==
  [me : Copies, loop : Loops(CopyRuleNames, p), files : FileTables, fate : Fates]
SocketWorlds(p) ==
  [me : Sockets, loop : Loops(SocketRuleNames, p), files : FileTables, fate : Fates]

\* The ends of files.
FilesInv(f) ==
  /\ ~f.output.ended /\ ~f.toTcp.broken /\ ~f.toOwner.broken
  /\ f.toTcp.eof => f.toTcp.ended
  /\ f.toOwner.eof => f.toOwner.ended

\* The owner's books, while it copies.  Something failed outside if fault.
CopyBooks(s, fault) ==
  /\ s.me.inbound.capacity > 0
  /\ FilesInv(s.files)
  /\ s.files.output.broken => fault
  /\ s.fate # "alive" => fault
  /\ s.me.outbound.error \/ s.me.inbound.error => fault
  /\ s.files.toTcp.ended => s.me.outbound_shutdown \/ fault
  /\ s.me.outbound_shutdown => IsFinished(s.me.outbound)
  /\ s.me.inbound.closed => s.files.toOwner.eof \/ fault
  /\ s.files.output.closed => s.me.inbound.closed
  /\ \A r \in {"read_socket", "write_stdout"} :
       r \notin ToSet(s.loop.rules) => s.me.inbound.closed \/ fault

CopyAsked(s) ==
  LET Asked(r) == r \in s.loop.asked
  IN  /\ Asked("read_stdin") =>
           ~s.me.outbound_shutdown /\ AvailableCapacity(s.me.outbound) > 0
      /\ Asked("write_socket") => Copy!MayWrite(s.me.outbound, s.me.outbound_shutdown)
      /\ Asked("read_socket") => AvailableCapacity(s.me.inbound) > 0
      /\ Asked("write_stdout") => Copy!MayWrite(s.me.inbound, s.me.inbound_shutdown)

CopyPolled(s) ==
  LET Polled(event, r) == r \in DOMAIN s.loop.polled /\ event \in s.loop.polled[r]
  IN  /\ \A r \in CopyRuleNames : Polled(Err, r) => s.files.output.broken
      /\ Polled(In, "read_stdin") => ReadCounts(s.files.input)
      /\ Polled(Out, "write_socket") => Len(s.files.toTcp.data) < s.files.toTcp.room
      /\ Polled(In, "read_socket") => ReadCounts(s.files.toOwner)
      /\ ~Polled(Hup, "write_stdout")
      /\ Polled(Hup, "read_socket") /\ "read_socket" \in s.loop.asked
           => Polled(In, "read_socket")
      /\ Polled(Out, "write_stdout") => Len(s.files.output.data) < s.files.output.room

\* The socket's books.
SocketFault(s) == s.me.tcp.inbound.error \/ s.files.output.broken

Awake(t) ==
  t.outbound.buffer # <<>> \/ (t.outbound.closed /\ ~t.fin_sent)
    => t.in_flight > 0 \/ t.inbound.error

SocketBooks(s) ==
  LET t == s.me.tcp
  IN  /\ FilesInv(s.files)
      /\ s.fate # "alive" => SocketFault(s)
      /\ t.fin_sent => IsFinished(t.outbound)
      /\ Awake(t)
      /\ t.outbound.error => t.inbound.error
      /\ t.outbound.closed => s.me.outbound_shutdown
      /\ t.outbound.closed <=> s.files.toTcp.eof
      /\ s.files.toOwner.ended => IsFinished(t.inbound) \/ SocketFault(s)
      /\ "receive" \in ToSet(s.loop.rules)
      /\ "read_inbound" \notin ToSet(s.loop.rules) => s.files.toOwner.ended

SocketAsked(s) ==
  LET t == s.me.tcp
      Asked(r) == r \in s.loop.asked
  IN  /\ Asked("push") => ~s.me.outbound_shutdown /\ AvailableCapacity(t.outbound) > 0
      /\ Asked("read_inbound") =>
           t.inbound.buffer # <<>> \/ IsFinished(t.inbound) \/ t.inbound.error

SocketPolled(s) ==
  LET Polled(event, r) == r \in DOMAIN s.loop.polled /\ event \in s.loop.polled[r]
  IN  /\ \A r \in SocketRuleNames : ~Polled(Err, r)
      /\ ~Polled(Hup, "receive")
      /\ s.me.datagram = "byte" => ~s.me.tcp.inbound.closed
      /\ Polled(In, "push") => ReadCounts(s.files.toTcp)
      /\ Polled(Hup, "push") /\ "push" \in s.loop.asked => Polled(In, "push")
      /\ Polled(Out, "read_inbound") => Len(s.files.toOwner.data) < s.files.toOwner.room
      /\ Polled(Hup, "read_inbound") => s.files.toOwner.ended

\* Nothing is asked for only when nothing is left to do.
SocketIdle(s) ==
  s.loop.asked = {} =>
    /\ ~Socket!TcpActive(s.me.tcp)
    /\ "read_inbound" \in ToSet(s.loop.rules) => s.me.tcp.inbound.buffer = <<>>

\* The books of the owner, ...
OwnerInv ==
  /\ CopyWorld \in CopyWorlds(copyLoop.polled)
  /\ copyTurn \in {"poll", "serve"} /\ ~copyLoop.done
  /\ stage \notin {"joining", "over"} => CopyBooks(CopyWorld, Faulted)
  /\ CopyAsked(CopyWorld)
  /\ copyTurn = "serve" =>
       CopyPolled(CopyWorld) /\ ToSet(copyLoop.rules) \subseteq DOMAIN copyLoop.polled

\* ... of the thread of the socket ...
ThreadInv ==
  /\ SocketWorld \in SocketWorlds(socketLoop.polled)
  /\ socketTurn \in {"poll", "serve"} /\ ~socketLoop.done
  /\ SocketBooks(SocketWorld) /\ SocketAsked(SocketWorld)
  /\ socketTurn = "serve" =>
       SocketPolled(SocketWorld) /\ ToSet(socketLoop.rules) \subseteq DOMAIN socketLoop.polled
  /\ socketTurn = "poll" => SocketIdle(SocketWorld)

\* ... and of the program.
ProgramInv ==
  /\ OwnerInv /\ ThreadInv /\ ~abort
  /\ stage \in {"connecting", "listening", "copying", "closing", "joining", "over"}
  /\ thread = "none" => stage \in {"connecting", "listening"}
  /\ typed \in Nat /\ Len(files.input.data) <= typed /\ files.input.room = InputBytes
  /\ stage \in {"closing", "joining", "over"} => files.toOwner.ended \/ Faulted

-----------------------------------------------------------------------------
\* What is left of a sequence.
LEMMA RestOfSequence ==
  ASSUME NEW S, NEW q \in Seq(S), NEW n \in Nat, n <= Len(q)
  PROVE  /\ SubSeq(q, n + 1, Len(q)) \in Seq(S)
         /\ Len(SubSeq(q, n + 1, Len(q))) = Len(q) - n
         /\ SubSeq(q, 1, n) \in Seq(S) /\ Len(SubSeq(q, 1, n)) = n
OBVIOUS

\* Writing to a stream changes only its bytes (Writer::push).
LEMMA PushStream ==
  ASSUME NEW b \in Streams, NEW data \in Seq(Byte)
  PROVE  LET c == WriterPush(b, data)
         IN  /\ c \in Streams
             /\ c.capacity = b.capacity /\ c.error = b.error /\ c.closed = b.closed
<1> DEFINE n == Least(AvailableCapacity(b), Len(data))
<1>1. /\ b \in ByteStreams /\ Len(b.buffer) <= b.capacity
      /\ b.buffer \in Seq(Byte) /\ b.capacity \in Nat /\ Len(b.buffer) \in Nat
      /\ Len(data) \in Nat
  BY DEF Streams, ByteStreams
<1>2. n \in Nat /\ n <= Len(data) /\ n <= b.capacity - Len(b.buffer)
  BY <1>1 DEF Least, AvailableCapacity
<1> HIDE DEF n
<1>3. SubSeq(data, 1, n) \in Seq(Byte) /\ Len(SubSeq(data, 1, n)) = n
  BY <1>2, RestOfSequence
<1> DEFINE more == b.buffer \o SubSeq(data, 1, n)
<1>4. more \in Seq(Byte) /\ Len(more) = Len(b.buffer) + n
  BY <1>1, <1>3
<1>5. WriterPush(b, data) = [b EXCEPT !.buffer = more, !.total_pushed = @ + n]
  BY <1>1 DEF WriterPush, n
<1> HIDE DEF more
<1>6. WriterPush(b, data)
        = [capacity |-> b.capacity, error |-> b.error, buffer |-> more,
           total_pushed |-> b.total_pushed + n, total_popped |-> b.total_popped,
           closed |-> b.closed]
  BY <1>1, <1>5 DEF ByteStreams
<1>7. /\ b.error \in BOOLEAN /\ b.closed \in BOOLEAN
      /\ b.total_pushed + n \in Nat /\ b.total_popped \in Nat /\ Len(more) <= b.capacity
  BY <1>1, <1>2, <1>4 DEF ByteStreams
<1> QED BY <1>1, <1>4, <1>6, <1>7 DEF Streams, ByteStreams

\* Reading from a stream changes only its bytes (Reader::pop).
LEMMA PopStream ==
  ASSUME NEW b \in Streams, NEW len \in Nat
  PROVE  LET c == ReaderPop(b, len)
         IN  /\ c \in Streams
             /\ c.capacity = b.capacity /\ c.error = b.error /\ c.closed = b.closed
             /\ b.buffer = <<>> => c.buffer = <<>>
<1> DEFINE n    == Least(len, Len(b.buffer))
           rest == SubSeq(b.buffer, n + 1, Len(b.buffer))
<1>1. /\ b \in ByteStreams /\ Len(b.buffer) <= b.capacity
      /\ b.buffer \in Seq(Byte) /\ b.capacity \in Nat /\ Len(b.buffer) \in Nat
  BY DEF Streams, ByteStreams
<1>2. n \in Nat /\ n <= Len(b.buffer)
  BY <1>1 DEF Least
<1> HIDE DEF n
<1>3. rest \in Seq(Byte) /\ Len(rest) = Len(b.buffer) - n
  BY <1>1, <1>2, RestOfSequence
<1>4. ReaderPop(b, len) = [b EXCEPT !.buffer = rest, !.total_popped = @ + n]
  BY <1>1 DEF ReaderPop, n
<1>5. b.buffer = <<>> => rest = <<>>
  BY <1>1, <1>2, <1>3
<1> HIDE DEF rest
<1>6. ReaderPop(b, len)
        = [capacity |-> b.capacity, error |-> b.error, buffer |-> rest,
           total_pushed |-> b.total_pushed, total_popped |-> b.total_popped + n,
           closed |-> b.closed]
  BY <1>1, <1>4 DEF ByteStreams
<1>7. /\ b.error \in BOOLEAN /\ b.closed \in BOOLEAN
      /\ b.total_pushed \in Nat /\ b.total_popped + n \in Nat /\ Len(rest) <= b.capacity
  BY <1>1, <1>2, <1>3 DEF ByteStreams
<1> QED BY <1>1, <1>3, <1>5, <1>6, <1>7 DEF Streams, ByteStreams

\* Closing a stream, or marking its error, changes nothing else.
LEMMA MarkStream ==
  ASSUME NEW b \in Streams
  PROVE  /\ WriterClose(b) \in Streams
         /\ WriterClose(b).capacity = b.capacity /\ WriterClose(b).error = b.error
         /\ WriterClose(b).closed = TRUE /\ WriterClose(b).buffer = b.buffer
         /\ SetError(b) \in Streams
         /\ SetError(b).capacity = b.capacity /\ SetError(b).closed = b.closed
         /\ SetError(b).error = TRUE /\ SetError(b).buffer = b.buffer
         /\ \A c \in {WriterClose(b), SetError(b)} :
              c.total_pushed = b.total_pushed /\ c.total_popped = b.total_popped
BY DEF WriterClose, SetError, Streams, ByteStreams

\* Reading from a descriptor (FileDescriptor::read).
LEMMA ReadFile ==
  ASSUME NEW f \in Files, NEW size \in Nat
  PROVE  LET g == AfterRead(f, size)
         IN  /\ BytesRead(f, size) \in Seq(Byte)
             /\ g \in Files /\ g.room = f.room
             /\ Len(g.data) <= Len(f.data)
             /\ g.ended = f.ended /\ g.broken = f.broken /\ g.closed = f.closed
             /\ g.eof = (f.eof \/ (f.data = <<>> /\ f.ended))
<1> DEFINE n    == Least(ReadSize(size), Len(f.data))
           rest == SubSeq(f.data, n + 1, Len(f.data))
<1>1. /\ f.data \in Seq(Byte) /\ f.room \in Nat /\ Len(f.data) <= f.room
      /\ Len(f.data) \in Nat
  BY DEF Files
<1>2. n \in Nat /\ n <= Len(f.data)
  BY <1>1, ProgramAssumption DEF Least, ReadSize
<1>3. BytesRead(f, size) = SubSeq(f.data, 1, n)
  BY DEF BytesRead
<1> HIDE DEF n
<1>4. /\ BytesRead(f, size) \in Seq(Byte) /\ Len(BytesRead(f, size)) = n
      /\ rest \in Seq(Byte) /\ Len(rest) = Len(f.data) - n
  BY <1>1, <1>2, <1>3, RestOfSequence
<1>5. AfterRead(f, size)
        = [f EXCEPT !.data = rest, !.eof = f.eof \/ (f.data = <<>> /\ f.ended)]
  BY <1>4 DEF AfterRead, Files
<1> HIDE DEF rest
<1> DEFINE eof == f.eof \/ (f.data = <<>> /\ f.ended)
<1>6. eof \in BOOLEAN
  BY DEF Files
<1> HIDE DEF eof
<1>7. AfterRead(f, size) = [f EXCEPT !.data = rest, !.eof = eof]
  BY <1>5 DEF eof
<1>8. Len(rest) <= f.room
  BY <1>1, <1>2, <1>4
<1>9. AfterRead(f, size)
        = [data |-> rest, room |-> f.room, ended |-> f.ended, broken |-> f.broken,
           eof |-> eof, closed |-> f.closed]
  BY <1>7 DEF Files
<1>10. f.ended \in BOOLEAN /\ f.broken \in BOOLEAN /\ f.closed \in BOOLEAN
  BY DEF Files
<1>11. /\ AfterRead(f, size) \in Files /\ AfterRead(f, size).data = rest
      /\ AfterRead(f, size).eof = eof
      /\ AfterRead(f, size).room = f.room /\ AfterRead(f, size).ended = f.ended
      /\ AfterRead(f, size).broken = f.broken /\ AfterRead(f, size).closed = f.closed
  BY <1>1, <1>4, <1>6, <1>8, <1>9, <1>10 DEF Files
<1>12. Len(rest) <= Len(f.data)
  BY <1>1, <1>2, <1>4
<1> QED BY <1>4, <1>11, <1>12 DEF eof

\* Writing to a descriptor (FileDescriptor::write).
LEMMA WriteFile ==
  ASSUME NEW f \in Files, NEW bytes \in Seq(Byte)
  PROVE  LET g == AfterWrite(f, bytes)
         IN  /\ Written(f, bytes) \in Nat
             /\ Len(f.data) < f.room /\ bytes # <<>> => Written(f, bytes) # 0
             /\ g \in Files /\ g.room = f.room
             /\ g.ended = f.ended /\ g.broken = f.broken /\ g.closed = f.closed
             /\ g.eof = f.eof
             /\ ReadCounts(f) => ReadCounts(g)
<1> DEFINE n    == Written(f, bytes)
           part == SubSeq(bytes, 1, n)
           more == f.data \o part
<1>1. /\ f.data \in Seq(Byte) /\ f.room \in Nat /\ Len(f.data) <= f.room
      /\ Len(f.data) \in Nat /\ Len(bytes) \in Nat
  BY DEF Files
<1>2. n \in Nat /\ n <= Len(bytes) /\ n <= f.room - Len(f.data)
  BY <1>1 DEF Written, Least
<1>3. Len(f.data) < f.room /\ bytes # <<>> => n # 0
  BY <1>1 DEF Written, Least
<1> HIDE DEF n
<1>4. part \in Seq(Byte) /\ Len(part) = n
  BY <1>2, RestOfSequence
<1>5. more \in Seq(Byte) /\ Len(more) = Len(f.data) + n
  <2> HIDE DEF part
  <2> QED BY <1>1, <1>4, ConcatProperties
<1>6. AfterWrite(f, bytes) = [f EXCEPT !.data = more]
  BY DEF AfterWrite, n
<1>8. f.data # <<>> => more # <<>>
  BY <1>1, <1>2, <1>5
<1> HIDE DEF more
<1>7. /\ AfterWrite(f, bytes) \in Files
      /\ AfterWrite(f, bytes).room = f.room /\ AfterWrite(f, bytes).ended = f.ended
      /\ AfterWrite(f, bytes).broken = f.broken /\ AfterWrite(f, bytes).closed = f.closed
      /\ AfterWrite(f, bytes).eof = f.eof /\ AfterWrite(f, bytes).data = more
  BY <1>1, <1>2, <1>5, <1>6 DEF Files
<1> QED BY <1>2, <1>3, <1>7, <1>8 DEF n, ReadCounts

-----------------------------------------------------------------------------
(* What the rules of the owner do.                                          *)

\* StreamCopy has the same streams and files.
LEMMA CopyOperators ==
  /\ \A b : /\ Copy!AvailableCapacity(b) = AvailableCapacity(b)
            /\ Copy!IsFinished(b) = IsFinished(b)
            /\ Copy!WriterClose(b) = WriterClose(b) /\ Copy!SetError(b) = SetError(b)
  /\ \A b, x : Copy!WriterPush(b, x) = WriterPush(b, x) /\ Copy!ReaderPop(b, x) = ReaderPop(b, x)
  /\ \A f : /\ Copy!ReadCounts(f) = ReadCounts(f)
            /\ Copy!Shutdown(f) = Shutdown(f) /\ Copy!Close(f) = Close(f)
  /\ \A f, x : /\ Copy!BytesRead(f, x) = BytesRead(f, x)
               /\ Copy!AfterRead(f, x) = AfterRead(f, x)
               /\ Copy!Written(f, x) = Written(f, x)
               /\ Copy!AfterWrite(f, x) = AfterWrite(f, x)
               /\ Copy!WriteKills(f, x) = WriteKills(f, x)
               /\ Copy!WriteThrows(f, x) = WriteThrows(f, x)
<1>1. /\ \A b : /\ Copy!AvailableCapacity(b) = AvailableCapacity(b)
                /\ Copy!IsFinished(b) = IsFinished(b)
                /\ Copy!WriterClose(b) = WriterClose(b) /\ Copy!SetError(b) = SetError(b)
      /\ \A f : /\ Copy!ReadCounts(f) = ReadCounts(f)
                /\ Copy!Shutdown(f) = Shutdown(f) /\ Copy!Close(f) = Close(f)
  BY Zenon DEF Copy!AvailableCapacity, AvailableCapacity, Copy!IsFinished, IsFinished,
     Copy!WriterClose, WriterClose, Copy!SetError, SetError, Copy!ReadCounts, ReadCounts,
     Copy!Shutdown, Shutdown, Copy!Close, Close
<1>2. \A b, x : /\ Copy!WriterPush(b, x) = WriterPush(b, x)
                /\ Copy!ReaderPop(b, x) = ReaderPop(b, x)
  BY Zenon DEF Copy!WriterPush, WriterPush, Copy!ReaderPop, ReaderPop, Copy!Least, Least,
     Copy!AvailableCapacity, AvailableCapacity
<1>3. \A f, x : /\ Copy!BytesRead(f, x) = BytesRead(f, x)
                /\ Copy!AfterRead(f, x) = AfterRead(f, x)
  BY Zenon DEF Copy!BytesRead, BytesRead, Copy!AfterRead, AfterRead, Copy!ReadSize, ReadSize,
     Copy!Least, Least
<1>4. \A f, x : /\ Copy!Written(f, x) = Written(f, x)
                /\ Copy!AfterWrite(f, x) = AfterWrite(f, x)
                /\ Copy!WriteKills(f, x) = WriteKills(f, x)
                /\ Copy!WriteThrows(f, x) = WriteThrows(f, x)
  BY Zenon DEF Copy!Written, Written, Copy!AfterWrite, AfterWrite, Copy!WriteKills, WriteKills,
     Copy!WriteThrows, WriteThrows, Copy!Least, Least
<1> QED BY <1>1, <1>2, <1>3, <1>4

\* The parts of the owner's world.
LEMMA CopyParts ==
  ASSUME NEW p, NEW s \in CopyWorlds(p)
  PROVE  /\ s = [me |-> s.me, loop |-> s.loop, files |-> s.files, fate |-> s.fate]
         /\ s.me = [outbound |-> s.me.outbound, inbound |-> s.me.inbound,
                    outbound_shutdown |-> s.me.outbound_shutdown,
                    inbound_shutdown |-> s.me.inbound_shutdown]
         /\ s.files = [terminal |-> s.files.terminal, input |-> s.files.input,
                       output |-> s.files.output, toTcp |-> s.files.toTcp,
                       toOwner |-> s.files.toOwner]
         /\ s.me.outbound \in Streams /\ s.me.inbound \in Streams
         /\ s.me.outbound_shutdown \in BOOLEAN /\ s.me.inbound_shutdown \in BOOLEAN
         /\ s.loop \in Loops(CopyRuleNames, p) /\ s.fate \in Fates
         /\ s.files.terminal \in BOOLEAN /\ s.files.input \in Files
         /\ s.files.output \in Files /\ s.files.toTcp \in Files /\ s.files.toOwner \in Files
BY DEF CopyWorlds, Copies, FileTables

\* What a file gives to a stream (Writer::push, and close at the end of file).
LEMMA StreamFilled ==
  ASSUME NEW b \in Streams, NEW f \in Files
  PROVE  LET c == Copy!Filled(b, f)
         IN  /\ c \in Streams
             /\ c.capacity = b.capacity /\ c.error = b.error
             /\ c.closed = (b.closed \/ AfterRead(f, AvailableCapacity(b)).eof)
<1> DEFINE size   == AvailableCapacity(b)
           pushed == WriterPush(b, BytesRead(f, size))
           eof    == AfterRead(f, size).eof
<1>1. size \in Nat
  BY DEF AvailableCapacity, Streams, ByteStreams
<1>2. Copy!Filled(b, f) = IF eof THEN WriterClose(pushed) ELSE pushed
  BY CopyOperators DEF Copy!Filled
<1>3. BytesRead(f, size) \in Seq(Byte) /\ eof \in BOOLEAN
  <2> HIDE DEF size
  <2> QED BY <1>1, ReadFile DEF Files
<1>4. /\ pushed \in Streams /\ pushed.capacity = b.capacity
      /\ pushed.error = b.error /\ pushed.closed = b.closed
  <2> HIDE DEF size
  <2> QED BY <1>3, PushStream
<1>5. b.closed \in BOOLEAN
  BY DEF Streams, ByteStreams
<1> HIDE DEF pushed, eof
<1>6. CASE eof
  BY <1>2, <1>4, <1>6, MarkStream DEF eof
<1>7. CASE ~eof
  BY <1>2, <1>3, <1>4, <1>5, <1>7 DEF eof
<1> QED BY <1>6, <1>7

\* Standard input is read (the first rule of bidirectional_stream_copy).
LEMMA ReadStdinDoes ==
  ASSUME NEW p, NEW s \in CopyWorlds(p)
  PROVE  LET w == Copy!ReadStdin(s)
         IN  /\ w \in CopyWorlds(p) /\ w.fate = s.fate
             /\ w.loop = [s.loop EXCEPT !.serviced = ReadCounts(s.files.input)]
             /\ w.me.outbound.error = s.me.outbound.error
             /\ w.me = [s.me EXCEPT !.outbound = w.me.outbound]
             /\ w.files = [s.files EXCEPT !.input = w.files.input]
             /\ w.files.input.room = s.files.input.room
             /\ Len(w.files.input.data) <= Len(s.files.input.data)
             /\ w.me.outbound = Copy!Filled(s.me.outbound, s.files.input)
             /\ w.files.input = AfterRead(s.files.input, AvailableCapacity(s.me.outbound))
<1> DEFINE b == Copy!Filled(s.me.outbound, s.files.input)
           f == AfterRead(s.files.input, AvailableCapacity(s.me.outbound))
           c == ReadCounts(s.files.input)
<1>1. Copy!ReadStdin(s)
        = [s EXCEPT !.me.outbound = b, !.files.input = f, !.loop.serviced = c]
  BY CopyOperators, Zenon DEF Copy!ReadStdin
<1>2. s.me.outbound \in Streams /\ s.files.input \in Files /\ s.loop \in Loops(CopyRuleNames, p)
  BY CopyParts
<1>3. AvailableCapacity(s.me.outbound) \in Nat
  BY <1>2 DEF AvailableCapacity, Streams, ByteStreams
<1>4. b \in Streams /\ b.error = s.me.outbound.error
  BY <1>2, StreamFilled
<1>5. /\ f \in Files /\ f.room = s.files.input.room
      /\ Len(f.data) <= Len(s.files.input.data)
  BY <1>2, <1>3, ReadFile
<1>6. c \in BOOLEAN
  BY <1>2 DEF ReadCounts, Files
<1> HIDE DEF b, f, c
<1> DEFINE me    == [s.me EXCEPT !.outbound = b]
           files2 == [s.files EXCEPT !.input = f]
           loop  == [s.loop EXCEPT !.serviced = c]
<1>7. Copy!ReadStdin(s) = [me |-> me, loop |-> loop, files |-> files2, fate |-> s.fate]
  <2>1. s = [me |-> s.me, loop |-> s.loop, files |-> s.files, fate |-> s.fate]
    BY CopyParts
  <2> QED BY <1>1, <2>1
<1>8. me \in Copies /\ me.outbound = b
  BY <1>4 DEF CopyWorlds, Copies
<1>9. files2 \in FileTables /\ files2.input = f
  BY <1>5 DEF CopyWorlds, FileTables
<1>10. loop \in Loops(CopyRuleNames, p)
  BY <1>2, <1>6 DEF Loops
<1>11. s.fate \in Fates
  BY CopyParts
<1> HIDE DEF loop, files2, me
<1>12. Copy!ReadStdin(s) \in CopyWorlds(p)
  BY <1>7, <1>8, <1>9, <1>10, <1>11 DEF CopyWorlds
<1> DEFINE w == Copy!ReadStdin(s)
<1>13. w.me = me /\ w.loop = loop /\ w.files = files2 /\ w.fate = s.fate
  BY <1>7
<1> HIDE DEF w
<1>14. w.me.outbound = b /\ w.files.input = f
  BY <1>8, <1>9, <1>13
<1>15. w.me = [s.me EXCEPT !.outbound = w.me.outbound]
  BY <1>13, <1>14 DEF me
<1>16. w.files = [s.files EXCEPT !.input = w.files.input]
  BY <1>13, <1>14 DEF files2
<1>17. w.loop = [s.loop EXCEPT !.serviced = ReadCounts(s.files.input)]
  BY <1>13 DEF loop, c
<1>18. /\ w.me.outbound = Copy!Filled(s.me.outbound, s.files.input)
       /\ w.files.input = AfterRead(s.files.input, AvailableCapacity(s.me.outbound))
  BY <1>14 DEF b, f
<1> QED BY <1>4, <1>5, <1>12, <1>13, <1>14, <1>15, <1>16, <1>17, <1>18 DEF w

\* The socket is read (the third rule).
LEMMA ReadSocketDoes ==
  ASSUME NEW p, NEW s \in CopyWorlds(p)
  PROVE  LET w == Copy!ReadSocket(s)
             f == w.files.toOwner
         IN  /\ w \in CopyWorlds(p) /\ w.fate = s.fate
             /\ w.loop = [s.loop EXCEPT !.serviced = ReadCounts(s.files.toOwner)]
             /\ w.me.inbound.error = s.me.inbound.error
             /\ w.me.inbound.capacity = s.me.inbound.capacity
             /\ w.me.inbound.closed = (s.me.inbound.closed \/ f.eof)
             /\ w.me = [s.me EXCEPT !.inbound = w.me.inbound]
             /\ w.files = [s.files EXCEPT !.toOwner = f]
             /\ f.room = s.files.toOwner.room /\ Len(f.data) <= Len(s.files.toOwner.data)
             /\ f.ended = s.files.toOwner.ended /\ f.broken = s.files.toOwner.broken
             /\ f.eof = (s.files.toOwner.eof
                          \/ (s.files.toOwner.data = <<>> /\ s.files.toOwner.ended))
             /\ w.me.inbound = Copy!Filled(s.me.inbound, s.files.toOwner)
             /\ f = AfterRead(s.files.toOwner, AvailableCapacity(s.me.inbound))
<1> DEFINE b == Copy!Filled(s.me.inbound, s.files.toOwner)
           f == AfterRead(s.files.toOwner, AvailableCapacity(s.me.inbound))
           c == ReadCounts(s.files.toOwner)
<1>1. Copy!ReadSocket(s)
        = [s EXCEPT !.me.inbound = b, !.files.toOwner = f, !.loop.serviced = c]
  BY CopyOperators, Zenon DEF Copy!ReadSocket
<1>2. s.me.inbound \in Streams /\ s.files.toOwner \in Files /\ s.loop \in Loops(CopyRuleNames, p)
  BY CopyParts
<1>3. AvailableCapacity(s.me.inbound) \in Nat
  BY <1>2 DEF AvailableCapacity, Streams, ByteStreams
<1>4. /\ b \in Streams /\ b.error = s.me.inbound.error
      /\ b.capacity = s.me.inbound.capacity /\ b.closed = (s.me.inbound.closed \/ f.eof)
  BY <1>2, StreamFilled
<1>5. /\ f \in Files /\ f.ended = s.files.toOwner.ended /\ f.broken = s.files.toOwner.broken
      /\ f.room = s.files.toOwner.room /\ Len(f.data) <= Len(s.files.toOwner.data)
      /\ f.eof = (s.files.toOwner.eof
                   \/ (s.files.toOwner.data = <<>> /\ s.files.toOwner.ended))
  BY <1>2, <1>3, ReadFile
<1>6. c \in BOOLEAN
  BY <1>2 DEF ReadCounts, Files
<1> HIDE DEF b, f, c
<1> DEFINE me    == [s.me EXCEPT !.inbound = b]
           files2 == [s.files EXCEPT !.toOwner = f]
           loop  == [s.loop EXCEPT !.serviced = c]
<1>7. Copy!ReadSocket(s) = [me |-> me, loop |-> loop, files |-> files2, fate |-> s.fate]
  <2>1. s = [me |-> s.me, loop |-> s.loop, files |-> s.files, fate |-> s.fate]
    BY CopyParts
  <2> QED BY <1>1, <2>1
<1>8. me \in Copies /\ me.inbound = b
  BY <1>4 DEF CopyWorlds, Copies
<1>9. files2 \in FileTables /\ files2.toOwner = f
  BY <1>5 DEF CopyWorlds, FileTables
<1>10. loop \in Loops(CopyRuleNames, p)
  BY <1>2, <1>6 DEF Loops
<1>11. s.fate \in Fates
  BY CopyParts
<1> HIDE DEF loop, files2, me
<1>12. Copy!ReadSocket(s) \in CopyWorlds(p)
  BY <1>7, <1>8, <1>9, <1>10, <1>11 DEF CopyWorlds
<1> DEFINE w == Copy!ReadSocket(s)
<1>13. w.me = me /\ w.loop = loop /\ w.files = files2 /\ w.fate = s.fate
  BY <1>7
<1> HIDE DEF w
<1>14. w.me.inbound = b /\ w.files.toOwner = f
  BY <1>8, <1>9, <1>13
<1>15. w.me = [s.me EXCEPT !.inbound = w.me.inbound]
  BY <1>13, <1>14 DEF me
<1>16. w.files = [s.files EXCEPT !.toOwner = w.files.toOwner]
  BY <1>13, <1>14 DEF files2
<1>17. w.loop = [s.loop EXCEPT !.serviced = ReadCounts(s.files.toOwner)]
  BY <1>13 DEF loop, c
<1>18. /\ w.me.inbound = Copy!Filled(s.me.inbound, s.files.toOwner)
       /\ w.files.toOwner = AfterRead(s.files.toOwner, AvailableCapacity(s.me.inbound))
  BY <1>14 DEF b, f
<1> QED BY <1>4, <1>5, <1>12, <1>13, <1>14, <1>15, <1>16, <1>17, <1>18 DEF w

\* A stream that is written to a file (FileDescriptor::write, Reader::pop).
LEMMA StreamDrained ==
  ASSUME NEW b \in Streams, NEW f \in Files
  PROVE  LET c == Copy!Drained(b, f)
             g == AfterWrite(f, b.buffer)
         IN  /\ c \in Streams
             /\ c.capacity = b.capacity /\ c.error = b.error /\ c.closed = b.closed
             /\ b.buffer = <<>> => c.buffer = <<>>
             /\ IsFinished(c) \in BOOLEAN
             /\ g \in Files /\ g.room = f.room /\ g.ended = f.ended
             /\ g.broken = f.broken /\ g.closed = f.closed /\ g.eof = f.eof
             /\ ReadCounts(f) => ReadCounts(g)
<1>1. b.buffer \in Seq(Byte)
  BY DEF Streams, ByteStreams
<1>2. Written(f, b.buffer) \in Nat
  BY <1>1, WriteFile
<1>3. Copy!Drained(b, f) = ReaderPop(b, Written(f, b.buffer))
  BY CopyOperators DEF Copy!Drained
<1>4. \A c \in Streams : IsFinished(c) \in BOOLEAN
  BY DEF IsFinished, Streams, ByteStreams
<1> DEFINE n == Written(f, b.buffer)
           c == ReaderPop(b, n)
<1>5. n \in Nat
  BY <1>2
<1> HIDE DEF n
<1>6. /\ c \in Streams /\ c.capacity = b.capacity /\ c.error = b.error
      /\ c.closed = b.closed
      /\ b.buffer = <<>> => c.buffer = <<>>
  BY <1>5, PopStream
<1>7. Copy!Drained(b, f) = c
  BY <1>3 DEF n
<1> HIDE DEF c
<1> DEFINE g == AfterWrite(f, b.buffer)
<1>8. /\ g \in Files /\ g.room = f.room /\ g.ended = f.ended
      /\ g.broken = f.broken /\ g.closed = f.closed /\ g.eof = f.eof
      /\ ReadCounts(f) => ReadCounts(g)
  BY <1>1, WriteFile
<1> HIDE DEF g
<1>9. IsFinished(c) \in BOOLEAN
  BY <1>4, <1>6
<1> QED BY <1>6, <1>7, <1>8, <1>9 DEF g

\* The program dies writing stream b to file f.
Fails(b, f) == b.buffer # <<>> /\ (f.ended \/ f.broken \/ ~(Len(f.data) < f.room))

\* A write has another fate only where it fails.
LEMMA FateOfWrite ==
  ASSUME NEW s, s.fate \in Fates, NEW b \in Streams, NEW f \in Files
  PROVE  /\ Copy!WriteFate(s, b, f) \in Fates
         /\ Copy!WriteFate(s, b, f) # s.fate => Fails(b, f)
<1>1. b.buffer \in Seq(Byte)
  BY DEF Streams, ByteStreams
<1>2. WriteKills(f, b.buffer) => Fails(b, f)
  BY DEF WriteKills, Fails
<1>3. WriteThrows(f, b.buffer) => Fails(b, f)
  BY <1>1, WriteFile DEF WriteThrows, Fails
<1>4. Copy!WriteFate(s, b, f)
        = IF WriteKills(f, b.buffer) THEN "killed"
          ELSE IF WriteThrows(f, b.buffer) THEN "threw" ELSE s.fate
  BY CopyOperators DEF Copy!WriteFate
<1> QED BY <1>2, <1>3, <1>4 DEF Fates

\* What the writing rules change.
LEMMA WriterWorlds ==
  ASSUME NEW s, s = [me |-> s.me, loop |-> s.loop, files |-> s.files, fate |-> s.fate],
         NEW b, NEW shut, NEW f, NEW c, NEW w
  PROVE  /\ w = [s EXCEPT !.me.outbound = b, !.me.outbound_shutdown = shut,
                          !.files.toTcp = f, !.loop.serviced = c]
             => w = [me |-> [s.me EXCEPT !.outbound = b, !.outbound_shutdown = shut],
                     loop |-> [s.loop EXCEPT !.serviced = c],
                     files |-> [s.files EXCEPT !.toTcp = f], fate |-> s.fate]
         /\ w = [s EXCEPT !.me.inbound = b, !.me.inbound_shutdown = shut,
                          !.files.output = f, !.loop.serviced = c]
             => w = [me |-> [s.me EXCEPT !.inbound = b, !.inbound_shutdown = shut],
                     loop |-> [s.loop EXCEPT !.serviced = c],
                     files |-> [s.files EXCEPT !.output = f], fate |-> s.fate]
OBVIOUS

\* What the second rule does when the write succeeds.
SocketWritten(s, w) ==
  LET b == w.me.outbound
      f == w.files.toTcp
  IN  /\ w.fate = s.fate
      /\ w.loop = [s.loop EXCEPT !.serviced = IsFinished(b) \/ s.me.outbound.buffer # <<>>]
      /\ b.error = s.me.outbound.error /\ b.closed = s.me.outbound.closed
      /\ s.me.outbound.buffer = <<>> => b.buffer = <<>>
      /\ w.me = [s.me EXCEPT !.outbound = b, !.outbound_shutdown = @ \/ IsFinished(b)]
      /\ w.files = [s.files EXCEPT !.toTcp = f]
      /\ f.ended = (s.files.toTcp.ended \/ IsFinished(b))
      /\ f.closed = s.files.toTcp.closed /\ f.eof = s.files.toTcp.eof
      /\ f.broken = s.files.toTcp.broken
      /\ ReadCounts(s.files.toTcp) => ReadCounts(f)
      /\ b = Copy!Drained(s.me.outbound, s.files.toTcp)
      /\ f.data = AfterWrite(s.files.toTcp, s.me.outbound.buffer).data

\* The socket is written, and shut down after the last byte (the second rule).
LEMMA WriteSocketDoes ==
  ASSUME NEW p, NEW s \in CopyWorlds(p)
  PROVE  LET w == Copy!WriteSocket(s)
         IN  /\ w \in CopyWorlds(p)
             /\ \/ Fails(s.me.outbound, s.files.toTcp) /\ w = [s EXCEPT !.fate = w.fate]
                \/ SocketWritten(s, w)
<1> DEFINE old  == s.me.outbound
           at   == s.files.toTcp
           b    == Copy!Drained(old, at)
           sent == AfterWrite(at, old.buffer)
           ends == IsFinished(b)
           f    == IF ends THEN Shutdown(sent) ELSE sent
           c    == ends \/ old.buffer # <<>>
           after == Copy!WriteFate(s, old, at)
           shut == s.me.outbound_shutdown \/ ends
           done == [s EXCEPT !.me = [@ EXCEPT !.outbound = b, !.outbound_shutdown = shut],
                             !.files.toTcp = f, !.loop.serviced = c]
<1>1. Copy!WriteSocket(s) = IF after # s.fate THEN [s EXCEPT !.fate = after] ELSE done
  BY CopyOperators, Zenon DEF Copy!WriteSocket
<1>2. old \in Streams /\ at \in Files /\ s.loop \in Loops(CopyRuleNames, p) /\ s.fate \in Fates
      /\ s.me.outbound_shutdown \in BOOLEAN
  BY CopyParts
<1> HIDE DEF old, at
<1>3. after \in Fates /\ (after # s.fate => Fails(old, at))
  BY <1>2, FateOfWrite
<1>4. /\ b \in Streams /\ b.error = old.error /\ b.capacity = old.capacity
      /\ b.closed = old.closed
      /\ old.buffer = <<>> => b.buffer = <<>>
      /\ ends \in BOOLEAN
      /\ sent \in Files /\ sent.ended = at.ended /\ sent.broken = at.broken
      /\ sent.closed = at.closed /\ sent.eof = at.eof
      /\ ReadCounts(at) => ReadCounts(sent)
  BY <1>2, StreamDrained
<1> HIDE DEF after, b, sent
<1>5. /\ f \in Files /\ f.broken = at.broken /\ f.data = sent.data
      /\ f.ended = (at.ended \/ ends)
      /\ f.closed = at.closed /\ f.eof = at.eof
      /\ ReadCounts(at) => ReadCounts(f)
  BY <1>4 DEF Shutdown, Files, ReadCounts
<1>6. c \in BOOLEAN /\ shut \in BOOLEAN
  BY <1>2, <1>4
<1>7. s = [me |-> s.me, loop |-> s.loop, files |-> s.files, fate |-> s.fate]
  BY CopyParts
<1>8. CASE after # s.fate
  <2> DEFINE w == [s EXCEPT !.fate = after]
  <2>1. w = [me |-> s.me, loop |-> s.loop, files |-> s.files, fate |-> after]
    BY <1>7
  <2>2. w \in CopyWorlds(p) /\ w.fate = after
    BY <1>3, <2>1 DEF CopyWorlds
  <2> HIDE DEF w
  <2>3. Copy!WriteSocket(s) = w
    BY <1>1, <1>8 DEF w
  <2> QED BY <1>3, <1>8, <2>2, <2>3 DEF w, old, at
<1>9. CASE after = s.fate
  <2> DEFINE me    == [s.me EXCEPT !.outbound = b, !.outbound_shutdown = shut]
             files2 == [s.files EXCEPT !.toTcp = f]
             loop  == [s.loop EXCEPT !.serviced = c]
             w     == Copy!WriteSocket(s)
  <2> HIDE DEF ends, f, c, shut
  <2>1. w = done
    BY <1>1, <1>9
  <2> HIDE DEF w
  <2>2. w = [me |-> me, loop |-> loop, files |-> files2, fate |-> s.fate]
    BY <1>7, <2>1, WriterWorlds, Zenon
  <2>3. me \in Copies /\ me.outbound = b
    BY <1>4, <1>6 DEF CopyWorlds, Copies
  <2>4. files2 \in FileTables /\ files2.toTcp = f
    BY <1>5 DEF CopyWorlds, FileTables
  <2>5. loop \in Loops(CopyRuleNames, p)
    BY <1>2, <1>6 DEF Loops
  <2> HIDE DEF me, files2, loop, done
  <2>6. /\ w \in CopyWorlds(p)
        /\ w.me = me /\ w.loop = loop /\ w.files = files2 /\ w.fate = s.fate
    BY <1>2, <2>2, <2>3, <2>4, <2>5 DEF CopyWorlds
  <2>7. w.me.outbound = b /\ w.files.toTcp = f
    BY <2>3, <2>4, <2>6
  <2>8. w.me = [s.me EXCEPT !.outbound = w.me.outbound,
                            !.outbound_shutdown = @ \/ IsFinished(w.me.outbound)]
    BY <2>6, <2>7 DEF me, shut, ends
  <2>9. w.files = [s.files EXCEPT !.toTcp = w.files.toTcp]
    BY <2>6, <2>7 DEF files2
  <2>10. w.loop = [s.loop EXCEPT !.serviced = IsFinished(w.me.outbound) \/ s.me.outbound.buffer # <<>>]
    BY <2>6, <2>7 DEF loop, c, ends, old
  <2>11. /\ w.me.outbound = Copy!Drained(s.me.outbound, s.files.toTcp)
         /\ w.files.toTcp.data = AfterWrite(s.files.toTcp, s.me.outbound.buffer).data
    BY <1>5, <2>7 DEF b, sent, old, at
  <2>12. SocketWritten(s, w)
    BY <1>4, <1>5, <2>6, <2>7, <2>8, <2>9, <2>10, <2>11 DEF SocketWritten, ends, old, at
  <2> QED BY <2>6, <2>12 DEF w
<1> QED BY <1>8, <1>9

\* What the fourth rule does when the write succeeds.
StdoutWritten(s, w) ==
  LET b == w.me.inbound
      f == w.files.output
  IN  /\ w.fate = s.fate
      /\ w.loop = [s.loop EXCEPT !.serviced = s.me.inbound.buffer # <<>>]
      /\ b.error = s.me.inbound.error /\ b.capacity = s.me.inbound.capacity
      /\ b.closed = s.me.inbound.closed
      /\ s.me.inbound.buffer = <<>> => b.buffer = <<>>
      /\ w.me = [s.me EXCEPT !.inbound = b, !.inbound_shutdown = @ \/ IsFinished(b)]
      /\ w.files = [s.files EXCEPT !.output = f]
      /\ f.closed = (s.files.output.closed \/ IsFinished(b))
      /\ f.ended = s.files.output.ended /\ f.broken = s.files.output.broken
      /\ b = Copy!Drained(s.me.inbound, s.files.output)
      /\ f.data = AfterWrite(s.files.output, s.me.inbound.buffer).data

\* Standard output is written, and closed after the last byte (the fourth rule).
LEMMA WriteStdoutDoes ==
  ASSUME NEW p, NEW s \in CopyWorlds(p)
  PROVE  LET w == Copy!WriteStdout(s)
         IN  /\ w \in CopyWorlds(p)
             /\ \/ Fails(s.me.inbound, s.files.output) /\ w = [s EXCEPT !.fate = w.fate]
                \/ StdoutWritten(s, w)
<1> DEFINE old  == s.me.inbound
           at   == s.files.output
           b    == Copy!Drained(old, at)
           sent == AfterWrite(at, old.buffer)
           ends == IsFinished(b)
           f    == IF ends THEN Close(sent) ELSE sent
           c    == old.buffer # <<>>
           after == Copy!WriteFate(s, old, at)
           shut == s.me.inbound_shutdown \/ ends
           done == [s EXCEPT !.me = [@ EXCEPT !.inbound = b, !.inbound_shutdown = shut],
                             !.files.output = f, !.loop.serviced = c]
<1>1. Copy!WriteStdout(s) = IF after # s.fate THEN [s EXCEPT !.fate = after] ELSE done
  BY CopyOperators, Zenon DEF Copy!WriteStdout
<1>2. old \in Streams /\ at \in Files /\ s.loop \in Loops(CopyRuleNames, p) /\ s.fate \in Fates
      /\ s.me.inbound_shutdown \in BOOLEAN
  BY CopyParts
<1> HIDE DEF old, at
<1>3. after \in Fates /\ (after # s.fate => Fails(old, at))
  BY <1>2, FateOfWrite
<1>4. /\ b \in Streams /\ b.error = old.error /\ b.capacity = old.capacity
      /\ b.closed = old.closed
      /\ old.buffer = <<>> => b.buffer = <<>>
      /\ ends \in BOOLEAN
      /\ sent \in Files /\ sent.ended = at.ended /\ sent.broken = at.broken
      /\ sent.closed = at.closed /\ sent.eof = at.eof
  BY <1>2, StreamDrained
<1> HIDE DEF after, b, sent
<1>5. /\ f \in Files /\ f.broken = at.broken /\ f.data = sent.data
      /\ f.closed = (at.closed \/ ends)
      /\ f.ended = at.ended
  BY <1>4 DEF Close, Files
<1>6. c \in BOOLEAN /\ shut \in BOOLEAN
  BY <1>2, <1>4
<1>7. s = [me |-> s.me, loop |-> s.loop, files |-> s.files, fate |-> s.fate]
  BY CopyParts
<1>8. CASE after # s.fate
  <2> DEFINE w == [s EXCEPT !.fate = after]
  <2>1. w = [me |-> s.me, loop |-> s.loop, files |-> s.files, fate |-> after]
    BY <1>7
  <2>2. w \in CopyWorlds(p) /\ w.fate = after
    BY <1>3, <2>1 DEF CopyWorlds
  <2> HIDE DEF w
  <2>3. Copy!WriteStdout(s) = w
    BY <1>1, <1>8 DEF w
  <2> QED BY <1>3, <1>8, <2>2, <2>3 DEF w, old, at
<1>9. CASE after = s.fate
  <2> DEFINE me    == [s.me EXCEPT !.inbound = b, !.inbound_shutdown = shut]
             files2 == [s.files EXCEPT !.output = f]
             loop  == [s.loop EXCEPT !.serviced = c]
             w     == Copy!WriteStdout(s)
  <2> HIDE DEF ends, f, c, shut
  <2>1. w = done
    BY <1>1, <1>9
  <2> HIDE DEF w
  <2>2. w = [me |-> me, loop |-> loop, files |-> files2, fate |-> s.fate]
    BY <1>7, <2>1, WriterWorlds, Zenon
  <2>3. me \in Copies /\ me.inbound = b
    BY <1>4, <1>6 DEF CopyWorlds, Copies
  <2>4. files2 \in FileTables /\ files2.output = f
    BY <1>5 DEF CopyWorlds, FileTables
  <2>5. loop \in Loops(CopyRuleNames, p)
    BY <1>2, <1>6 DEF Loops
  <2> HIDE DEF me, files2, loop, done
  <2>6. /\ w \in CopyWorlds(p)
        /\ w.me = me /\ w.loop = loop /\ w.files = files2 /\ w.fate = s.fate
    BY <1>2, <2>2, <2>3, <2>4, <2>5 DEF CopyWorlds
  <2>7. w.me.inbound = b /\ w.files.output = f
    BY <2>3, <2>4, <2>6
  <2>8. w.me = [s.me EXCEPT !.inbound = w.me.inbound,
                            !.inbound_shutdown = @ \/ IsFinished(w.me.inbound)]
    BY <2>6, <2>7 DEF me, shut, ends
  <2>9. w.files = [s.files EXCEPT !.output = w.files.output]
    BY <2>6, <2>7 DEF files2
  <2>10. w.loop = [s.loop EXCEPT !.serviced = s.me.inbound.buffer # <<>>]
    BY <2>6, <2>7 DEF loop, c, ends, old
  <2>11. /\ w.me.inbound = Copy!Drained(s.me.inbound, s.files.output)
         /\ w.files.output.data = AfterWrite(s.files.output, s.me.inbound.buffer).data
    BY <1>5, <2>7 DEF b, sent, old, at
  <2>12. StdoutWritten(s, w)
    BY <1>4, <1>5, <2>6, <2>7, <2>8, <2>9, <2>10, <2>11 DEF StdoutWritten, ends, old, at
  <2> QED BY <2>6, <2>12 DEF w
<1> QED BY <1>8, <1>9

-----------------------------------------------------------------------------
(* Rules that are taken out of a loop.                                      *)

\* The elements of a sequence with one more.
LEMMA OneMoreElement ==
  ASSUME NEW R, NEW q \in Seq(R), NEW x \in R
  PROVE  ToSet(Append(q, x)) = ToSet(q) \union {x}
<1> DEFINE n == Len(q)
           w == Append(q, x)
<1>1. n \in Nat /\ DOMAIN q = 1..n
  OBVIOUS
<1>2. /\ w \in Seq(R) /\ DOMAIN w = 1..(n + 1) /\ w[n + 1] = x
      /\ \A i \in 1..n : w[i] = q[i]
  BY <1>1
<1> HIDE DEF w, n
<1>3. \A i \in 1..(n + 1) : i = n + 1 \/ i \in 1..n
  BY <1>1
<1>4. \A i \in 1..n : i \in 1..(n + 1)
  BY <1>1
<1>5. n + 1 \in 1..(n + 1)
  BY <1>1
<1> QED BY <1>1, <1>2, <1>3, <1>4, <1>5 DEF ToSet, w

\* The elements of a selection.
LEMMA SelectedElements ==
  ASSUME NEW R, NEW q \in Seq(R), NEW S
  PROVE  /\ Selected(q, S) \in Seq(R)
         /\ ToSet(Selected(q, S)) = ToSet(q) \intersect S
<1>1. PICK f \in [0..Len(q) -> Seq(R)] : Picks(f, q, S) /\ Selected(q, S) = f[Len(q)]
  BY SelectedPicks
<1> DEFINE n == Len(q)
           First(i) == {q[j] : j \in 1..i}
           Good == {i \in 0..n : ToSet(f[i]) = First(i) \intersect S}
<1>2. n \in Nat /\ n \in 0..n /\ DOMAIN q = 1..n
  OBVIOUS
<1>3. 0 \in Good
  <2>1. f[0] = <<>> /\ 0 \in 0..n
    BY <1>1, <1>2 DEF Picks
  <2>2. ToSet(<<>>) = {}
    BY DEF ToSet
  <2>3. 1..0 = {}
    OBVIOUS
  <2> QED BY <2>1, <2>2, <2>3
<1>4. ASSUME NEW i \in 1..n, i - 1 \in Good
      PROVE  i \in Good
  <2>1. /\ i - 1 \in 0..n /\ i \in 0..n /\ q[i] \in R
        /\ \A j \in 1..i : j = i \/ j \in 1..(i - 1)
        /\ \A j \in 1..(i - 1) : j \in 1..i
        /\ i \in 1..i
    BY <1>2
  <2>2. f[i] = IF q[i] \in S THEN Append(f[i - 1], q[i]) ELSE f[i - 1]
    BY <1>1, <1>2 DEF Picks
  <2>3. ToSet(f[i - 1]) = First(i - 1) \intersect S /\ f[i - 1] \in Seq(R)
    BY <1>4, <2>1
  <2>4. First(i) = First(i - 1) \union {q[i]}
    BY <2>1
  <2> HIDE DEF First
  <2>5. ToSet(Append(f[i - 1], q[i])) = ToSet(f[i - 1]) \union {q[i]}
    BY <2>1, <2>3, OneMoreElement
  <2>6. ToSet(f[i]) = First(i) \intersect S
    <3>1. CASE q[i] \in S
      BY <2>2, <2>3, <2>4, <2>5, <3>1
    <3>2. CASE q[i] \notin S
      BY <2>2, <2>3, <2>4, <3>2
    <3> QED BY <3>1, <3>2
  <2> QED BY <2>1, <2>6
<1>5. n \in Good
  <2> HIDE DEF Good
  <2> QED BY <1>2, <1>3, <1>4, InductionUpTo
<1>6. ToSet(q) = First(n)
  BY <1>2 DEF ToSet
<1> QED BY <1>1, <1>2, <1>5, <1>6

\* The loops select as everyone does.
LEMMA LoopOperators ==
  /\ \A q, S : /\ Copy!Loop!Selected(q, S) = Selected(q, S)
               /\ Socket!Loop!Selected(q, S) = Selected(q, S)
  /\ \A q : Copy!Loop!ToSet(q) = ToSet(q) /\ Socket!Loop!ToSet(q) = ToSet(q)
BY Zenon DEF Copy!Loop!Selected, Socket!Loop!Selected, Selected,
   Copy!Loop!ToSet, Socket!Loop!ToSet, ToSet

\* A world that is another one without one of its rules.
Without(w, s, r) ==
  /\ w.me = s.me /\ w.files = s.files /\ w.fate = s.fate
  /\ w.loop.asked = s.loop.asked /\ w.loop.polled = s.loop.polled
  /\ w.loop.done = s.loop.done
  /\ ToSet(w.loop.rules) = ToSet(s.loop.rules) \ {r}

\* Taking a rule out of the owner's loop.
LEMMA CopyErasedDoes ==
  ASSUME NEW p, NEW s \in CopyWorlds(p), NEW r \in CopyRuleNames
  PROVE  LET w == Copy!Loop!Erased(s, r)
         IN  w \in CopyWorlds(p) /\ Without(w, s, r)
<1> DEFINE rules == Selected(s.loop.rules, ToSet(s.loop.rules) \ {r})
           loop  == [s.loop EXCEPT !.rules = rules]
           w     == Copy!Loop!Erased(s, r)
<1>1. w = [s EXCEPT !.loop.rules = rules]
  BY LoopOperators, Zenon DEF Copy!Loop!Erased
<1>2. /\ s = [me |-> s.me, loop |-> s.loop, files |-> s.files, fate |-> s.fate]
      /\ s.loop \in Loops(CopyRuleNames, p)
  BY CopyParts
<1>3. s.loop.rules \in Seq(CopyRuleNames)
  BY <1>2 DEF Loops
<1>4. rules \in Seq(CopyRuleNames) /\ ToSet(rules) = ToSet(s.loop.rules) \ {r}
  BY <1>3, SelectedElements
<1> HIDE DEF rules, w
<1>5. w = [me |-> s.me, loop |-> loop, files |-> s.files, fate |-> s.fate]
  BY <1>1, <1>2
<1>6. /\ loop \in Loops(CopyRuleNames, p) /\ loop.rules = rules
      /\ loop.asked = s.loop.asked /\ loop.polled = s.loop.polled
      /\ loop.done = s.loop.done
  BY <1>2, <1>4 DEF Loops
<1> HIDE DEF loop
<1>7. w \in CopyWorlds(p)
  BY <1>5, <1>6 DEF CopyWorlds
<1> QED BY <1>4, <1>5, <1>6, <1>7 DEF w, Without

\* b has the bytes of a, and is closed as said.
Closes(b, a, closed) ==
  /\ b \in Streams
  /\ b.total_pushed = a.total_pushed /\ b.total_popped = a.total_popped
  /\ b.buffer = a.buffer /\ b.capacity = a.capacity /\ b.error = a.error
  /\ b.closed = closed

\* Cancelling a rule of the owner closes the stream it is about.
LEMMA CopyCancelledDoes ==
  ASSUME NEW p, NEW s \in CopyWorlds(p), NEW r \in CopyRuleNames
  PROVE  LET w == Copy!CopyCancelled(s, r)
         IN  /\ w \in CopyWorlds(p)
             /\ w.loop = s.loop /\ w.files = s.files /\ w.fate = s.fate
             /\ w.me.outbound_shutdown = s.me.outbound_shutdown
             /\ w.me.inbound_shutdown = s.me.inbound_shutdown
             /\ Closes(w.me.outbound, s.me.outbound,
                       s.me.outbound.closed \/ r \in {"read_stdin", "write_socket"})
             /\ Closes(w.me.inbound, s.me.inbound,
                       s.me.inbound.closed \/ r \in {"read_socket", "write_stdout"})
<1> DEFINE w == Copy!CopyCancelled(s, r)
           a == s.me.outbound
           b == s.me.inbound
<1>1. /\ s = [me |-> s.me, loop |-> s.loop, files |-> s.files, fate |-> s.fate]
      /\ s.me = [outbound |-> a, inbound |-> b,
                 outbound_shutdown |-> s.me.outbound_shutdown,
                 inbound_shutdown |-> s.me.inbound_shutdown]
      /\ a \in Streams /\ b \in Streams
      /\ a.closed \in BOOLEAN /\ b.closed \in BOOLEAN
  BY CopyParts DEF Streams, ByteStreams
<1>2. Closes(a, a, a.closed) /\ Closes(b, b, b.closed)
  BY <1>1 DEF Closes
<1>3. Closes(WriterClose(a), a, TRUE) /\ Closes(WriterClose(b), b, TRUE)
  BY <1>1, MarkStream DEF Closes
<1>4. w = IF r \in {"read_stdin", "write_socket"} THEN [s EXCEPT !.me.outbound = WriterClose(a)]
          ELSE [s EXCEPT !.me.inbound = WriterClose(b)]
  BY CopyOperators, Zenon DEF Copy!CopyCancelled
<1> DEFINE c == IF r \in {"read_stdin", "write_socket"} THEN WriterClose(a) ELSE a
           d == IF r \in {"read_stdin", "write_socket"} THEN b ELSE WriterClose(b)
<1>5. Closes(c, a, a.closed \/ r \in {"read_stdin", "write_socket"})
  BY <1>1, <1>2, <1>3
<1>6. Closes(d, b, b.closed \/ r \in {"read_socket", "write_stdout"})
  BY <1>1, <1>2, <1>3 DEF CopyRuleNames
<1> HIDE DEF w, a, b
<1>7. w = [me |-> [outbound |-> c, inbound |-> d,
                   outbound_shutdown |-> s.me.outbound_shutdown,
                   inbound_shutdown |-> s.me.inbound_shutdown],
           loop |-> s.loop, files |-> s.files, fate |-> s.fate]
  <2>1. CASE r \in {"read_stdin", "write_socket"}
    <3>1. w = [s EXCEPT !.me.outbound = c] /\ d = b
      BY <1>4, <2>1
    <3> HIDE DEF c, d
    <3> QED BY <1>1, <3>1
  <2>2. CASE r \notin {"read_stdin", "write_socket"}
    <3>1. w = [s EXCEPT !.me.inbound = d] /\ c = a
      BY <1>4, <2>2
    <3> HIDE DEF c, d
    <3> QED BY <1>1, <3>1
  <2> QED BY <2>1, <2>2
<1> HIDE DEF c, d
<1>8. w \in CopyWorlds(p)
  BY <1>5, <1>6, <1>7 DEF CopyWorlds, Copies, Closes
<1> QED BY <1>5, <1>6, <1>7, <1>8 DEF w, a, b

\* An error marks both streams of the owner.
LEMMA CopyErroredDoes ==
  ASSUME NEW p, NEW s \in CopyWorlds(p), NEW r
  PROVE  LET w == Copy!CopyErrored(s, r)
         IN  /\ w \in CopyWorlds(p)
             /\ w.loop = s.loop /\ w.files = s.files /\ w.fate = s.fate
             /\ w.me.outbound_shutdown = s.me.outbound_shutdown
             /\ w.me.inbound_shutdown = s.me.inbound_shutdown
             /\ w.me.outbound = SetError(s.me.outbound)
             /\ w.me.inbound = SetError(s.me.inbound)
<1> DEFINE w == Copy!CopyErrored(s, r)
           a == SetError(s.me.outbound)
           b == SetError(s.me.inbound)
<1>1. /\ s = [me |-> s.me, loop |-> s.loop, files |-> s.files, fate |-> s.fate]
      /\ s.me = [outbound |-> s.me.outbound, inbound |-> s.me.inbound,
                 outbound_shutdown |-> s.me.outbound_shutdown,
                 inbound_shutdown |-> s.me.inbound_shutdown]
      /\ a \in Streams /\ b \in Streams
  BY CopyParts, MarkStream
<1>2. w = [s EXCEPT !.me.outbound = a, !.me.inbound = b]
  BY CopyOperators, Zenon DEF Copy!CopyErrored
<1> HIDE DEF w, a, b
<1>3. w = [me |-> [outbound |-> a, inbound |-> b,
                   outbound_shutdown |-> s.me.outbound_shutdown,
                   inbound_shutdown |-> s.me.inbound_shutdown],
           loop |-> s.loop, files |-> s.files, fate |-> s.fate]
  BY <1>1, <1>2
<1>4. w \in CopyWorlds(p)
  BY <1>1, <1>3 DEF CopyWorlds, Copies
<1> QED BY <1>3, <1>4 DEF w, a, b

\* What the functions of the four rules are.
LEMMA CopyRulesAre ==
  ASSUME NEW s
  PROVE  /\ Copy!CopyInterested(s, "read_stdin") = Copy!MayRead(s, s.me.outbound)
         /\ Copy!CopyInterested(s, "write_socket")
              = Copy!MayWrite(s.me.outbound, s.me.outbound_shutdown)
         /\ Copy!CopyInterested(s, "read_socket") = Copy!MayRead(s, s.me.inbound)
         /\ Copy!CopyInterested(s, "write_stdout")
              = Copy!MayWrite(s.me.inbound, s.me.inbound_shutdown)
         /\ Copy!CopyCallback(s, "read_stdin") = Copy!ReadStdin(s)
         /\ Copy!CopyCallback(s, "write_socket") = Copy!WriteSocket(s)
         /\ Copy!CopyCallback(s, "read_socket") = Copy!ReadSocket(s)
         /\ Copy!CopyCallback(s, "write_stdout") = Copy!WriteStdout(s)
         /\ Copy!CopyEof(s, "read_socket") = s.files.toOwner.eof
         /\ Copy!CopyEof(s, "read_stdin") = s.files.input.eof
         /\ Copy!CopyEof(s, "write_stdout") = FALSE
         /\ Copy!CopyEof(s, "write_socket") = FALSE
         /\ Copy!CopyConditions(s, "read_stdin") =
              IF s.files.terminal THEN Copy!TerminalConditions(s.files.input)
              ELSE Copy!PipeConditions(s.files.input)
         /\ Copy!CopyConditions(s, "write_stdout") = Copy!SinkConditions(s.files.output)
         /\ Copy!CopyConditions(s, "read_socket")
              = Copy!SocketConditions(s.files.toOwner, s.files.toTcp)
         /\ Copy!CopyConditions(s, "write_socket")
              = Copy!SocketConditions(s.files.toOwner, s.files.toTcp)
<1>1. /\ Copy!CopyInterested(s, "read_stdin") = Copy!MayRead(s, s.me.outbound)
      /\ Copy!CopyInterested(s, "write_socket")
           = Copy!MayWrite(s.me.outbound, s.me.outbound_shutdown)
      /\ Copy!CopyInterested(s, "read_socket") = Copy!MayRead(s, s.me.inbound)
      /\ Copy!CopyInterested(s, "write_stdout")
           = Copy!MayWrite(s.me.inbound, s.me.inbound_shutdown)
  BY Zenon DEF Copy!CopyInterested
<1>2. /\ Copy!CopyCallback(s, "read_stdin") = Copy!ReadStdin(s)
      /\ Copy!CopyCallback(s, "write_socket") = Copy!WriteSocket(s)
      /\ Copy!CopyCallback(s, "read_socket") = Copy!ReadSocket(s)
      /\ Copy!CopyCallback(s, "write_stdout") = Copy!WriteStdout(s)
  BY Zenon DEF Copy!CopyCallback
<1>3. /\ Copy!CopyEof(s, "read_socket") = s.files.toOwner.eof
      /\ Copy!CopyEof(s, "read_stdin") = s.files.input.eof
      /\ Copy!CopyEof(s, "write_stdout") = FALSE
      /\ Copy!CopyEof(s, "write_socket") = FALSE
  BY Zenon DEF Copy!CopyEof
<1>4. /\ Copy!CopyConditions(s, "read_stdin") =
           IF s.files.terminal THEN Copy!TerminalConditions(s.files.input)
           ELSE Copy!PipeConditions(s.files.input)
      /\ Copy!CopyConditions(s, "write_stdout") = Copy!SinkConditions(s.files.output)
      /\ Copy!CopyConditions(s, "read_socket")
           = Copy!SocketConditions(s.files.toOwner, s.files.toTcp)
      /\ Copy!CopyConditions(s, "write_socket")
           = Copy!SocketConditions(s.files.toOwner, s.files.toTcp)
  BY Zenon DEF Copy!CopyConditions
<1> QED BY <1>1, <1>2, <1>3, <1>4, Zenon

\* A rule that is cancelled and taken out keeps the owner's books.
LEMMA CopyDropped ==
  ASSUME NEW p, NEW s \in CopyWorlds(p), NEW fault \in BOOLEAN, NEW r \in CopyRuleNames,
         CopyBooks(s, fault),
         r \in {"read_socket", "write_stdout"} => s.files.toOwner.eof \/ fault
  PROVE  LET w == Copy!Loop!Erased(Copy!CopyCancelled(s, r), r)
         IN  /\ w \in CopyWorlds(p)
             /\ CopyBooks(w, fault)
             /\ CopyAsked(s) => CopyAsked(w)
             /\ CopyPolled(s) => CopyPolled(w)
             /\ w.files = s.files /\ w.loop.done = s.loop.done
             /\ w.loop.asked = s.loop.asked
             /\ Closes(w.me.inbound, s.me.inbound,
                       s.me.inbound.closed \/ r \in {"read_socket", "write_stdout"})
<1> DEFINE v == Copy!CopyCancelled(s, r)
           w == Copy!Loop!Erased(v, r)
           c == r \in {"read_stdin", "write_socket"}
           d == r \in {"read_socket", "write_stdout"}
<1>1. /\ v \in CopyWorlds(p)
      /\ v.loop = s.loop /\ v.files = s.files /\ v.fate = s.fate
      /\ v.me.outbound_shutdown = s.me.outbound_shutdown
      /\ v.me.inbound_shutdown = s.me.inbound_shutdown
      /\ Closes(v.me.outbound, s.me.outbound, s.me.outbound.closed \/ c)
      /\ Closes(v.me.inbound, s.me.inbound, s.me.inbound.closed \/ d)
  BY CopyCancelledDoes
<1> HIDE DEF v
<1>2. w \in CopyWorlds(p) /\ Without(w, v, r)
  BY <1>1, CopyErasedDoes
<1> HIDE DEF w
<1>3. c \in BOOLEAN /\ d \in BOOLEAN
  OBVIOUS
<1> HIDE DEF c, d
<1>4. /\ w.files = s.files /\ w.fate = s.fate
      /\ w.loop.asked = s.loop.asked /\ w.loop.polled = s.loop.polled
      /\ w.loop.done = s.loop.done
      /\ ToSet(w.loop.rules) = ToSet(s.loop.rules) \ {r}
      /\ w.me.outbound_shutdown = s.me.outbound_shutdown
      /\ w.me.inbound_shutdown = s.me.inbound_shutdown
      /\ Closes(w.me.outbound, s.me.outbound, s.me.outbound.closed \/ c)
      /\ Closes(w.me.inbound, s.me.inbound, s.me.inbound.closed \/ d)
  BY <1>1, <1>2 DEF Without
<1>5. d => s.files.toOwner.eof \/ fault
  BY DEF d
<1>6. CopyBooks(w, fault)
  <2>1. r \in {"read_socket", "write_stdout"} <=> d
    BY DEF d
  <2> QED BY <1>3, <1>4, <1>5, <2>1 DEF CopyBooks, Closes, IsFinished
<1>7. CopyAsked(s) => CopyAsked(w)
  BY <1>3, <1>4, CopyOperators
     DEF CopyAsked, Closes, Copy!MayWrite, IsFinished, AvailableCapacity
<1>8. CopyPolled(s) => CopyPolled(w)
  BY <1>4 DEF CopyPolled
<1> QED BY <1>2, <1>4, <1>6, <1>7, <1>8 DEF v, w, d

\* So does one whose descriptor has an error, when something failed.
LEMMA CopyDroppedInError ==
  ASSUME NEW p, NEW s \in CopyWorlds(p), NEW r \in CopyRuleNames,
         CopyBooks(s, TRUE)
  PROVE  LET w == Copy!Loop!Erased(Copy!CopyCancelled(Copy!CopyErrored(s, r), r), r)
         IN  /\ w \in CopyWorlds(p)
             /\ CopyBooks(w, TRUE)
             /\ CopyAsked(s) => CopyAsked(w)
             /\ CopyPolled(s) => CopyPolled(w)
             /\ w.files = s.files /\ w.loop.done = s.loop.done
<1> DEFINE v == Copy!CopyErrored(s, r)
           w == Copy!Loop!Erased(Copy!CopyCancelled(v, r), r)
<1>1. /\ v \in CopyWorlds(p)
      /\ v.loop = s.loop /\ v.files = s.files /\ v.fate = s.fate
      /\ v.me.outbound_shutdown = s.me.outbound_shutdown
      /\ v.me.inbound_shutdown = s.me.inbound_shutdown
      /\ v.me.outbound = SetError(s.me.outbound)
      /\ v.me.inbound = SetError(s.me.inbound)
  BY CopyErroredDoes
<1> HIDE DEF v
<1>2. /\ v.me.outbound.closed = s.me.outbound.closed
      /\ v.me.outbound.buffer = s.me.outbound.buffer
      /\ v.me.outbound.capacity = s.me.outbound.capacity
      /\ v.me.inbound.closed = s.me.inbound.closed
      /\ v.me.inbound.buffer = s.me.inbound.buffer
      /\ v.me.inbound.capacity = s.me.inbound.capacity
  <2>1. s.me.outbound \in Streams /\ s.me.inbound \in Streams
    BY CopyParts
  <2>2. /\ SetError(s.me.outbound).closed = s.me.outbound.closed
        /\ SetError(s.me.outbound).buffer = s.me.outbound.buffer
        /\ SetError(s.me.outbound).capacity = s.me.outbound.capacity
        /\ SetError(s.me.inbound).closed = s.me.inbound.closed
        /\ SetError(s.me.inbound).buffer = s.me.inbound.buffer
        /\ SetError(s.me.inbound).capacity = s.me.inbound.capacity
    BY <2>1, MarkStream
  <2> QED BY <1>1, <2>2
<1>3. CopyBooks(v, TRUE)
  BY <1>1, <1>2 DEF CopyBooks, IsFinished
<1>4. CopyAsked(s) => CopyAsked(v)
  BY <1>1, <1>2, CopyOperators DEF CopyAsked, Copy!MayWrite, IsFinished, AvailableCapacity
<1>5. CopyPolled(s) => CopyPolled(v)
  BY <1>1 DEF CopyPolled
<1>6. /\ w \in CopyWorlds(p)
      /\ CopyBooks(w, TRUE)
      /\ CopyAsked(v) => CopyAsked(w)
      /\ CopyPolled(v) => CopyPolled(w)
      /\ w.files = v.files /\ w.loop.done = v.loop.done
  BY <1>1, <1>3, CopyDropped
<1> QED BY <1>1, <1>4, <1>5, <1>6 DEF v, w

-----------------------------------------------------------------------------
(* Before poll().                                                           *)

\* A rule of the owner was looked at, and is not asked for in vain.
CopyLooked(s, fault, r) ==
  \/ r \in s.loop.asked \/ s.me.inbound.closed \/ fault
  \/ r \in {"read_stdin", "write_socket"}
  \/ r = "read_socket" /\ Len(s.me.inbound.buffer) = s.me.inbound.capacity
  \/ r = "write_stdout" /\ s.me.inbound.buffer = <<>>

\* No file of the owner came to its end or was closed.
CopyOpen(f) == ~f.input.eof /\ ~f.toOwner.eof /\ ~f.output.closed

\* A rule is asked for, too.
AsksToo(s, r) == [s EXCEPT !.loop.asked = @ \union {r}]

\* Asking for a rule of the owner changes nothing else.
LEMMA CopyAsksToo ==
  ASSUME NEW p, NEW s \in CopyWorlds(p), NEW r \in CopyRuleNames
  PROVE  LET w == AsksToo(s, r)
         IN  /\ w \in CopyWorlds(p)
             /\ w.me = s.me /\ w.files = s.files /\ w.fate = s.fate
             /\ w.loop.rules = s.loop.rules /\ w.loop.asked = s.loop.asked \union {r}
             /\ w.loop.done = s.loop.done
<1> DEFINE w     == AsksToo(s, r)
           asked == s.loop.asked \union {r}
           loop  == [s.loop EXCEPT !.asked = asked]
<1>1. /\ s = [me |-> s.me, loop |-> s.loop, files |-> s.files, fate |-> s.fate]
      /\ s.loop \in Loops(CopyRuleNames, p)
  BY CopyParts
<1>2. asked \in SUBSET CopyRuleNames
  BY <1>1 DEF Loops
<1>3. w = [s EXCEPT !.loop.asked = asked]
  BY DEF AsksToo
<1> HIDE DEF asked, w
<1>4. w = [me |-> s.me, loop |-> loop, files |-> s.files, fate |-> s.fate]
  BY <1>1, <1>3
<1>5. /\ loop \in Loops(CopyRuleNames, p) /\ loop.rules = s.loop.rules
      /\ loop.asked = asked /\ loop.done = s.loop.done
  BY <1>1, <1>2 DEF Loops
<1> HIDE DEF loop
<1>6. w \in CopyWorlds(p)
  BY <1>4, <1>5 DEF CopyWorlds
<1> QED BY <1>4, <1>5, <1>6 DEF asked, w

\* Looking at one rule of the owner.
LEMMA CopyVisited ==
  ASSUME NEW p, NEW s \in CopyWorlds(p), NEW fault \in BOOLEAN, NEW r \in CopyRuleNames,
         CopyBooks(s, fault), CopyAsked(s)
  PROVE  LET w == Copy!Loop!Visit(s, r)
         IN  /\ w \in CopyWorlds(p)
             /\ CopyBooks(w, fault) /\ CopyAsked(w)
             /\ w.files = s.files /\ w.loop.done = s.loop.done
             /\ CopyLooked(w, fault, r)
             /\ \A q : CopyLooked(s, fault, q) => CopyLooked(w, fault, q)
             /\ CopyOpen(s.files) => w.me = s.me /\ w.fate = s.fate
<1> DEFINE w == Copy!Loop!Visit(s, r)
<1>1. /\ Copy!Loop!IsOver(s, r) => w = Copy!Loop!Erased(Copy!CopyCancelled(s, r), r)
      /\ ~Copy!Loop!IsOver(s, r) /\ Copy!CopyInterested(s, r)
           => w = [s EXCEPT !.loop.asked = @ \union {r}]
      /\ ~Copy!Loop!IsOver(s, r) /\ ~Copy!CopyInterested(s, r) => w = s
  BY Zenon DEF Copy!Loop!Visit
<1> HIDE DEF w
<1>2. CASE Copy!Loop!IsOver(s, r)
  <2>1. r = "read_socket" => s.files.toOwner.eof
    <3>1. r = "read_socket" => Copy!CopyEof(s, r)
      BY <1>2 DEF Copy!Loop!IsOver, Copy!CopyClosed
    <3> QED BY <3>1, CopyRulesAre
  <2>2. r = "write_stdout" => s.files.output.closed
    BY <1>2 DEF Copy!Loop!IsOver, Copy!CopyClosed, Copy!CopyDirection
  <2>3. r \in {"read_socket", "write_stdout"} => s.files.toOwner.eof \/ fault
    BY <2>1, <2>2 DEF CopyBooks
  <2>4. /\ w \in CopyWorlds(p)
        /\ CopyBooks(w, fault) /\ CopyAsked(w)
        /\ w.files = s.files /\ w.loop.done = s.loop.done
        /\ w.loop.asked = s.loop.asked
        /\ Closes(w.me.inbound, s.me.inbound,
                  s.me.inbound.closed \/ r \in {"read_socket", "write_stdout"})
    BY <1>1, <1>2, <2>3, CopyDropped
  <2>5. CopyLooked(w, fault, r)
    BY <2>4 DEF CopyLooked, Closes, CopyRuleNames
  <2>6. \A q : CopyLooked(s, fault, q) => CopyLooked(w, fault, q)
    BY <2>4 DEF CopyLooked, Closes
  <2>7. r = "read_stdin" => s.files.input.eof
    <3>1. r = "read_stdin" => Copy!CopyEof(s, r)
      BY <1>2 DEF Copy!Loop!IsOver, Copy!CopyClosed
    <3> QED BY <3>1, CopyRulesAre
  <2>8. r # "write_socket"
    BY <1>2 DEF Copy!Loop!IsOver, Copy!CopyClosed, Copy!CopyDirection
  <2>9. ~CopyOpen(s.files)
    BY <2>1, <2>2, <2>7, <2>8 DEF CopyOpen, CopyRuleNames
  <2> QED BY <2>4, <2>5, <2>6, <2>9 DEF w
<1>3. CASE ~Copy!Loop!IsOver(s, r) /\ Copy!CopyInterested(s, r)
  <2>1. w = [s EXCEPT !.loop.asked = @ \union {r}]
    BY <1>1, <1>3
  <2>2. /\ w \in CopyWorlds(p)
        /\ w.me = s.me /\ w.files = s.files /\ w.fate = s.fate
        /\ w.loop.rules = s.loop.rules /\ w.loop.asked = s.loop.asked \union {r}
        /\ w.loop.done = s.loop.done
    <3>1. w = AsksToo(s, r)
      BY <2>1 DEF AsksToo
    <3> QED BY <3>1, CopyAsksToo
  <2>3. CopyBooks(w, fault)
    BY <2>2 DEF CopyBooks
  <2>4. /\ r = "write_socket" => Copy!MayWrite(s.me.outbound, s.me.outbound_shutdown)
        /\ r = "write_stdout" => Copy!MayWrite(s.me.inbound, s.me.inbound_shutdown)
        /\ r = "read_stdin" =>
             ~s.me.outbound.closed /\ AvailableCapacity(s.me.outbound) > 0
        /\ r = "read_socket" => AvailableCapacity(s.me.inbound) > 0
    BY <1>3, CopyRulesAre, CopyOperators DEF Copy!MayRead
  <2>5. r = "read_stdin" => ~s.me.outbound_shutdown
    BY <2>4 DEF CopyBooks, IsFinished
  <2>6. CopyAsked(w)
    BY <2>2, <2>4, <2>5 DEF CopyAsked
  <2>7. CopyLooked(w, fault, r) /\ \A q : CopyLooked(s, fault, q) => CopyLooked(w, fault, q)
    BY <2>2 DEF CopyLooked
  <2> QED BY <2>2, <2>3, <2>6, <2>7 DEF w
<1>4. CASE ~Copy!Loop!IsOver(s, r) /\ ~Copy!CopyInterested(s, r)
  <2>1. w = s
    BY <1>1, <1>4
  <2>2. r = "read_socket" => ~Copy!MayRead(s, s.me.inbound)
    BY <1>4, CopyRulesAre
  <2>3. r = "write_stdout" => s.me.inbound.buffer = <<>>
    BY <1>4, CopyRulesAre DEF Copy!MayWrite
  <2>4. /\ s.me.inbound.capacity \in Nat /\ Len(s.me.inbound.buffer) \in Nat
        /\ Len(s.me.inbound.buffer) <= s.me.inbound.capacity
    <3>1. s.me.inbound \in Streams
      BY CopyParts
    <3> QED BY <3>1 DEF Streams, ByteStreams
  <2>5. s.me.outbound.error \/ s.me.inbound.error => fault
    BY DEF CopyBooks
  <2>6. r = "read_socket" =>
          fault \/ s.me.inbound.closed \/ Len(s.me.inbound.buffer) = s.me.inbound.capacity
    BY <2>2, <2>4, <2>5, CopyOperators DEF Copy!MayRead, AvailableCapacity
  <2>7. CopyLooked(s, fault, r)
    BY <2>3, <2>6 DEF CopyLooked, CopyRuleNames
  <2> QED BY <2>1, <2>7 DEF w
<1> QED BY <1>2, <1>3, <1>4

\* What a turn begins with: nothing is asked for.
Unasked(s) == [s EXCEPT !.loop.asked = {}]

\* What the owner's loop does before poll() is one visit after another.
LEMMA CopySweepIs ==
  ASSUME NEW R, NEW s, s.loop.rules \in Seq(R), NEW V, Unasked(s) \in V,
         \A v \in V : \A r \in R : Copy!Loop!Visit(v, r) \in V
  PROVE  \E f \in [0..Len(s.loop.rules) -> V] :
           /\ f[0] = Unasked(s)
           /\ \A i \in 1..Len(s.loop.rules) :
                f[i] = Copy!Loop!Visit(f[i - 1], s.loop.rules[i])
           /\ Copy!Loop!Sweep(s) = f[Len(s.loop.rules)]
<1> DEFINE rules == s.loop.rules
           n     == Len(rules)
           base  == Unasked(s)
           P     == (1..n) \X V
           step  == [x \in P |-> Copy!Loop!Visit(x[2], rules[x[1]])]
           g     == CHOOSE g : g = [k \in 0..Len(rules) |->
                      IF k = 0 THEN base ELSE Copy!Loop!Visit(g[k - 1], rules[k])]
<1>1. n \in Nat /\ \A i \in 1..n : rules[i] \in R
  OBVIOUS
<1>2. Copy!Loop!Sweep(s) = g[Len(rules)]
  BY Zenon DEF Copy!Loop!Sweep, Unasked
<1>3. base \in V
  OBVIOUS
<1> HIDE DEF base, rules
<1>4. ASSUME NEW i \in 1..n, NEW v \in V
      PROVE  /\ step[<<i, v>>] = Copy!Loop!Visit(v, rules[i])
             /\ step[<<i, v>>] \in V
  <2>1. <<i, v>> \in P /\ <<i, v>>[1] = i /\ <<i, v>>[2] = v
    OBVIOUS
  <2>2. step[<<i, v>>] = Copy!Loop!Visit(v, rules[i])
    BY <2>1
  <2> QED BY <1>1, <2>2
<1>5. PICK f \in [0..n -> V] : Iterates(f, n, base, step)
  <2>1. Closed(n, V, step)
    <3> HIDE DEF n, step
    <3> QED BY <1>4, Zenon DEF Closed
  <2> HIDE DEF n, P, step
  <2> QED BY <1>1, <1>3, <2>1, Recursion, Zenon
<1>6. f[0] = base /\ \A i \in 1..n : f[i] = Copy!Loop!Visit(f[i - 1], rules[i])
  <2>1. ASSUME NEW i \in 1..n
        PROVE  f[i] = Copy!Loop!Visit(f[i - 1], rules[i])
    <3>1. i - 1 \in 0..n
      BY <1>1
    <3>2. f[i - 1] \in V
      BY <3>1
    <3> HIDE DEF step
    <3> QED BY <1>4, <1>5, <3>2 DEF Iterates
  <2> QED BY <1>5, <2>1 DEF Iterates
<1>7. f = [k \in 0..Len(rules) |->
             IF k = 0 THEN base ELSE Copy!Loop!Visit(f[k - 1], rules[k])]
  <2>1. \A i \in 0..n : f[i] = IF i = 0 THEN base ELSE Copy!Loop!Visit(f[i - 1], rules[i])
    <3> SUFFICES ASSUME NEW i \in 0..n
                 PROVE  f[i] = IF i = 0 THEN base ELSE Copy!Loop!Visit(f[i - 1], rules[i])
      OBVIOUS
    <3>1. i = 0 \/ i \in 1..n
      BY <1>1
    <3> HIDE DEF n
    <3> QED BY <1>6, <3>1
  <2> QED BY <2>1
<1>8. g = [k \in 0..Len(rules) |->
             IF k = 0 THEN base ELSE Copy!Loop!Visit(g[k - 1], rules[k])]
  BY <1>7, Zenon
<1> HIDE DEF g
<1>9. g[0] = base /\ \A i \in 1..n : g[i] = Copy!Loop!Visit(g[i - 1], rules[i])
  <2>1. 0 \in 0..n /\ \A i \in 1..n : i \in 0..n /\ i # 0
    BY <1>1
  <2> HIDE DEF P, step
  <2> QED BY <1>8, <2>1
<1>10. \A i \in 0..n : g[i] \in V
  <2> DEFINE Good == {i \in 0..n : g[i] \in V}
  <2>1. 0 \in Good
    BY <1>1, <1>3, <1>9
  <2>2. ASSUME NEW i \in 1..n, i - 1 \in Good
        PROVE  i \in Good
    <3>1. g[i - 1] \in V /\ rules[i] \in R /\ i \in 0..n
      BY <1>1, <2>2
    <3> QED BY <1>9, <3>1
  <2> HIDE DEF Good
  <2>3. \A i \in 0..n : i \in Good
    BY <1>1, <2>1, <2>2, InductionUpTo
  <2> QED BY <2>3 DEF Good
<1>11. g \in [0..n -> V]
  BY <1>8, <1>10
<1> QED BY <1>2, <1>9, <1>11 DEF rules, base

\* What is left of a turn.
Reset(s) ==
  [s EXCEPT !.loop.polled = <<>>, !.loop.serviced = FALSE, !.loop.done = FALSE]

\* What the owner's loop does after poll() is attending to one rule after another.
LEMMA CopyServeIs ==
  ASSUME NEW R, NEW s, s.loop.rules \in Seq(R), NEW V, s \in V,
         \A v \in V : \A r \in R : Copy!Loop!Attend(v, r) \in V
  PROVE  \E f \in [0..Len(s.loop.rules) -> V] :
           /\ f[0] = s
           /\ \A i \in 1..Len(s.loop.rules) :
                f[i] = Copy!Loop!Attend(f[i - 1], s.loop.rules[i])
           /\ Copy!Loop!Serve(s) = Reset(f[Len(s.loop.rules)])
<1> DEFINE rules == s.loop.rules
           n     == Len(rules)
           base  == s
           P     == (1..n) \X V
           step  == [x \in P |-> Copy!Loop!Attend(x[2], rules[x[1]])]
           g     == CHOOSE g : g = [k \in 0..Len(rules) |->
                      IF k = 0 THEN base ELSE Copy!Loop!Attend(g[k - 1], rules[k])]
<1>1. n \in Nat /\ \A i \in 1..n : rules[i] \in R
  OBVIOUS
<1>2. Copy!Loop!Serve(s) = Reset(g[Len(rules)])
  BY Zenon DEF Copy!Loop!Serve, Reset
<1>3. base \in V
  OBVIOUS
<1> HIDE DEF base, rules
<1>4. ASSUME NEW i \in 1..n, NEW v \in V
      PROVE  /\ step[<<i, v>>] = Copy!Loop!Attend(v, rules[i])
             /\ step[<<i, v>>] \in V
  <2>1. <<i, v>> \in P /\ <<i, v>>[1] = i /\ <<i, v>>[2] = v
    OBVIOUS
  <2>2. step[<<i, v>>] = Copy!Loop!Attend(v, rules[i])
    BY <2>1
  <2> QED BY <1>1, <2>2
<1>5. PICK f \in [0..n -> V] : Iterates(f, n, base, step)
  <2>1. Closed(n, V, step)
    <3> HIDE DEF n, step
    <3> QED BY <1>4, Zenon DEF Closed
  <2> HIDE DEF n, P, step
  <2> QED BY <1>1, <1>3, <2>1, Recursion, Zenon
<1>6. f[0] = base /\ \A i \in 1..n : f[i] = Copy!Loop!Attend(f[i - 1], rules[i])
  <2>1. ASSUME NEW i \in 1..n
        PROVE  f[i] = Copy!Loop!Attend(f[i - 1], rules[i])
    <3>1. i - 1 \in 0..n
      BY <1>1
    <3>2. f[i - 1] \in V
      BY <3>1
    <3> HIDE DEF step
    <3> QED BY <1>4, <1>5, <3>2 DEF Iterates
  <2> QED BY <1>5, <2>1 DEF Iterates
<1>7. f = [k \in 0..Len(rules) |->
             IF k = 0 THEN base ELSE Copy!Loop!Attend(f[k - 1], rules[k])]
  <2>1. \A i \in 0..n : f[i] = IF i = 0 THEN base ELSE Copy!Loop!Attend(f[i - 1], rules[i])
    <3> SUFFICES ASSUME NEW i \in 0..n
                 PROVE  f[i] = IF i = 0 THEN base ELSE Copy!Loop!Attend(f[i - 1], rules[i])
      OBVIOUS
    <3>1. i = 0 \/ i \in 1..n
      BY <1>1
    <3> HIDE DEF n
    <3> QED BY <1>6, <3>1
  <2> QED BY <2>1
<1>8. g = [k \in 0..Len(rules) |->
             IF k = 0 THEN base ELSE Copy!Loop!Attend(g[k - 1], rules[k])]
  BY <1>7, Zenon
<1> HIDE DEF g
<1>9. g[0] = base /\ \A i \in 1..n : g[i] = Copy!Loop!Attend(g[i - 1], rules[i])
  <2>1. 0 \in 0..n /\ \A i \in 1..n : i \in 0..n /\ i # 0
    BY <1>1
  <2> HIDE DEF P, step
  <2> QED BY <1>8, <2>1
<1>10. \A i \in 0..n : g[i] \in V
  <2> DEFINE Good == {i \in 0..n : g[i] \in V}
  <2>1. 0 \in Good
    BY <1>1, <1>3, <1>9
  <2>2. ASSUME NEW i \in 1..n, i - 1 \in Good
        PROVE  i \in Good
    <3>1. g[i - 1] \in V /\ rules[i] \in R /\ i \in 0..n
      BY <1>1, <2>2
    <3> QED BY <1>9, <3>1
  <2> HIDE DEF Good
  <2>3. \A i \in 0..n : i \in Good
    BY <1>1, <2>1, <2>2, InductionUpTo
  <2> QED BY <2>3 DEF Good
<1>11. g \in [0..n -> V]
  BY <1>8, <1>10
<1> QED BY <1>2, <1>9, <1>11 DEF rules, base

\* Every visit leaves something true of its rule that the next ones keep, and
\* that was true of the rules that are not there: after the last it is true of all.
LEMMA CopySweepLooks ==
  ASSUME NEW R, NEW s, s.loop.rules \in Seq(R), NEW V, Unasked(s) \in V, NEW L,
         \A r \in R : r \notin ToSet(s.loop.rules) => << Unasked(s), r >> \in L,
         \A v \in V : \A r \in R :
           /\ Copy!Loop!Visit(v, r) \in V
           /\ << Copy!Loop!Visit(v, r), r >> \in L
           /\ \A q \in R : << v, q >> \in L => << Copy!Loop!Visit(v, r), q >> \in L
  PROVE  /\ Copy!Loop!Sweep(s) \in V
         /\ \A r \in R : << Copy!Loop!Sweep(s), r >> \in L
<1> DEFINE rules == s.loop.rules
           n     == Len(rules)
<1>1. n \in Nat /\ ToSet(rules) = {rules[j] : j \in 1..n}
  BY DEF ToSet
<1>2. PICK f \in [0..Len(s.loop.rules) -> V] :
        /\ f[0] = Unasked(s)
        /\ \A i \in 1..Len(s.loop.rules) :
             f[i] = Copy!Loop!Visit(f[i - 1], s.loop.rules[i])
        /\ Copy!Loop!Sweep(s) = f[Len(s.loop.rules)]
  <2>1. \A v \in V : \A r \in R : Copy!Loop!Visit(v, r) \in V
    OBVIOUS
  <2> QED BY <2>1, CopySweepIs, Zenon
<1> DEFINE Good == {k \in 0..n : \A r \in R :
                      r \in {rules[j] : j \in 1..k} \/ r \notin ToSet(rules)
                        => << f[k], r >> \in L}
<1>3. 0 \in Good
  <2>1. 1..0 = {} /\ 0 \in 0..n
    BY <1>1
  <2> QED BY <1>2, <2>1
<1>4. ASSUME NEW k \in 1..n, k - 1 \in Good
      PROVE  k \in Good
  <2>1. /\ k \in 0..n /\ k - 1 \in 0..n /\ rules[k] \in R
        /\ \A j \in 1..k : j = k \/ j \in 1..(k - 1)
    BY <1>1
  <2>2. f[k] = Copy!Loop!Visit(f[k - 1], rules[k]) /\ f[k - 1] \in V
    BY <1>2, <2>1
  <2>3. /\ << f[k], rules[k] >> \in L
        /\ \A q \in R : << f[k - 1], q >> \in L => << f[k], q >> \in L
    BY <2>1, <2>2
  <2>4. ASSUME NEW r \in R, r \in {rules[j] : j \in 1..k} \/ r \notin ToSet(rules)
        PROVE  << f[k], r >> \in L
    <3>1. \/ r = rules[k]
          \/ r \in {rules[j] : j \in 1..(k - 1)} \/ r \notin ToSet(rules)
      BY <2>1, <2>4
    <3>2. r \in {rules[j] : j \in 1..(k - 1)} \/ r \notin ToSet(rules)
            => << f[k - 1], r >> \in L
      BY <1>4
    <3> QED BY <2>3, <3>1, <3>2
  <2> QED BY <2>1, <2>4
<1>5. n \in Good
  <2> HIDE DEF Good
  <2>1. \A k \in 0..n : k \in Good
    BY <1>1, <1>3, <1>4, InductionUpTo
  <2> QED BY <1>1, <2>1
<1> QED BY <1>1, <1>2, <1>5

\* Before poll() the owner's loop keeps the books, and asks for what is needed.
LEMMA CopySwept ==
  ASSUME NEW p, NEW s \in CopyWorlds(p), NEW fault \in BOOLEAN, CopyBooks(s, fault)
  PROVE  LET w == Copy!Loop!Sweep(s)
         IN  /\ w \in CopyWorlds(p)
             /\ CopyBooks(w, fault) /\ CopyAsked(w)
             /\ w.files = s.files /\ w.loop.done = s.loop.done
             /\ \A r \in {"read_socket", "write_stdout"} : CopyLooked(w, fault, r)
             /\ CopyOpen(s.files) => w.me = s.me /\ w.fate = s.fate
<1> DEFINE rules == s.loop.rules
           n     == Len(rules)
           base  == Unasked(s)
           V     == {v \in CopyWorlds(p) :
                       /\ CopyBooks(v, fault) /\ CopyAsked(v)
                       /\ v.files = s.files /\ v.loop.done = s.loop.done
                       /\ CopyOpen(s.files) => v.me = s.me /\ v.fate = s.fate}
           R     == {"read_socket", "write_stdout"}
<1>1. /\ s = [me |-> s.me, loop |-> s.loop, files |-> s.files, fate |-> s.fate]
      /\ s.loop \in Loops(CopyRuleNames, p)
  BY CopyParts
<1>2. rules \in Seq(CopyRuleNames) /\ n \in Nat
  BY <1>1 DEF Loops
<1>3. /\ base \in CopyWorlds(p)
      /\ base.me = s.me /\ base.files = s.files /\ base.fate = s.fate
      /\ base.loop.rules = rules /\ base.loop.done = s.loop.done /\ base.loop.asked = {}
  <2> DEFINE loop == [s.loop EXCEPT !.asked = {}]
  <2>1. /\ loop \in Loops(CopyRuleNames, p)
        /\ loop.rules = rules /\ loop.done = s.loop.done /\ loop.asked = {}
    BY <1>1 DEF Loops
  <2> HIDE DEF rules
  <2>2. base = [s EXCEPT !.loop.asked = {}]
    BY DEF Unasked
  <2> HIDE DEF base
  <2>3. base = [me |-> s.me, loop |-> loop, files |-> s.files, fate |-> s.fate]
    BY <1>1, <2>2
  <2> HIDE DEF loop
  <2>4. base \in CopyWorlds(p)
    BY <2>1, <2>3 DEF CopyWorlds
  <2> QED BY <2>1, <2>3, <2>4
<1>4. base \in V
  <2> HIDE DEF base
  <2>1. CopyBooks(base, fault)
    BY <1>3 DEF CopyBooks
  <2>2. CopyAsked(base)
    BY <1>3 DEF CopyAsked
  <2> QED BY <1>3, <2>1, <2>2
<1> DEFINE L == {l \in V \X CopyRuleNames : CopyLooked(l[1], fault, l[2])}
<1>5. \A v \in V : \A r \in CopyRuleNames :
        /\ Copy!Loop!Visit(v, r) \in V
        /\ << Copy!Loop!Visit(v, r), r >> \in L
        /\ \A q \in CopyRuleNames : << v, q >> \in L => << Copy!Loop!Visit(v, r), q >> \in L
  <2> SUFFICES ASSUME NEW v \in V, NEW r \in CopyRuleNames
               PROVE  /\ Copy!Loop!Visit(v, r) \in V
                      /\ << Copy!Loop!Visit(v, r), r >> \in L
                      /\ \A q \in CopyRuleNames :
                           << v, q >> \in L => << Copy!Loop!Visit(v, r), q >> \in L
    BY Zenon
  <2>1. /\ v \in CopyWorlds(p) /\ CopyBooks(v, fault) /\ CopyAsked(v)
        /\ v.files = s.files /\ v.loop.done = s.loop.done
        /\ CopyOpen(s.files) => v.me = s.me /\ v.fate = s.fate
    OBVIOUS
  <2> DEFINE w == Copy!Loop!Visit(v, r)
  <2>2. /\ w \in CopyWorlds(p) /\ CopyBooks(w, fault) /\ CopyAsked(w)
        /\ w.files = s.files /\ w.loop.done = s.loop.done
        /\ CopyOpen(s.files) => w.me = s.me /\ w.fate = s.fate
        /\ CopyLooked(w, fault, r)
        /\ \A q : CopyLooked(v, fault, q) => CopyLooked(w, fault, q)
    BY <2>1, CopyVisited
  <2> HIDE DEF w
  <2>3. w \in V
    BY <2>2
  <2> HIDE DEF V
  <2> QED BY <2>2, <2>3 DEF w
<1>6. \A r \in CopyRuleNames : r \notin ToSet(rules) => << base, r >> \in L
  <2> HIDE DEF base
  <2>1. \A r \in CopyRuleNames : r \notin ToSet(rules) => CopyLooked(base, fault, r)
    BY <1>3 DEF CopyBooks, CopyLooked, CopyRuleNames
  <2> HIDE DEF V
  <2> QED BY <1>4, <2>1
<1> HIDE DEF base, V, L
<1>7. /\ Copy!Loop!Sweep(s) \in V
      /\ \A r \in CopyRuleNames : << Copy!Loop!Sweep(s), r >> \in L
  BY <1>2, <1>4, <1>5, <1>6, CopySweepLooks, Zenon DEF base, rules
<1>8. \A r \in R : CopyLooked(Copy!Loop!Sweep(s), fault, r)
  BY <1>7 DEF L, CopyRuleNames
<1> QED BY <1>7, <1>8 DEF V

-----------------------------------------------------------------------------
(* After poll().                                                            *)

\* What the owner's callbacks leave of files f, for who looks at them.
CopyFrame(f, g) ==
  /\ g.terminal = f.terminal
  /\ g.output.broken = f.output.broken
  /\ g.input.room = f.input.room /\ Len(g.input.data) <= Len(f.input.data)
  /\ g.toOwner.ended = f.toOwner.ended /\ g.toOwner.room = f.toOwner.room
  /\ Len(g.toOwner.data) <= Len(f.toOwner.data)
  /\ g.toTcp.eof = f.toTcp.eof
  /\ ReadCounts(f.toTcp) => ReadCounts(g.toTcp)

\* A callback that did nothing, of a rule that is still interested.
CopySpins(s, r) ==
  ~s.loop.serviced /\ ~Copy!CopyClosed(s, r) /\ Copy!CopyInterested(s, r)

\* What a callback of the owner has to do.
CopyDid(s, w, fault, r) ==
  /\ CopyBooks(w, fault)
  /\ CopyFrame(s.files, w.files)
  /\ CopySpins(w, r) => fault

\* Files that did not change.
LEMMA CopyFrameStays ==
  ASSUME NEW f \in FileTables
  PROVE  CopyFrame(f, f)
<1>1. f.input \in Files /\ f.toOwner \in Files
  BY DEF FileTables
<1>2. \A g \in Files : Len(g.data) \in Nat
  BY DEF Files
<1>3. Len(f.input.data) <= Len(f.input.data) /\ Len(f.toOwner.data) <= Len(f.toOwner.data)
  BY <1>1, <1>2
<1> QED BY <1>3 DEF CopyFrame

\* The callback of the first rule keeps the books.
LEMMA ReadStdinKeeps ==
  ASSUME NEW p, NEW s \in CopyWorlds(p), NEW fault \in BOOLEAN,
         CopyBooks(s, fault), ~s.me.outbound_shutdown, ReadCounts(s.files.input)
  PROVE  LET w == Copy!ReadStdin(s)
         IN  w \in CopyWorlds(p) /\ CopyDid(s, w, fault, "read_stdin")
<1> DEFINE w == Copy!ReadStdin(s)
<1>1. /\ w \in CopyWorlds(p) /\ w.fate = s.fate
      /\ w.loop = [s.loop EXCEPT !.serviced = ReadCounts(s.files.input)]
      /\ w.me.outbound.error = s.me.outbound.error
      /\ w.me = [s.me EXCEPT !.outbound = w.me.outbound]
      /\ w.files = [s.files EXCEPT !.input = w.files.input]
      /\ w.files.input.room = s.files.input.room
      /\ Len(w.files.input.data) <= Len(s.files.input.data)
  BY ReadStdinDoes
<1> HIDE DEF w
<1>2. /\ w.me.inbound = s.me.inbound
      /\ w.me.outbound_shutdown = s.me.outbound_shutdown
      /\ w.me.inbound_shutdown = s.me.inbound_shutdown
  <2>1. s.me \in Copies
    BY DEF CopyWorlds
  <2> QED BY <1>1, <2>1 DEF Copies
<1>3. /\ w.files.terminal = s.files.terminal
      /\ w.files.output = s.files.output /\ w.files.toTcp = s.files.toTcp
      /\ w.files.toOwner = s.files.toOwner
  <2>1. s.files \in FileTables
    BY DEF CopyWorlds
  <2> QED BY <1>1, <2>1 DEF FileTables
<1>4. w.loop.serviced = TRUE /\ w.loop.rules = s.loop.rules
  <2>1. s.loop \in Loops(CopyRuleNames, p)
    BY DEF CopyWorlds
  <2> QED BY <1>1, <2>1 DEF Loops
<1>5. CopyBooks(w, fault)
  BY <1>1, <1>2, <1>3, <1>4 DEF CopyBooks, FilesInv
<1>6. CopyFrame(s.files, w.files)
  <2>1. s.files \in FileTables
    BY DEF CopyWorlds
  <2>2. CopyFrame(s.files, s.files)
    BY <2>1, CopyFrameStays
  <2> QED BY <1>1, <1>3, <2>2 DEF CopyFrame
<1> QED BY <1>1, <1>4, <1>5, <1>6 DEF w, CopyDid, CopySpins

\* The callback of the third rule keeps the books.
LEMMA ReadSocketKeeps ==
  ASSUME NEW p, NEW s \in CopyWorlds(p), NEW fault \in BOOLEAN,
         CopyBooks(s, fault), ReadCounts(s.files.toOwner)
  PROVE  LET w == Copy!ReadSocket(s)
         IN  w \in CopyWorlds(p) /\ CopyDid(s, w, fault, "read_socket")
<1> DEFINE w == Copy!ReadSocket(s)
           f == w.files.toOwner
<1>1. /\ w \in CopyWorlds(p) /\ w.fate = s.fate
      /\ w.loop = [s.loop EXCEPT !.serviced = ReadCounts(s.files.toOwner)]
      /\ w.me.inbound.error = s.me.inbound.error
      /\ w.me.inbound.capacity = s.me.inbound.capacity
      /\ w.me.inbound.closed = (s.me.inbound.closed \/ f.eof)
      /\ w.me = [s.me EXCEPT !.inbound = w.me.inbound]
      /\ w.files = [s.files EXCEPT !.toOwner = f]
      /\ f.room = s.files.toOwner.room /\ Len(f.data) <= Len(s.files.toOwner.data)
      /\ f.ended = s.files.toOwner.ended /\ f.broken = s.files.toOwner.broken
      /\ f.eof = (s.files.toOwner.eof
                   \/ (s.files.toOwner.data = <<>> /\ s.files.toOwner.ended))
  BY ReadSocketDoes
<1> HIDE DEF w
<1>2. /\ w.me.outbound = s.me.outbound
      /\ w.me.outbound_shutdown = s.me.outbound_shutdown
      /\ w.me.inbound_shutdown = s.me.inbound_shutdown
  <2>1. s.me \in Copies
    BY DEF CopyWorlds
  <2> QED BY <1>1, <2>1 DEF Copies
<1>3. /\ w.files.terminal = s.files.terminal
      /\ w.files.output = s.files.output /\ w.files.toTcp = s.files.toTcp
      /\ w.files.input = s.files.input
  <2>1. s.files \in FileTables
    BY DEF CopyWorlds
  <2> HIDE DEF f
  <2> QED BY <1>1, <2>1 DEF FileTables
<1>4. w.loop.serviced = TRUE /\ w.loop.rules = s.loop.rules
  <2>1. s.loop \in Loops(CopyRuleNames, p)
    BY DEF CopyWorlds
  <2> QED BY <1>1, <2>1 DEF Loops
<1>5. CopyBooks(w, fault)
  BY <1>1, <1>2, <1>3, <1>4 DEF CopyBooks, FilesInv
<1>6. CopyFrame(s.files, w.files)
  <2>1. s.files \in FileTables
    BY DEF CopyWorlds
  <2>2. CopyFrame(s.files, s.files)
    BY <2>1, CopyFrameStays
  <2> QED BY <1>1, <1>3, <2>2 DEF CopyFrame
<1> QED BY <1>1, <1>4, <1>5, <1>6 DEF w, CopyDid, CopySpins

\* The callback of the second rule keeps the books.
LEMMA WriteSocketKeeps ==
  ASSUME NEW p, NEW s \in CopyWorlds(p), NEW fault \in BOOLEAN,
         CopyBooks(s, fault),
         Copy!MayWrite(s.me.outbound, s.me.outbound_shutdown),
         Len(s.files.toTcp.data) < s.files.toTcp.room
  PROVE  LET w == Copy!WriteSocket(s)
         IN  w \in CopyWorlds(p) /\ CopyDid(s, w, fault, "write_socket")
<1> DEFINE w == Copy!WriteSocket(s)
           b == w.me.outbound
           f == w.files.toTcp
<1>1. /\ w \in CopyWorlds(p)
      /\ \/ Fails(s.me.outbound, s.files.toTcp) /\ w = [s EXCEPT !.fate = w.fate]
         \/ SocketWritten(s, w)
  BY WriteSocketDoes
<1> HIDE DEF w
<1>3. CopyFrame(s.files, s.files) /\ s.files \in FileTables /\ s.me \in Copies
      /\ s.loop \in Loops(CopyRuleNames, p)
  BY CopyFrameStays DEF CopyWorlds
<1>4. Fails(s.me.outbound, s.files.toTcp) => fault
  BY DEF Fails, CopyBooks, FilesInv, IsFinished
<1>5. CASE Fails(s.me.outbound, s.files.toTcp) /\ w = [s EXCEPT !.fate = w.fate]
  <2>1. w.me = s.me /\ w.loop = s.loop /\ w.files = s.files
    BY <1>5 DEF CopyWorlds
  <2>2. CopyBooks(w, fault)
    BY <1>4, <1>5, <2>1 DEF CopyBooks
  <2> QED BY <1>1, <1>3, <1>4, <1>5, <2>1, <2>2 DEF w, CopyDid
<1>6. ASSUME SocketWritten(s, w)
      PROVE  CopyDid(s, w, fault, "write_socket")
  <2> DEFINE ends == IsFinished(b)
             shut == s.me.outbound_shutdown \/ ends
             does == ends \/ s.me.outbound.buffer # <<>>
  <2>1. /\ w.me.inbound = s.me.inbound
        /\ w.me.outbound_shutdown = shut
    <3>1. w.me = [s.me EXCEPT !.outbound = b, !.outbound_shutdown = shut]
      BY <1>6 DEF SocketWritten
    <3> HIDE DEF b, shut
    <3> QED BY <1>3, <3>1 DEF Copies
  <2>2. /\ w.files.terminal = s.files.terminal
        /\ w.files.output = s.files.output /\ w.files.toOwner = s.files.toOwner
        /\ w.files.input = s.files.input
    <3>1. w.files = [s.files EXCEPT !.toTcp = f]
      BY <1>6 DEF SocketWritten
    <3> HIDE DEF f
    <3> QED BY <1>3, <3>1 DEF FileTables
  <2>3. w.loop.serviced = does /\ w.loop.rules = s.loop.rules
    <3>1. w.loop = [s.loop EXCEPT !.serviced = does]
      BY <1>6 DEF SocketWritten
    <3> HIDE DEF does
    <3> QED BY <1>3, <3>1 DEF Loops
  <2>4. /\ b.error = s.me.outbound.error /\ b.closed = s.me.outbound.closed
        /\ s.me.outbound.buffer = <<>> => b.buffer = <<>>
        /\ f.ended = (s.files.toTcp.ended \/ ends)
        /\ f.eof = s.files.toTcp.eof
        /\ f.broken = s.files.toTcp.broken
        /\ ReadCounts(s.files.toTcp) => ReadCounts(f)
        /\ w.fate = s.fate
    BY <1>6 DEF SocketWritten
  <2>5. ends = (b.closed /\ b.buffer = <<>>)
    BY DEF IsFinished
  <2>6. CopyBooks(w, fault)
    <3> HIDE DEF ends
    <3> QED BY <2>1, <2>2, <2>3, <2>4, <2>5 DEF CopyBooks, FilesInv, IsFinished
  <2>7. CopyFrame(s.files, w.files)
    BY <1>3, <2>2, <2>4 DEF CopyFrame
  <2>8. does
    <3>1. \/ s.me.outbound.buffer # <<>>
          \/ s.me.outbound.closed /\ s.me.outbound.buffer = <<>>
      BY CopyOperators DEF Copy!MayWrite, IsFinished
    <3> QED BY <2>4, <2>5, <3>1
  <2> QED BY <2>3, <2>6, <2>7, <2>8 DEF CopyDid, CopySpins
<1> QED BY <1>1, <1>5, <1>6 DEF w

\* The callback of the fourth rule keeps the books.
LEMMA WriteStdoutKeeps ==
  ASSUME NEW p, NEW s \in CopyWorlds(p), NEW fault \in BOOLEAN,
         CopyBooks(s, fault),
         Copy!MayWrite(s.me.inbound, s.me.inbound_shutdown),
         Len(s.files.output.data) < s.files.output.room
  PROVE  LET w == Copy!WriteStdout(s)
         IN  w \in CopyWorlds(p) /\ CopyDid(s, w, fault, "write_stdout")
<1> DEFINE w == Copy!WriteStdout(s)
           b == w.me.inbound
           f == w.files.output
<1>1. /\ w \in CopyWorlds(p)
      /\ \/ Fails(s.me.inbound, s.files.output) /\ w = [s EXCEPT !.fate = w.fate]
         \/ StdoutWritten(s, w)
  BY WriteStdoutDoes
<1> HIDE DEF w
<1>3. CopyFrame(s.files, s.files) /\ s.files \in FileTables /\ s.me \in Copies
      /\ s.loop \in Loops(CopyRuleNames, p)
  BY CopyFrameStays DEF CopyWorlds
<1>4. Fails(s.me.inbound, s.files.output) => fault
  BY DEF Fails, CopyBooks, FilesInv
<1>5. CASE Fails(s.me.inbound, s.files.output) /\ w = [s EXCEPT !.fate = w.fate]
  <2>1. w.me = s.me /\ w.loop = s.loop /\ w.files = s.files
    BY <1>5 DEF CopyWorlds
  <2>2. CopyBooks(w, fault)
    BY <1>4, <1>5, <2>1 DEF CopyBooks
  <2> QED BY <1>1, <1>3, <1>4, <1>5, <2>1, <2>2 DEF w, CopyDid
<1>6. ASSUME StdoutWritten(s, w)
      PROVE  CopyDid(s, w, fault, "write_stdout")
  <2> DEFINE ends == IsFinished(b)
             shut == s.me.inbound_shutdown \/ ends
             does == s.me.inbound.buffer # <<>>
  <2>1. /\ w.me.outbound = s.me.outbound
        /\ w.me.outbound_shutdown = s.me.outbound_shutdown
        /\ w.me.inbound_shutdown = shut
    <3>1. w.me = [s.me EXCEPT !.inbound = b, !.inbound_shutdown = shut]
      BY <1>6 DEF StdoutWritten
    <3> HIDE DEF b, shut
    <3> QED BY <1>3, <3>1 DEF Copies
  <2>2. /\ w.files.terminal = s.files.terminal
        /\ w.files.toTcp = s.files.toTcp /\ w.files.toOwner = s.files.toOwner
        /\ w.files.input = s.files.input
    <3>1. w.files = [s.files EXCEPT !.output = f]
      BY <1>6 DEF StdoutWritten
    <3> HIDE DEF f
    <3> QED BY <1>3, <3>1 DEF FileTables
  <2>3. w.loop.serviced = does /\ w.loop.rules = s.loop.rules
    <3>1. w.loop = [s.loop EXCEPT !.serviced = does]
      BY <1>6 DEF StdoutWritten
    <3> HIDE DEF does
    <3> QED BY <1>3, <3>1 DEF Loops
  <2>4. /\ b.error = s.me.inbound.error /\ b.capacity = s.me.inbound.capacity
        /\ b.closed = s.me.inbound.closed
        /\ s.me.inbound.buffer = <<>> => b.buffer = <<>>
        /\ f.closed = (s.files.output.closed \/ ends)
        /\ f.ended = s.files.output.ended /\ f.broken = s.files.output.broken
        /\ w.fate = s.fate
    BY <1>6 DEF StdoutWritten
  <2>5. ends = (b.closed /\ b.buffer = <<>>)
    BY DEF IsFinished
  <2>6. CopyBooks(w, fault)
    <3> HIDE DEF ends
    <3> QED BY <2>1, <2>2, <2>3, <2>4, <2>5 DEF CopyBooks, FilesInv, IsFinished
  <2>7. CopyFrame(s.files, w.files)
    BY <1>3, <2>2, <2>4 DEF CopyFrame
  <2>8. does \/ f.closed
    <3>1. \/ s.me.inbound.buffer # <<>>
          \/ s.me.inbound.closed /\ s.me.inbound.buffer = <<>>
      BY CopyOperators DEF Copy!MayWrite, IsFinished
    <3> QED BY <2>4, <2>5, <3>1
  <2> QED BY <2>3, <2>6, <2>7, <2>8 DEF CopyDid, CopySpins, Copy!CopyClosed
<1> QED BY <1>1, <1>5, <1>6 DEF w

\* A rule of the owner that is served keeps the books.
LEMMA CopyFired ==
  ASSUME NEW p, NEW s \in CopyWorlds(p), NEW fault \in BOOLEAN, NEW r \in CopyRuleNames,
         CopyBooks(s, fault), CopyAsked(s), CopyPolled(s),
         r \in DOMAIN s.loop.polled, Copy!Loop!Ready(s, r)
  PROVE  LET w == Copy!Loop!Fired(s, r)
         IN  /\ w \in CopyWorlds(p)
             /\ CopyBooks(w, fault) /\ CopyFrame(s.files, w.files) /\ w.loop.done
<1> DEFINE v == [s EXCEPT !.loop.serviced = FALSE]
           a == Copy!CopyCallback(v, r)
           c == IF a.fate = "alive" /\ CopySpins(a, r) THEN "threw" ELSE a.fate
           w == Copy!Loop!Fired(s, r)
<1>1. /\ v \in CopyWorlds(p)
      /\ v.me = s.me /\ v.files = s.files /\ v.fate = s.fate
      /\ v.loop.rules = s.loop.rules /\ v.loop.asked = s.loop.asked
      /\ v.loop.polled = s.loop.polled
  <2> DEFINE loop == [s.loop EXCEPT !.serviced = FALSE]
  <2>1. /\ s = [me |-> s.me, loop |-> s.loop, files |-> s.files, fate |-> s.fate]
        /\ s.loop \in Loops(CopyRuleNames, p)
    BY CopyParts
  <2>2. /\ loop \in Loops(CopyRuleNames, p) /\ loop.rules = s.loop.rules
        /\ loop.asked = s.loop.asked /\ loop.polled = s.loop.polled
    BY <2>1 DEF Loops
  <2>3. v = [s EXCEPT !.loop.serviced = FALSE]
    OBVIOUS
  <2> HIDE DEF v
  <2>4. v = [me |-> s.me, loop |-> loop, files |-> s.files, fate |-> s.fate]
    BY <2>1, <2>3
  <2> HIDE DEF loop
  <2>5. v \in CopyWorlds(p)
    BY <2>2, <2>4 DEF CopyWorlds
  <2> QED BY <2>2, <2>4, <2>5
<1>2. w = [a EXCEPT !.loop.done = TRUE, !.fate = c]
  BY Zenon DEF Copy!Loop!Fired, CopySpins
<1> HIDE DEF v, w
<1>3. CopyBooks(v, fault) /\ CopyAsked(v) /\ CopyPolled(v)
  BY <1>1 DEF CopyBooks, CopyAsked, CopyPolled
<1>4. /\ r \in v.loop.asked /\ r \in DOMAIN v.loop.polled
      /\ Copy!CopyDirection(r) \in v.loop.polled[r]
  BY <1>1 DEF Copy!Loop!Ready, Copy!Loop!Events
<1>5. a \in CopyWorlds(p) /\ CopyDid(v, a, fault, r)
  <2>1. CASE r = "read_stdin"
    <3>1. ~v.me.outbound_shutdown /\ ReadCounts(v.files.input)
      BY <1>3, <1>4, <2>1 DEF CopyAsked, CopyPolled, Copy!CopyDirection
    <3>2. a = Copy!ReadStdin(v)
      BY <2>1, CopyRulesAre
    <3> HIDE DEF a
    <3> QED BY <1>1, <1>3, <2>1, <3>1, <3>2, ReadStdinKeeps
  <2>2. CASE r = "write_socket"
    <3>1. /\ Copy!MayWrite(v.me.outbound, v.me.outbound_shutdown)
          /\ Len(v.files.toTcp.data) < v.files.toTcp.room
      BY <1>3, <1>4, <2>2 DEF CopyAsked, CopyPolled, Copy!CopyDirection
    <3>2. a = Copy!WriteSocket(v)
      BY <2>2, CopyRulesAre
    <3> HIDE DEF a
    <3> QED BY <1>1, <1>3, <2>2, <3>1, <3>2, WriteSocketKeeps
  <2>3. CASE r = "read_socket"
    <3>1. ReadCounts(v.files.toOwner)
      BY <1>3, <1>4, <2>3 DEF CopyPolled, Copy!CopyDirection
    <3>2. a = Copy!ReadSocket(v)
      BY <2>3, CopyRulesAre
    <3> HIDE DEF a
    <3> QED BY <1>1, <1>3, <2>3, <3>1, <3>2, ReadSocketKeeps
  <2>4. CASE r = "write_stdout"
    <3>1. /\ Copy!MayWrite(v.me.inbound, v.me.inbound_shutdown)
          /\ Len(v.files.output.data) < v.files.output.room
      BY <1>3, <1>4, <2>4 DEF CopyAsked, CopyPolled, Copy!CopyDirection
    <3>2. a = Copy!WriteStdout(v)
      BY <2>4, CopyRulesAre
    <3> HIDE DEF a
    <3> QED BY <1>1, <1>3, <2>4, <3>1, <3>2, WriteStdoutKeeps
  <2> QED BY <2>1, <2>2, <2>3, <2>4 DEF CopyRuleNames
<1> HIDE DEF a
<1>6. c \in Fates /\ (c # "alive" => fault)
  <2>1. a.fate \in Fates
    BY <1>5, CopyParts
  <2> QED BY <1>5, <2>1 DEF Fates, CopyDid, CopyBooks
<1> HIDE DEF c
<1>7. /\ w \in CopyWorlds(p)
      /\ w.me = a.me /\ w.files = a.files /\ w.fate = c
      /\ w.loop.rules = a.loop.rules /\ w.loop.done = TRUE
  <2> DEFINE loop == [a.loop EXCEPT !.done = TRUE]
  <2>1. /\ a = [me |-> a.me, loop |-> a.loop, files |-> a.files, fate |-> a.fate]
        /\ a.loop \in Loops(CopyRuleNames, p)
    BY <1>5, CopyParts
  <2>2. /\ loop \in Loops(CopyRuleNames, p) /\ loop.rules = a.loop.rules
        /\ loop.done = TRUE
    BY <2>1 DEF Loops
  <2>3. w = [me |-> a.me, loop |-> loop, files |-> a.files, fate |-> c]
    BY <1>2, <2>1
  <2> HIDE DEF loop
  <2>4. w \in CopyWorlds(p)
    BY <1>5, <1>6, <2>2, <2>3 DEF CopyWorlds
  <2> QED BY <2>2, <2>3, <2>4
<1>8. CopyBooks(w, fault)
  BY <1>5, <1>6, <1>7 DEF CopyDid, CopyBooks
<1> QED BY <1>1, <1>5, <1>7, <1>8 DEF CopyDid, w

\* What the owner's loop knows while it attends to the rules that poll() found,
\* with the files as they were at first.
CopyServing(s, fault, f) ==
  /\ CopyBooks(s, fault) /\ CopyFrame(f, s.files)
  /\ ~s.loop.done => CopyAsked(s) /\ CopyPolled(s) /\ s.files = f

\* Attending to one rule of the owner.
LEMMA CopyAttended ==
  ASSUME NEW p, NEW s \in CopyWorlds(p), NEW fault \in BOOLEAN, NEW f,
         NEW r \in CopyRuleNames, r \in DOMAIN p, CopyServing(s, fault, f)
  PROVE  LET w == Copy!Loop!Attend(s, r)
         IN  w \in CopyWorlds(p) /\ CopyServing(w, fault, f)
<1> DEFINE w == Copy!Loop!Attend(s, r)
<1>1. /\ s.loop.done => w = s
      /\ ~s.loop.done /\ Err \in s.loop.polled[r]
           => w = Copy!Loop!Erased(Copy!CopyCancelled(Copy!CopyErrored(s, r), r), r)
      /\ ~s.loop.done /\ Err \notin s.loop.polled[r] /\ Copy!Loop!HangsUp(s, r)
           => w = Copy!Loop!Erased(Copy!CopyCancelled(s, r), r)
      /\ ~s.loop.done /\ Err \notin s.loop.polled[r] /\ ~Copy!Loop!HangsUp(s, r)
           /\ Copy!Loop!Ready(s, r)
           => w = Copy!Loop!Fired(s, r)
      /\ ~s.loop.done /\ Err \notin s.loop.polled[r] /\ ~Copy!Loop!HangsUp(s, r)
           /\ ~Copy!Loop!Ready(s, r)
           => w = s
  BY Zenon DEF Copy!Loop!Attend
<1> HIDE DEF w
<1>2. s.loop.polled = p
  <2>1. s.loop \in Loops(CopyRuleNames, p)
    BY CopyParts
  <2> QED BY <2>1 DEF Loops
<1>3. CASE s.loop.done
  BY <1>1, <1>3 DEF w
<1>4. CASE ~s.loop.done
  <2>1. CopyBooks(s, fault) /\ CopyAsked(s) /\ CopyPolled(s) /\ s.files = f
        /\ CopyFrame(f, s.files)
    BY <1>4 DEF CopyServing
  <2>2. CASE Err \in s.loop.polled[r]
    <3>1. fault = TRUE
      BY <1>2, <2>1, <2>2 DEF CopyPolled, CopyBooks
    <3>2. CopyBooks(s, TRUE)
      BY <2>1, <3>1
    <3>3. /\ w \in CopyWorlds(p)
          /\ CopyBooks(w, TRUE)
          /\ CopyAsked(s) => CopyAsked(w)
          /\ CopyPolled(s) => CopyPolled(w)
          /\ w.files = s.files /\ w.loop.done = s.loop.done
      BY <1>1, <1>4, <2>2, <3>2, CopyDroppedInError
    <3> QED BY <2>1, <3>1, <3>3 DEF CopyServing, w
  <2>3. CASE Err \notin s.loop.polled[r] /\ Copy!Loop!HangsUp(s, r)
    <3>1. r # "write_stdout"
      BY <1>2, <2>1, <2>3 DEF CopyPolled, Copy!Loop!HangsUp
    <3>2. r # "read_socket"
      BY <1>2, <2>1, <2>3 DEF CopyPolled, Copy!Loop!HangsUp, Copy!Loop!Events,
         Copy!Loop!Ready, Copy!CopyDirection
    <3>3. /\ w \in CopyWorlds(p)
          /\ CopyBooks(w, fault)
          /\ CopyAsked(s) => CopyAsked(w)
          /\ CopyPolled(s) => CopyPolled(w)
          /\ w.files = s.files /\ w.loop.done = s.loop.done
      BY <1>1, <1>4, <2>1, <2>3, <3>1, <3>2, CopyDropped
    <3> QED BY <2>1, <3>3 DEF CopyServing, w
  <2>4. CASE /\ Err \notin s.loop.polled[r] /\ ~Copy!Loop!HangsUp(s, r)
             /\ Copy!Loop!Ready(s, r)
    <3>1. /\ w \in CopyWorlds(p)
          /\ CopyBooks(w, fault) /\ CopyFrame(s.files, w.files) /\ w.loop.done
      BY <1>1, <1>2, <1>4, <2>1, <2>4, CopyFired
    <3> QED BY <2>1, <3>1 DEF CopyServing, w
  <2>5. CASE /\ Err \notin s.loop.polled[r] /\ ~Copy!Loop!HangsUp(s, r)
             /\ ~Copy!Loop!Ready(s, r)
    BY <1>1, <1>4, <2>5 DEF w
  <2> QED BY <2>2, <2>3, <2>4, <2>5
<1> QED BY <1>3, <1>4

\* After poll() the owner's loop keeps the books.
LEMMA CopyServed ==
  ASSUME NEW p, NEW s \in CopyWorlds(p), NEW fault \in BOOLEAN,
         CopyBooks(s, fault), CopyAsked(s), CopyPolled(s), ~s.loop.done,
         ToSet(s.loop.rules) \subseteq DOMAIN p
  PROVE  LET w == Copy!Loop!Serve(s)
         IN  /\ w \in CopyWorlds(<<>>) /\ ~w.loop.done
             /\ CopyBooks(w, fault) /\ CopyFrame(s.files, w.files)
<1> DEFINE R == CopyRuleNames \intersect DOMAIN p
           V == {v \in CopyWorlds(p) : CopyServing(v, fault, s.files)}
           n == Len(s.loop.rules)
<1>1. s.loop \in Loops(CopyRuleNames, p) /\ s.files \in FileTables
  BY DEF CopyWorlds
<1>2. s.loop.rules \in Seq(R) /\ n \in Nat
  <2>1. s.loop.rules \in Seq(CopyRuleNames)
    BY <1>1 DEF Loops
  <2>2. \A i \in 1..Len(s.loop.rules) : s.loop.rules[i] \in DOMAIN p
    BY <2>1 DEF ToSet
  <2> QED BY <2>1, <2>2, SMTT(30)
<1>3. s \in V
  BY <1>1, CopyFrameStays DEF CopyServing
<1>4. \A v \in V : \A r \in R : Copy!Loop!Attend(v, r) \in V
  <2> SUFFICES ASSUME NEW v \in V, NEW r \in R PROVE Copy!Loop!Attend(v, r) \in V
    BY Zenon
  <2>1. v \in CopyWorlds(p) /\ CopyServing(v, fault, s.files)
        /\ r \in CopyRuleNames /\ r \in DOMAIN p
    OBVIOUS
  <2> QED BY <2>1, CopyAttended
<1> HIDE DEF V
<1>5. PICK f \in [0..Len(s.loop.rules) -> V] :
        /\ f[0] = s
        /\ \A i \in 1..Len(s.loop.rules) :
             f[i] = Copy!Loop!Attend(f[i - 1], s.loop.rules[i])
        /\ Copy!Loop!Serve(s) = Reset(f[Len(s.loop.rules)])
  BY <1>2, <1>3, <1>4, CopyServeIs
<1> DEFINE v == f[n]
<1>6. v \in V /\ Copy!Loop!Serve(s) = Reset(v)
  BY <1>2, <1>5
<1> HIDE DEF v
<1>7. v \in CopyWorlds(p) /\ CopyBooks(v, fault) /\ CopyFrame(s.files, v.files)
  BY <1>6 DEF V, CopyServing
<1> DEFINE w == Copy!Loop!Serve(s)
           loop == [v.loop EXCEPT !.polled = <<>>, !.serviced = FALSE, !.done = FALSE]
<1>8. w = [v EXCEPT !.loop.polled = <<>>, !.loop.serviced = FALSE, !.loop.done = FALSE]
  BY <1>6 DEF Reset
<1> HIDE DEF w
<1>9. /\ v = [me |-> v.me, loop |-> v.loop, files |-> v.files, fate |-> v.fate]
      /\ v.loop \in Loops(CopyRuleNames, p)
  BY <1>7, CopyParts
<1>10. w = [me |-> v.me, loop |-> loop, files |-> v.files, fate |-> v.fate]
  BY <1>8, <1>9
<1>11. /\ loop \in Loops(CopyRuleNames, <<>>) /\ loop.rules = v.loop.rules
       /\ loop.done = FALSE
  BY <1>9 DEF Loops
<1> HIDE DEF loop
<1>12. w \in CopyWorlds(<<>>)
  BY <1>7, <1>10, <1>11 DEF CopyWorlds
<1>13. CopyBooks(w, fault)
  BY <1>7, <1>10, <1>11 DEF CopyBooks
<1> QED BY <1>7, <1>10, <1>11, <1>12, <1>13 DEF w

-----------------------------------------------------------------------------
(* The peer of the socket.                                                  *)

\* MinnowSocket has the same streams and files.
LEMMA SocketOperators ==
  /\ \A b : /\ Socket!AvailableCapacity(b) = AvailableCapacity(b)
            /\ Socket!IsFinished(b) = IsFinished(b)
            /\ Socket!WriterClose(b) = WriterClose(b) /\ Socket!SetError(b) = SetError(b)
  /\ \A b, x : /\ Socket!WriterPush(b, x) = WriterPush(b, x)
               /\ Socket!ReaderPop(b, x) = ReaderPop(b, x)
  /\ \A f : /\ Socket!ReadCounts(f) = ReadCounts(f)
            /\ Socket!Shutdown(f) = Shutdown(f)
  /\ \A f, x : /\ Socket!BytesRead(f, x) = BytesRead(f, x)
               /\ Socket!AfterRead(f, x) = AfterRead(f, x)
               /\ Socket!Written(f, x) = Written(f, x)
               /\ Socket!AfterWrite(f, x) = AfterWrite(f, x)
               /\ Socket!WriteKills(f, x) = WriteKills(f, x)
               /\ Socket!WriteThrows(f, x) = WriteThrows(f, x)
<1>1. /\ \A b : /\ Socket!AvailableCapacity(b) = AvailableCapacity(b)
                /\ Socket!IsFinished(b) = IsFinished(b)
                /\ Socket!WriterClose(b) = WriterClose(b) /\ Socket!SetError(b) = SetError(b)
      /\ \A f : /\ Socket!ReadCounts(f) = ReadCounts(f)
                /\ Socket!Shutdown(f) = Shutdown(f)
  BY Zenon DEF Socket!AvailableCapacity, AvailableCapacity, Socket!IsFinished, IsFinished,
     Socket!WriterClose, WriterClose, Socket!SetError, SetError, Socket!ReadCounts, ReadCounts,
     Socket!Shutdown, Shutdown
<1>2. \A b, x : /\ Socket!WriterPush(b, x) = WriterPush(b, x)
                /\ Socket!ReaderPop(b, x) = ReaderPop(b, x)
  BY Zenon DEF Socket!WriterPush, WriterPush, Socket!ReaderPop, ReaderPop, Socket!Least, Least,
     Socket!AvailableCapacity, AvailableCapacity
<1>3. \A f, x : /\ Socket!BytesRead(f, x) = BytesRead(f, x)
                /\ Socket!AfterRead(f, x) = AfterRead(f, x)
  BY Zenon DEF Socket!BytesRead, BytesRead, Socket!AfterRead, AfterRead,
     Socket!ReadSize, ReadSize, Socket!Least, Least
<1>4. \A f, x : /\ Socket!Written(f, x) = Written(f, x)
                /\ Socket!AfterWrite(f, x) = AfterWrite(f, x)
                /\ Socket!WriteKills(f, x) = WriteKills(f, x)
                /\ Socket!WriteThrows(f, x) = WriteThrows(f, x)
  BY Zenon DEF Socket!Written, Written, Socket!AfterWrite, AfterWrite,
     Socket!WriteKills, WriteKills, Socket!WriteThrows, WriteThrows, Socket!Least, Least
<1> QED BY <1>1, <1>2, <1>3, <1>4

\* The FIN is the last thing that is sent.
FinIsLast(t) == t.fin_sent => IsFinished(t.outbound)

\* A push wakes the connection, whatever it finds (TCPSender::push).
LEMMA TcpPushDoes ==
  ASSUME NEW t \in Tcps, FinIsLast(t)
  PROVE  LET w == Socket!TcpPush(t)
         IN  /\ w \in Tcps /\ FinIsLast(w) /\ Awake(w)
             /\ w.inbound = t.inbound
             /\ w.outbound.closed = t.outbound.closed
             /\ w.outbound.error = t.outbound.error
<1> DEFINE w    == Socket!TcpPush(t)
           rst  == t.rst_sent \/ t.outbound.error
           rest == ReaderPop(t.outbound, 1)
<1>1. /\ t.outbound \in Streams /\ t.inbound \in Streams
      /\ t.in_flight \in {0, 1} /\ t.fin_sent \in BOOLEAN /\ t.syn_sent \in BOOLEAN
  BY DEF Tcps
<1>2. rst \in BOOLEAN
  BY DEF Tcps, Streams, ByteStreams
<1>3. /\ rest \in Streams /\ rest.closed = t.outbound.closed
      /\ rest.error = t.outbound.error
  BY <1>1, PopStream
<1> DEFINE sent == [t EXCEPT !.in_flight = 1, !.rst_sent = rst]
<1>4. w = IF t.in_flight > 0 \/ t.fin_sent THEN t
          ELSE IF ~t.syn_sent THEN [sent EXCEPT !.syn_sent = TRUE]
          ELSE IF t.outbound.buffer # <<>> THEN [sent EXCEPT !.outbound = rest]
          ELSE IF t.outbound.closed THEN [sent EXCEPT !.fin_sent = TRUE]
          ELSE t
  BY SocketOperators, Zenon DEF Socket!TcpPush
<1> HIDE DEF rst, rest
<1>5. /\ sent \in Tcps /\ sent.in_flight = 1 /\ sent.fin_sent = t.fin_sent
      /\ sent.outbound = t.outbound /\ sent.inbound = t.inbound
  BY <1>2 DEF Tcps
<1> HIDE DEF sent, w
<1>6. CASE t.in_flight > 0 \/ t.fin_sent
  BY <1>4, <1>6 DEF Awake, FinIsLast, IsFinished, w
<1>7. CASE ~(t.in_flight > 0 \/ t.fin_sent) /\ ~t.syn_sent
  <2>1. w = [sent EXCEPT !.syn_sent = TRUE]
    BY <1>4, <1>7
  <2>2. /\ w \in Tcps /\ w.in_flight = 1 /\ w.fin_sent = t.fin_sent
        /\ w.outbound = t.outbound /\ w.inbound = t.inbound
    BY <1>5, <2>1 DEF Tcps
  <2> QED BY <1>7, <2>2 DEF w, Awake, FinIsLast
<1>8. CASE ~(t.in_flight > 0 \/ t.fin_sent) /\ t.syn_sent /\ t.outbound.buffer # <<>>
  <2>1. w = [sent EXCEPT !.outbound = rest]
    BY <1>4, <1>8
  <2>2. /\ w \in Tcps /\ w.in_flight = 1 /\ w.fin_sent = t.fin_sent
        /\ w.outbound = rest /\ w.inbound = t.inbound
    BY <1>3, <1>5, <2>1 DEF Tcps
  <2> QED BY <1>3, <1>8, <2>2 DEF w, Awake, FinIsLast
<1>9. CASE ~(t.in_flight > 0 \/ t.fin_sent) /\ t.syn_sent /\ t.outbound.buffer = <<>>
           /\ t.outbound.closed
  <2>1. w = [sent EXCEPT !.fin_sent = TRUE]
    BY <1>4, <1>9
  <2>2. /\ w \in Tcps /\ w.in_flight = 1
        /\ w.outbound = t.outbound /\ w.inbound = t.inbound
    BY <1>5, <2>1 DEF Tcps
  <2>3. FinIsLast(w)
    BY <1>9, <2>2 DEF FinIsLast, IsFinished
  <2>4. Awake(w)
    BY <2>2 DEF Awake
  <2> QED BY <2>2, <2>3, <2>4 DEF w
<1>10. CASE ~(t.in_flight > 0 \/ t.fin_sent) /\ t.syn_sent /\ t.outbound.buffer = <<>>
            /\ ~t.outbound.closed
  BY <1>4, <1>10 DEF Awake, FinIsLast, w
<1> QED BY <1>6, <1>7, <1>8, <1>9, <1>10

\* What each kind of segment does.
LEMMA AbsorbIs ==
  ASSUME NEW t
  PROVE  /\ Socket!Absorb(t, "syn") = [t EXCEPT !.has_ackno = TRUE]
         /\ Socket!Absorb(t, "synack") = [t EXCEPT !.has_ackno = TRUE, !.in_flight = 0]
         /\ Socket!Absorb(t, "ack") = [t EXCEPT !.in_flight = 0]
         /\ Socket!Absorb(t, "byte")
              = [t EXCEPT !.inbound = WriterPush(@, << @.total_pushed + 1 >>)]
         /\ Socket!Absorb(t, "fin") = [t EXCEPT !.inbound = WriterClose(@)]
         /\ Socket!Absorb(t, "reset")
              = [t EXCEPT !.inbound = SetError(@), !.outbound = SetError(@)]
         /\ \A x \in {"none", "other", "stale"} : Socket!Absorb(t, x) = t
<1>1. /\ Socket!Absorb(t, "syn") = [t EXCEPT !.has_ackno = TRUE]
      /\ Socket!Absorb(t, "synack") = [t EXCEPT !.has_ackno = TRUE, !.in_flight = 0]
      /\ Socket!Absorb(t, "ack") = [t EXCEPT !.in_flight = 0]
  BY Zenon DEF Socket!Absorb
<1>2. Socket!Absorb(t, "byte") = [t EXCEPT !.inbound = WriterPush(@, << @.total_pushed + 1 >>)]
  BY SocketOperators, Zenon DEF Socket!Absorb
<1>3. Socket!Absorb(t, "fin") = [t EXCEPT !.inbound = WriterClose(@)]
  BY SocketOperators, Zenon DEF Socket!Absorb
<1>4. Socket!Absorb(t, "reset") = [t EXCEPT !.inbound = SetError(@), !.outbound = SetError(@)]
  BY SocketOperators, Zenon DEF Socket!Absorb
<1>5. /\ Socket!Absorb(t, "none") = t /\ Socket!Absorb(t, "other") = t
      /\ Socket!Absorb(t, "stale") = t
  BY Zenon DEF Socket!Absorb
<1> QED BY <1>1, <1>2, <1>3, <1>4, <1>5, Zenon

\* What no segment does to the peer: take bytes from it, reopen a stream, clear an
\* error; and only a reset marks one.
Absorbed(t, segment, w) ==
  /\ w.fin_sent = t.fin_sent
  /\ w.outbound.buffer = t.outbound.buffer /\ w.outbound.closed = t.outbound.closed
  /\ t.inbound.error => w.inbound.error
  /\ w.outbound.error => t.outbound.error \/ w.inbound.error
  /\ segment # "byte" /\ IsFinished(t.inbound) => IsFinished(w.inbound)

\* A segment that is absorbed.
LEMMA AbsorbDoes ==
  ASSUME NEW t \in Tcps, NEW segment \in Segments
  PROVE  LET w == Socket!Absorb(t, segment)
         IN  w \in Tcps /\ Absorbed(t, segment, w)
<1> DEFINE w == Socket!Absorb(t, segment)
<1>1. t.outbound \in Streams /\ t.inbound \in Streams
  BY DEF Tcps
<1>2. CASE segment = "syn"
  <2>1. w = [t EXCEPT !.has_ackno = TRUE]
    BY <1>2, AbsorbIs, Zenon
  <2> HIDE DEF w
  <2>2. w \in Tcps /\ w.outbound = t.outbound /\ w.inbound = t.inbound
        /\ w.fin_sent = t.fin_sent
    BY <2>1 DEF Tcps
  <2> QED BY <2>2 DEF w, Absorbed
<1>3. CASE segment = "synack"
  <2>1. w = [t EXCEPT !.has_ackno = TRUE, !.in_flight = 0]
    BY <1>3, AbsorbIs, Zenon
  <2> HIDE DEF w
  <2>2. w \in Tcps /\ w.outbound = t.outbound /\ w.inbound = t.inbound
        /\ w.fin_sent = t.fin_sent
    BY <2>1 DEF Tcps
  <2> QED BY <2>2 DEF w, Absorbed
<1>4. CASE segment = "ack"
  <2>1. w = [t EXCEPT !.in_flight = 0]
    BY <1>4, AbsorbIs, Zenon
  <2> HIDE DEF w
  <2>2. w \in Tcps /\ w.outbound = t.outbound /\ w.inbound = t.inbound
        /\ w.fin_sent = t.fin_sent
    BY <2>1 DEF Tcps
  <2> QED BY <2>2 DEF w, Absorbed
<1>5. CASE segment = "byte"
  <2> DEFINE data == << t.inbound.total_pushed + 1 >>
             b    == WriterPush(t.inbound, data)
  <2>1. data \in Seq(Byte)
    BY <1>1 DEF Streams, ByteStreams, Byte
  <2> HIDE DEF data
  <2>2. b \in Streams /\ b.error = t.inbound.error
    BY <1>1, <2>1, PushStream
  <2>3. w = [t EXCEPT !.inbound = b]
    BY <1>5, AbsorbIs, Zenon DEF data
  <2> HIDE DEF w, b
  <2>4. w \in Tcps /\ w.outbound = t.outbound /\ w.inbound = b /\ w.fin_sent = t.fin_sent
    BY <2>2, <2>3 DEF Tcps
  <2> QED BY <1>5, <2>2, <2>4 DEF w, Absorbed
<1>6. CASE segment = "fin"
  <2> DEFINE b == WriterClose(t.inbound)
  <2>1. b \in Streams /\ b.error = t.inbound.error /\ b.closed /\ b.buffer = t.inbound.buffer
    BY <1>1, MarkStream
  <2>2. w = [t EXCEPT !.inbound = b]
    BY <1>6, AbsorbIs, Zenon
  <2> HIDE DEF w, b
  <2>3. w \in Tcps /\ w.outbound = t.outbound /\ w.inbound = b /\ w.fin_sent = t.fin_sent
    BY <2>1, <2>2 DEF Tcps
  <2> QED BY <2>1, <2>3 DEF w, Absorbed, IsFinished
<1>7. CASE segment = "reset"
  <2> DEFINE b == SetError(t.inbound)
             c == SetError(t.outbound)
  <2>1. /\ b \in Streams /\ b.error /\ b.closed = t.inbound.closed
        /\ b.buffer = t.inbound.buffer
        /\ c \in Streams /\ c.closed = t.outbound.closed /\ c.buffer = t.outbound.buffer
    BY <1>1, MarkStream
  <2>2. w = [t EXCEPT !.inbound = b, !.outbound = c]
    BY <1>7, AbsorbIs, Zenon
  <2> HIDE DEF w, b, c
  <2>3. w \in Tcps /\ w.outbound = c /\ w.inbound = b /\ w.fin_sent = t.fin_sent
    BY <2>1, <2>2 DEF Tcps
  <2> QED BY <2>1, <2>3 DEF w, Absorbed, IsFinished
<1>8. CASE segment \in {"none", "other", "stale"}
  <2>1. w = t
    BY <1>8, AbsorbIs, Zenon
  <2> HIDE DEF w
  <2> QED BY <2>1 DEF w, Absorbed
<1> QED BY <1>2, <1>3, <1>4, <1>5, <1>6, <1>7, <1>8 DEF Segments

\* A segment that is received (TCPPeer::receive).
LEMMA TcpReceiveDoes ==
  ASSUME NEW t \in Tcps, NEW segment \in Segments, FinIsLast(t), Awake(t)
  PROVE  LET w == Socket!TcpReceive(t, segment)
         IN  /\ w \in Tcps /\ FinIsLast(w) /\ Awake(w)
             /\ w.outbound.closed = t.outbound.closed
             /\ t.inbound.error => w.inbound.error
             /\ w.outbound.error => t.outbound.error \/ w.inbound.error
             /\ segment # "byte" /\ IsFinished(t.inbound) => IsFinished(w.inbound)
<1> DEFINE a == Socket!Absorb(t, segment)
           b == Socket!TcpPush(a)
           w == Socket!TcpReceive(t, segment)
           l == b.linger /\ ~(b.inbound.closed /\ ~Socket!IsFinished(b.outbound))
<1>1. a \in Tcps /\ Absorbed(t, segment, a)
  BY AbsorbDoes
<1>2. w = IF ~Socket!TcpActive(t) THEN t ELSE [b EXCEPT !.elapsed = FALSE, !.linger = l]
  BY Zenon DEF Socket!TcpReceive
<1> HIDE DEF a
<1>3. FinIsLast(a)
  BY <1>1 DEF Absorbed, FinIsLast, IsFinished
<1>4. /\ b \in Tcps /\ FinIsLast(b) /\ Awake(b)
      /\ b.inbound = a.inbound
      /\ b.outbound.closed = a.outbound.closed
      /\ b.outbound.error = a.outbound.error
  BY <1>1, <1>3, TcpPushDoes
<1> HIDE DEF b, w
<1>5. l \in BOOLEAN
  BY <1>4 DEF Tcps
<1> HIDE DEF l
<1>6. CASE ~Socket!TcpActive(t)
  BY <1>2, <1>6 DEF w
<1>7. CASE Socket!TcpActive(t)
  <2>1. w = [b EXCEPT !.elapsed = FALSE, !.linger = l]
    BY <1>2, <1>7
  <2>2. /\ w \in Tcps /\ w.inbound = b.inbound /\ w.outbound = b.outbound
        /\ w.fin_sent = b.fin_sent /\ w.in_flight = b.in_flight
    BY <1>4, <1>5, <2>1 DEF Tcps
  <2> QED BY <1>1, <1>4, <2>2 DEF w, Awake, FinIsLast, Absorbed
<1> QED BY <1>6, <1>7

-----------------------------------------------------------------------------
(* What the rules of the socket do.                                         *)

\* The parts of the socket's world.
LEMMA SocketParts ==
  ASSUME NEW p, NEW s \in SocketWorlds(p)
  PROVE  /\ s = [me |-> s.me, loop |-> s.loop, files |-> s.files, fate |-> s.fate]
         /\ s.me \in Sockets /\ s.me.tcp \in Tcps
         /\ s.me.outbound_shutdown \in BOOLEAN /\ s.me.inbound_shutdown \in BOOLEAN
         /\ s.me.datagram \in Segments
         /\ s.loop \in Loops(SocketRuleNames, p) /\ s.loop.polled = p
         /\ s.fate \in Fates /\ s.files \in FileTables
         /\ s.files.toTcp \in Files /\ s.files.toOwner \in Files
BY DEF SocketWorlds, Sockets, FileTables, Loops

\* What the callbacks of the socket change.
LEMMA SocketRuleWorlds ==
  ASSUME NEW s, s = [me |-> s.me, loop |-> s.loop, files |-> s.files, fate |-> s.fate],
         NEW x, NEW shut, NEW f, NEW c, NEW w
  PROVE  /\ w = [s EXCEPT !.me.tcp = x, !.loop.serviced = c]
              => w = [me |-> [s.me EXCEPT !.tcp = x],
                      loop |-> [s.loop EXCEPT !.serviced = c],
                      files |-> s.files, fate |-> s.fate]
         /\ w = [s EXCEPT !.me.tcp = x, !.me.outbound_shutdown = shut,
                          !.files.toTcp = f, !.loop.serviced = c]
              => w = [me |-> [s.me EXCEPT !.tcp = x, !.outbound_shutdown = shut],
                      loop |-> [s.loop EXCEPT !.serviced = c],
                      files |-> [s.files EXCEPT !.toTcp = f], fate |-> s.fate]
         /\ w = [s EXCEPT !.me.tcp.inbound = x, !.me.inbound_shutdown = shut,
                          !.files.toOwner = f, !.loop.serviced = c]
              => w = [me |-> [s.me EXCEPT !.tcp.inbound = x, !.inbound_shutdown = shut],
                      loop |-> [s.loop EXCEPT !.serviced = c],
                      files |-> [s.files EXCEPT !.toOwner = f], fate |-> s.fate]
OBVIOUS

\* What the functions of the three rules are.
LEMMA SocketRulesAre ==
  ASSUME NEW s
  PROVE  /\ Socket!SocketInterested(s, "receive") = Socket!TcpActive(s.me.tcp)
         /\ Socket!SocketInterested(s, "push")
              = (/\ Socket!TcpActive(s.me.tcp) /\ ~s.me.outbound_shutdown
                 /\ AvailableCapacity(s.me.tcp.outbound) > 0)
         /\ Socket!SocketInterested(s, "read_inbound")
              = (\/ s.me.tcp.inbound.buffer # <<>>
                 \/ (IsFinished(s.me.tcp.inbound) \/ s.me.tcp.inbound.error)
                      /\ ~s.me.inbound_shutdown)
         /\ Socket!SocketCallback(s, "receive") = Socket!Receive(s)
         /\ Socket!SocketCallback(s, "push") = Socket!PushBytes(s)
         /\ Socket!SocketCallback(s, "read_inbound") = Socket!ReadInbound(s)
<1>1. /\ Socket!SocketInterested(s, "receive") = Socket!TcpActive(s.me.tcp)
      /\ Socket!SocketInterested(s, "push")
           = (/\ Socket!TcpActive(s.me.tcp) /\ ~s.me.outbound_shutdown
              /\ AvailableCapacity(s.me.tcp.outbound) > 0)
      /\ Socket!SocketInterested(s, "read_inbound")
           = (\/ s.me.tcp.inbound.buffer # <<>>
              \/ (IsFinished(s.me.tcp.inbound) \/ s.me.tcp.inbound.error)
                   /\ ~s.me.inbound_shutdown)
  BY SocketOperators, Zenon DEF Socket!SocketInterested
<1>2. /\ Socket!SocketCallback(s, "receive") = Socket!Receive(s)
      /\ Socket!SocketCallback(s, "push") = Socket!PushBytes(s)
      /\ Socket!SocketCallback(s, "read_inbound") = Socket!ReadInbound(s)
  BY Zenon DEF Socket!SocketCallback
<1> QED BY <1>1, <1>2, Zenon

\* What the socket's callbacks leave of files f, for who looks at them.
SocketFrame(f, g) ==
  /\ g.terminal = f.terminal /\ g.input = f.input /\ g.output = f.output
  /\ g.toTcp.ended = f.toTcp.ended /\ g.toTcp.room = f.toTcp.room
  /\ Len(g.toTcp.data) <= Len(f.toTcp.data)
  /\ g.toOwner.eof = f.toOwner.eof
  /\ f.toOwner.ended => g.toOwner.ended
  /\ ReadCounts(f.toOwner) => ReadCounts(g.toOwner)

\* A callback that did nothing, of a rule that is still interested.
SocketSpins(s, r) == ~s.loop.serviced /\ Socket!SocketInterested(s, r)

\* What a callback of the socket has to do.
SocketDid(s, w, r) ==
  /\ SocketBooks(w)
  /\ SocketFrame(s.files, w.files)
  /\ SocketFault(s) => SocketFault(w)
  /\ SocketSpins(w, r) => SocketFault(w)

\* Files that did not change.
LEMMA SocketFrameStays ==
  ASSUME NEW f \in FileTables
  PROVE  SocketFrame(f, f)
<1>1. f.toTcp \in Files
  BY DEF FileTables
<1>2. Len(f.toTcp.data) \in Nat
  BY <1>1 DEF Files
<1>3. Len(f.toTcp.data) <= Len(f.toTcp.data)
  BY <1>2
<1> QED BY <1>3 DEF SocketFrame

\* The callback of the first rule keeps the books.
LEMMA ReceiveKeeps ==
  ASSUME NEW p, NEW s \in SocketWorlds(p), SocketBooks(s),
         s.me.datagram = "byte" => ~s.me.tcp.inbound.closed
  PROVE  LET w == Socket!Receive(s)
         IN  w \in SocketWorlds(p) /\ SocketDid(s, w, "receive")
<1> DEFINE w  == Socket!Receive(s)
           t  == s.me.tcp
           d  == s.me.datagram
           x  == IF d = "other" THEN t ELSE Socket!TcpReceive(t, d)
           me == [s.me EXCEPT !.tcp = x]
           loop == [s.loop EXCEPT !.serviced = TRUE]
<1>1. /\ s = [me |-> s.me, loop |-> s.loop, files |-> s.files, fate |-> s.fate]
      /\ s.me \in Sockets /\ t \in Tcps /\ d \in Segments
      /\ s.loop \in Loops(SocketRuleNames, p) /\ s.fate \in Fates /\ s.files \in FileTables
  BY SocketParts
<1>2. w = [s EXCEPT !.me.tcp = x, !.loop.serviced = TRUE]
  BY Zenon DEF Socket!Receive
<1>3. FinIsLast(t) /\ Awake(t)
  BY DEF SocketBooks, FinIsLast
<1>4. /\ x \in Tcps /\ FinIsLast(x) /\ Awake(x)
      /\ x.outbound.closed = t.outbound.closed
      /\ t.inbound.error => x.inbound.error
      /\ x.outbound.error => t.outbound.error \/ x.inbound.error
      /\ d # "byte" /\ IsFinished(t.inbound) => IsFinished(x.inbound)
  <2>1. CASE d = "other"
    <3>1. x = t
      BY <2>1
    <3> HIDE DEF x, t, d
    <3> QED BY <1>1, <1>3, <3>1
  <2>2. CASE d # "other"
    <3>1. x = Socket!TcpReceive(t, d)
      BY <2>2
    <3> HIDE DEF x, t, d
    <3> QED BY <1>1, <1>3, <3>1, TcpReceiveDoes
  <2> QED BY <2>1, <2>2
<1> HIDE DEF x, w
<1>5. w = [me |-> me, loop |-> loop, files |-> s.files, fate |-> s.fate]
  BY <1>1, <1>2, SocketRuleWorlds, Zenon
<1>6. /\ me \in Sockets /\ me.tcp = x
      /\ me.inbound_shutdown = s.me.inbound_shutdown
      /\ me.outbound_shutdown = s.me.outbound_shutdown
  BY <1>1, <1>4 DEF Sockets
<1>7. /\ loop \in Loops(SocketRuleNames, p) /\ loop.serviced = TRUE
      /\ loop.rules = s.loop.rules
  BY <1>1 DEF Loops
<1> HIDE DEF me, loop
<1>8. w \in SocketWorlds(p)
  BY <1>1, <1>5, <1>6, <1>7 DEF SocketWorlds
<1>9. SocketFault(s) => SocketFault(w)
  BY <1>4, <1>5, <1>6 DEF SocketFault
<1>10. w.files.toOwner.ended => IsFinished(x.inbound) \/ SocketFault(w)
  <2>1. s.files.toOwner.ended => IsFinished(t.inbound) \/ SocketFault(s)
    BY DEF SocketBooks
  <2>2. IsFinished(t.inbound) => d # "byte"
    BY DEF IsFinished
  <2> QED BY <1>4, <1>5, <1>9, <2>1, <2>2
<1>11. SocketBooks(w)
  <2>1. /\ w.me.tcp = x /\ w.me.outbound_shutdown = s.me.outbound_shutdown
        /\ w.files = s.files /\ w.loop.rules = s.loop.rules /\ w.fate = s.fate
    BY <1>5, <1>6, <1>7
  <2> QED BY <1>4, <1>9, <1>10, <2>1 DEF SocketBooks, FinIsLast
<1>12. SocketFrame(s.files, w.files)
  BY <1>1, <1>5, SocketFrameStays
<1> QED BY <1>5, <1>7, <1>8, <1>9, <1>11, <1>12 DEF w, SocketDid, SocketSpins

\* The callback of the second rule keeps the books.
LEMMA PushBytesKeeps ==
  ASSUME NEW p, NEW s \in SocketWorlds(p), SocketBooks(s),
         ~s.me.outbound_shutdown, ReadCounts(s.files.toTcp)
  PROVE  LET w == Socket!PushBytes(s)
         IN  w \in SocketWorlds(p) /\ SocketDid(s, w, "push")
<1> DEFINE w  == Socket!PushBytes(s)
           t  == s.me.tcp
           f  == s.files.toTcp
           size   == AvailableCapacity(t.outbound)
           after  == AfterRead(f, size)
           pushed == WriterPush(t.outbound, BytesRead(f, size))
           stream == IF after.eof THEN WriterClose(pushed) ELSE pushed
           u  == [t EXCEPT !.outbound = stream]
           x  == Socket!TcpPush(u)
           c  == ReadCounts(f)
           shut == s.me.outbound_shutdown \/ after.eof
           me == [s.me EXCEPT !.tcp = x, !.outbound_shutdown = shut]
           loop == [s.loop EXCEPT !.serviced = c]
           files2 == [s.files EXCEPT !.toTcp = after]
<1>1. /\ s = [me |-> s.me, loop |-> s.loop, files |-> s.files, fate |-> s.fate]
      /\ s.me \in Sockets /\ t \in Tcps /\ f \in Files /\ s.me.outbound_shutdown \in BOOLEAN
      /\ s.loop \in Loops(SocketRuleNames, p) /\ s.fate \in Fates /\ s.files \in FileTables
  BY SocketParts
<1>2. w = [s EXCEPT !.me.tcp = x, !.me.outbound_shutdown = shut,
                    !.files.toTcp = after, !.loop.serviced = c]
  BY SocketOperators, Zenon DEF Socket!PushBytes
<1>3. t.outbound \in Streams
  BY <1>1 DEF Tcps
<1> HIDE DEF t, f
<1>4. size \in Nat
  BY <1>3 DEF AvailableCapacity, Streams, ByteStreams
<1> HIDE DEF size
<1>5. /\ BytesRead(f, size) \in Seq(Byte)
      /\ after \in Files /\ after.room = f.room /\ Len(after.data) <= Len(f.data)
      /\ after.ended = f.ended /\ after.broken = f.broken
      /\ after.eof = (f.eof \/ (f.data = <<>> /\ f.ended))
  BY <1>1, <1>4, ReadFile
<1>6. /\ pushed \in Streams /\ pushed.closed = t.outbound.closed
      /\ pushed.error = t.outbound.error
  BY <1>3, <1>5, PushStream
<1>7. after.eof \in BOOLEAN /\ t.outbound.closed \in BOOLEAN
  BY <1>3, <1>5 DEF Files, Streams, ByteStreams
<1> HIDE DEF after, pushed
<1>8. /\ stream \in Streams /\ stream.error = t.outbound.error
      /\ stream.closed = (t.outbound.closed \/ after.eof)
  <2>1. /\ WriterClose(pushed) \in Streams /\ WriterClose(pushed).error = pushed.error
        /\ WriterClose(pushed).closed = TRUE
    BY <1>6, MarkStream
  <2> QED BY <1>6, <1>7, <2>1
<1> HIDE DEF stream
<1>9. /\ u \in Tcps /\ u.outbound = stream /\ u.inbound = t.inbound
      /\ u.fin_sent = t.fin_sent
  BY <1>1, <1>8 DEF Tcps
<1>10. ~t.fin_sent
  BY DEF SocketBooks, IsFinished, t
<1> HIDE DEF u
<1>11. /\ x \in Tcps /\ FinIsLast(x) /\ Awake(x)
       /\ x.inbound = t.inbound
       /\ x.outbound.closed = (t.outbound.closed \/ after.eof)
       /\ x.outbound.error = t.outbound.error
  <2>1. FinIsLast(u)
    BY <1>9, <1>10 DEF FinIsLast
  <2> QED BY <1>8, <1>9, <2>1, TcpPushDoes
<1>12. c = TRUE
  BY DEF f
<1>13. shut \in BOOLEAN
  BY <1>1, <1>7
<1> HIDE DEF x, w, c, shut
<1>14. w = [me |-> me, loop |-> loop, files |-> files2, fate |-> s.fate]
  BY <1>1, <1>2, SocketRuleWorlds, Zenon
<1>15. me \in Sockets /\ me.tcp = x /\ me.outbound_shutdown = shut
  BY <1>1, <1>11, <1>13 DEF Sockets
<1>16. /\ loop \in Loops(SocketRuleNames, p) /\ loop.serviced = TRUE
       /\ loop.rules = s.loop.rules
  BY <1>1, <1>12 DEF Loops
<1>17. /\ files2 \in FileTables /\ files2.toTcp = after /\ files2.toOwner = s.files.toOwner
       /\ files2.terminal = s.files.terminal /\ files2.input = s.files.input
       /\ files2.output = s.files.output
  BY <1>1, <1>5 DEF FileTables
<1> HIDE DEF me, loop, files2
<1>18. w \in SocketWorlds(p)
  BY <1>1, <1>14, <1>15, <1>16, <1>17 DEF SocketWorlds
<1>19. SocketFault(s) <=> SocketFault(w)
  BY <1>11, <1>14, <1>15, <1>17 DEF SocketFault, t
<1>20. SocketBooks(w)
  <2>1. /\ w.me.tcp = x /\ w.me.outbound_shutdown = shut
        /\ w.files.toTcp = after /\ w.files.toOwner = s.files.toOwner
        /\ w.files.output = s.files.output
        /\ w.loop.rules = s.loop.rules /\ w.fate = s.fate
    BY <1>14, <1>15, <1>16, <1>17
  <2>2. FilesInv(w.files)
    BY <1>5, <2>1 DEF SocketBooks, FilesInv, f
  <2>3. x.outbound.closed => shut
    BY <1>11 DEF SocketBooks, shut, t
  <2>4. x.outbound.closed <=> after.eof
    BY <1>5, <1>11 DEF SocketBooks, t, f
  <2>5. x.outbound.error => x.inbound.error
    BY <1>11 DEF SocketBooks, t
  <2>6. w.files.toOwner.ended => IsFinished(x.inbound) \/ SocketFault(w)
    BY <1>11, <1>19, <2>1 DEF SocketBooks, t
  <2> QED BY <1>11, <1>19, <2>1, <2>2, <2>3, <2>4, <2>5, <2>6 DEF SocketBooks, FinIsLast
<1>21. SocketFrame(s.files, w.files)
  <2>1. SocketFrame(s.files, s.files)
    BY <1>1, SocketFrameStays
  <2> QED BY <1>5, <1>14, <1>17, <2>1 DEF SocketFrame, f
<1> QED BY <1>14, <1>16, <1>18, <1>19, <1>20, <1>21 DEF w, SocketDid, SocketSpins

\* The callback of the third rule keeps the books.
LEMMA ReadInboundKeeps ==
  ASSUME NEW p, NEW s \in SocketWorlds(p), SocketBooks(s),
         \/ s.me.tcp.inbound.buffer # <<>>
         \/ IsFinished(s.me.tcp.inbound) \/ s.me.tcp.inbound.error,
         Len(s.files.toOwner.data) < s.files.toOwner.room
  PROVE  LET w == Socket!ReadInbound(s)
         IN  w \in SocketWorlds(p) /\ SocketDid(s, w, "read_inbound")
<1> DEFINE w  == Socket!ReadInbound(s)
           t  == s.me.tcp
           f  == s.files.toOwner
           buffer == t.inbound.buffer
           b  == ReaderPop(t.inbound, Written(f, buffer))
           sent == AfterWrite(f, buffer)
           ends == IsFinished(b) \/ b.error
           g  == IF ends THEN Shutdown(sent) ELSE sent
           c  == ends \/ buffer # <<>>
           shut == s.me.inbound_shutdown \/ ends
           x  == [t EXCEPT !.inbound = b]
           me == [s.me EXCEPT !.tcp.inbound = b, !.inbound_shutdown = shut]
           loop == [s.loop EXCEPT !.serviced = c]
           files2 == [s.files EXCEPT !.toOwner = g]
<1>1. /\ s = [me |-> s.me, loop |-> s.loop, files |-> s.files, fate |-> s.fate]
      /\ s.me \in Sockets /\ t \in Tcps /\ f \in Files /\ s.me.inbound_shutdown \in BOOLEAN
      /\ s.loop \in Loops(SocketRuleNames, p) /\ s.fate \in Fates /\ s.files \in FileTables
  BY SocketParts
<1>2. w = IF WriteKills(f, buffer) THEN [s EXCEPT !.fate = "killed"]
          ELSE IF WriteThrows(f, buffer) THEN [s EXCEPT !.fate = "threw"]
          ELSE [s EXCEPT !.me.tcp.inbound = b, !.me.inbound_shutdown = shut,
                         !.files.toOwner = g, !.loop.serviced = c]
  BY SocketOperators, Zenon DEF Socket!ReadInbound
<1>3. t.inbound \in Streams
  BY <1>1 DEF Tcps
<1>4. buffer \in Seq(Byte) /\ t.inbound.closed \in BOOLEAN /\ t.inbound.error \in BOOLEAN
  BY <1>3 DEF Streams, ByteStreams
<1>5. SocketFrame(s.files, s.files)
  BY <1>1, SocketFrameStays
<1> HIDE DEF w
<1>6. ~WriteThrows(f, buffer)
  BY <1>1, <1>4, WriteFile DEF WriteThrows
<1>7. WriteKills(f, buffer) => SocketFault(s)
  BY DEF WriteKills, SocketBooks, FilesInv, IsFinished
<1>8. CASE WriteKills(f, buffer)
  <2>1. w = [s EXCEPT !.fate = "killed"]
    BY <1>2, <1>8
  <2>2. w = [me |-> s.me, loop |-> s.loop, files |-> s.files, fate |-> "killed"]
    BY <1>1, <2>1
  <2>3. w \in SocketWorlds(p)
    BY <1>1, <2>2 DEF SocketWorlds, Fates
  <2>4. SocketFault(w)
    BY <1>7, <1>8, <2>2 DEF SocketFault
  <2>5. SocketBooks(w)
    BY <2>2, <2>4 DEF SocketBooks, SocketFault
  <2> QED BY <1>5, <2>2, <2>3, <2>4, <2>5 DEF w, SocketDid
<1>9. CASE ~WriteKills(f, buffer)
  <2>1. w = [s EXCEPT !.me.tcp.inbound = b, !.me.inbound_shutdown = shut,
                      !.files.toOwner = g, !.loop.serviced = c]
    BY <1>2, <1>6, <1>9
  <2>2. /\ Written(f, buffer) \in Nat
        /\ sent \in Files /\ sent.room = f.room
        /\ sent.ended = f.ended /\ sent.broken = f.broken /\ sent.eof = f.eof
        /\ ReadCounts(f) => ReadCounts(sent)
    BY <1>1, <1>4, WriteFile
  <2>3. /\ b \in Streams /\ b.error = t.inbound.error /\ b.closed = t.inbound.closed
        /\ buffer = <<>> => b.buffer = <<>>
    BY <1>3, <2>2, PopStream
  <2> HIDE DEF b, sent
  <2>4. ends \in BOOLEAN
    BY <2>3 DEF Streams, ByteStreams, IsFinished
  <2>5. (IsFinished(t.inbound) => ends) /\ (t.inbound.error => ends)
    BY <2>3 DEF IsFinished
  <2>6. c = TRUE
    BY <2>5
  <2>7. IsFinished(t.inbound) => IsFinished(b)
    BY <2>3 DEF IsFinished
  <2>8. ends => IsFinished(b) \/ t.inbound.error
    BY <2>3
  <2> HIDE DEF ends, c
  <2>9. /\ g \in Files /\ g.ended = (f.ended \/ ends)
        /\ g.broken = f.broken /\ g.eof = f.eof
        /\ ReadCounts(f) => ReadCounts(g)
    BY <2>2, <2>4 DEF Shutdown, Files, ReadCounts
  <2>10. shut \in BOOLEAN
    BY <1>1, <2>4
  <2> HIDE DEF g, shut
  <2>11. w = [me |-> me, loop |-> loop, files |-> files2, fate |-> s.fate]
    BY <1>1, <2>1, SocketRuleWorlds, Zenon
  <2>12. /\ x \in Tcps /\ x.inbound = b /\ x.outbound = t.outbound
         /\ x.fin_sent = t.fin_sent /\ x.in_flight = t.in_flight
    BY <1>1, <2>3 DEF Tcps
  <2>13. me = [s.me EXCEPT !.tcp = x, !.inbound_shutdown = shut]
    BY <1>1 DEF Sockets
  <2> HIDE DEF x, me
  <2>14. me \in Sockets /\ me.tcp = x /\ me.outbound_shutdown = s.me.outbound_shutdown
    BY <1>1, <2>10, <2>12, <2>13 DEF Sockets
  <2>15. /\ loop \in Loops(SocketRuleNames, p) /\ loop.serviced = TRUE
         /\ loop.rules = s.loop.rules
    BY <1>1, <2>6 DEF Loops
  <2>16. /\ files2 \in FileTables /\ files2.toOwner = g /\ files2.toTcp = s.files.toTcp
         /\ files2.terminal = s.files.terminal /\ files2.input = s.files.input
         /\ files2.output = s.files.output
    BY <1>1, <2>9 DEF FileTables
  <2> HIDE DEF loop, files2
  <2>17. w \in SocketWorlds(p)
    BY <1>1, <2>11, <2>14, <2>15, <2>16 DEF SocketWorlds
  <2>18. SocketFault(s) <=> SocketFault(w)
    BY <2>3, <2>11, <2>12, <2>14, <2>16 DEF SocketFault, t
  <2>19. SocketBooks(w)
    <3>1. /\ w.me.tcp = x /\ w.me.outbound_shutdown = s.me.outbound_shutdown
          /\ w.files.toOwner = g /\ w.files.toTcp = s.files.toTcp
          /\ w.files.output = s.files.output
          /\ w.loop.rules = s.loop.rules /\ w.fate = s.fate
      BY <2>11, <2>14, <2>15, <2>16
    <3>2. FilesInv(w.files)
      BY <2>9, <3>1 DEF SocketBooks, FilesInv, f
    <3>3. g.ended => IsFinished(b) \/ SocketFault(s)
      BY <2>7, <2>8, <2>9 DEF SocketBooks, SocketFault, f, t
    <3>4. Awake(x)
      BY <2>3, <2>12 DEF SocketBooks, Awake, t
    <3>5. /\ x.fin_sent => IsFinished(x.outbound)
          /\ x.outbound.error => x.inbound.error
          /\ x.outbound.closed => s.me.outbound_shutdown
          /\ x.outbound.closed <=> s.files.toTcp.eof
      BY <2>3, <2>12 DEF SocketBooks, t
    <3>6. s.files.toOwner.ended => g.ended
      BY <2>9 DEF f
    <3> QED BY <2>12, <2>18, <3>1, <3>2, <3>3, <3>4, <3>5, <3>6 DEF SocketBooks
  <2>20. SocketFrame(s.files, w.files)
    BY <1>5, <2>9, <2>11, <2>16 DEF SocketFrame, f
  <2> QED BY <2>11, <2>15, <2>17, <2>18, <2>19, <2>20 DEF w, SocketDid, SocketSpins
<1> QED BY <1>8, <1>9

\* Taking a rule out of the socket's loop.
LEMMA SocketErasedDoes ==
  ASSUME NEW p, NEW s \in SocketWorlds(p), NEW r \in SocketRuleNames
  PROVE  LET w == Socket!Loop!Erased(s, r)
         IN  w \in SocketWorlds(p) /\ Without(w, s, r)
<1> DEFINE rules == Selected(s.loop.rules, ToSet(s.loop.rules) \ {r})
           loop  == [s.loop EXCEPT !.rules = rules]
           w     == Socket!Loop!Erased(s, r)
<1>1. w = [s EXCEPT !.loop.rules = rules]
  BY LoopOperators, Zenon DEF Socket!Loop!Erased
<1>2. /\ s = [me |-> s.me, loop |-> s.loop, files |-> s.files, fate |-> s.fate]
      /\ s.loop \in Loops(SocketRuleNames, p)
  BY SocketParts
<1>3. s.loop.rules \in Seq(SocketRuleNames)
  BY <1>2 DEF Loops
<1>4. rules \in Seq(SocketRuleNames) /\ ToSet(rules) = ToSet(s.loop.rules) \ {r}
  BY <1>3, SelectedElements
<1> HIDE DEF rules, w
<1>5. w = [me |-> s.me, loop |-> loop, files |-> s.files, fate |-> s.fate]
  BY <1>1, <1>2
<1>6. /\ loop \in Loops(SocketRuleNames, p) /\ loop.rules = rules
      /\ loop.asked = s.loop.asked /\ loop.polled = s.loop.polled
      /\ loop.done = s.loop.done
  BY <1>2, <1>4 DEF Loops
<1> HIDE DEF loop
<1>7. w \in SocketWorlds(p)
  BY <1>5, <1>6 DEF SocketWorlds
<1> QED BY <1>4, <1>5, <1>6, <1>7 DEF w, Without

\* A rule of the socket that is served keeps the books.
LEMMA SocketFired ==
  ASSUME NEW p, NEW s \in SocketWorlds(p), NEW r \in SocketRuleNames,
         SocketBooks(s), SocketAsked(s), SocketPolled(s),
         r \in DOMAIN s.loop.polled, Socket!Loop!Ready(s, r)
  PROVE  LET w == Socket!Loop!Fired(s, r)
         IN  /\ w \in SocketWorlds(p)
             /\ SocketBooks(w) /\ SocketFrame(s.files, w.files) /\ w.loop.done
             /\ SocketFault(s) => SocketFault(w)
<1> DEFINE v == [s EXCEPT !.loop.serviced = FALSE]
           a == Socket!SocketCallback(v, r)
           c == IF a.fate = "alive" /\ SocketSpins(a, r) THEN "threw" ELSE a.fate
           w == Socket!Loop!Fired(s, r)
<1>1. /\ v \in SocketWorlds(p)
      /\ v.me = s.me /\ v.files = s.files /\ v.fate = s.fate
      /\ v.loop.rules = s.loop.rules /\ v.loop.asked = s.loop.asked
      /\ v.loop.polled = s.loop.polled
  <2> DEFINE loop == [s.loop EXCEPT !.serviced = FALSE]
  <2>1. /\ s = [me |-> s.me, loop |-> s.loop, files |-> s.files, fate |-> s.fate]
        /\ s.loop \in Loops(SocketRuleNames, p)
    BY SocketParts
  <2>2. /\ loop \in Loops(SocketRuleNames, p) /\ loop.rules = s.loop.rules
        /\ loop.asked = s.loop.asked /\ loop.polled = s.loop.polled
    BY <2>1 DEF Loops
  <2>3. v = [s EXCEPT !.loop.serviced = FALSE]
    OBVIOUS
  <2> HIDE DEF v
  <2>4. v = [me |-> s.me, loop |-> loop, files |-> s.files, fate |-> s.fate]
    BY <2>1, <2>3
  <2> HIDE DEF loop
  <2>5. v \in SocketWorlds(p)
    BY <2>2, <2>4 DEF SocketWorlds
  <2> QED BY <2>2, <2>4, <2>5
<1>2. w = [a EXCEPT !.loop.done = TRUE, !.fate = c]
  <2>1. SocketSpins(a, r) <=>
          ~a.loop.serviced /\ ~Socket!SocketClosed(a, r) /\ Socket!SocketInterested(a, r)
    BY Zenon DEF SocketSpins, Socket!SocketClosed
  <2> QED BY <2>1, Zenon DEF Socket!Loop!Fired
<1> HIDE DEF v, w
<1>3. SocketBooks(v) /\ SocketAsked(v) /\ SocketPolled(v)
  BY <1>1 DEF SocketBooks, SocketAsked, SocketPolled, SocketFault
<1>4. /\ r \in v.loop.asked /\ r \in DOMAIN v.loop.polled
      /\ Socket!SocketDirection(r) \in v.loop.polled[r]
  BY <1>1 DEF Socket!Loop!Ready, Socket!Loop!Events
<1>5. a \in SocketWorlds(p) /\ SocketDid(v, a, r)
  <2>1. CASE r = "receive"
    <3>1. v.me.datagram = "byte" => ~v.me.tcp.inbound.closed
      BY <1>3 DEF SocketPolled
    <3>2. a = Socket!Receive(v)
      BY <2>1, SocketRulesAre
    <3> HIDE DEF a
    <3> QED BY <1>1, <1>3, <2>1, <3>1, <3>2, ReceiveKeeps
  <2>2. CASE r = "push"
    <3>1. ~v.me.outbound_shutdown /\ ReadCounts(v.files.toTcp)
      BY <1>3, <1>4, <2>2 DEF SocketAsked, SocketPolled, Socket!SocketDirection
    <3>2. a = Socket!PushBytes(v)
      BY <2>2, SocketRulesAre
    <3> HIDE DEF a
    <3> QED BY <1>1, <1>3, <2>2, <3>1, <3>2, PushBytesKeeps
  <2>3. CASE r = "read_inbound"
    <3>1. /\ \/ v.me.tcp.inbound.buffer # <<>>
             \/ IsFinished(v.me.tcp.inbound) \/ v.me.tcp.inbound.error
          /\ Len(v.files.toOwner.data) < v.files.toOwner.room
      BY <1>3, <1>4, <2>3 DEF SocketAsked, SocketPolled, Socket!SocketDirection
    <3>2. a = Socket!ReadInbound(v)
      BY <2>3, SocketRulesAre
    <3> HIDE DEF a
    <3> QED BY <1>1, <1>3, <2>3, <3>1, <3>2, ReadInboundKeeps
  <2> QED BY <2>1, <2>2, <2>3 DEF SocketRuleNames
<1> HIDE DEF a
<1>6. c \in Fates /\ (c # "alive" => SocketFault(a))
  <2>1. a.fate \in Fates
    BY <1>5, SocketParts
  <2> QED BY <1>5, <2>1 DEF Fates, SocketDid, SocketBooks
<1> HIDE DEF c
<1>7. /\ w \in SocketWorlds(p)
      /\ w.me = a.me /\ w.files = a.files /\ w.fate = c
      /\ w.loop.rules = a.loop.rules /\ w.loop.done = TRUE
  <2> DEFINE loop == [a.loop EXCEPT !.done = TRUE]
  <2>1. /\ a = [me |-> a.me, loop |-> a.loop, files |-> a.files, fate |-> a.fate]
        /\ a.loop \in Loops(SocketRuleNames, p)
    BY <1>5, SocketParts
  <2>2. /\ loop \in Loops(SocketRuleNames, p) /\ loop.rules = a.loop.rules
        /\ loop.done = TRUE
    BY <2>1 DEF Loops
  <2>3. w = [me |-> a.me, loop |-> loop, files |-> a.files, fate |-> c]
    BY <1>2, <2>1
  <2> HIDE DEF loop
  <2>4. w \in SocketWorlds(p)
    BY <1>5, <1>6, <2>2, <2>3 DEF SocketWorlds
  <2> QED BY <2>2, <2>3, <2>4
<1>8. SocketFault(a) <=> SocketFault(w)
  BY <1>7 DEF SocketFault
<1>9. SocketBooks(w)
  BY <1>5, <1>6, <1>7, <1>8 DEF SocketDid, SocketBooks
<1>10. SocketFault(s) => SocketFault(w)
  BY <1>1, <1>5, <1>8 DEF SocketDid, SocketFault
<1> QED BY <1>1, <1>5, <1>7, <1>9, <1>10 DEF SocketDid, w

\* What the socket's loop knows while it attends to the rules that poll() found,
\* with the files and the fault as they were at first.
SocketServing(s, fault, f) ==
  /\ SocketBooks(s) /\ SocketFrame(f, s.files)
  /\ fault => SocketFault(s)
  /\ ~s.loop.done => SocketAsked(s) /\ SocketPolled(s) /\ s.files = f

\* Attending to one rule of the socket.
LEMMA SocketAttended ==
  ASSUME NEW p, NEW s \in SocketWorlds(p), NEW fault \in BOOLEAN, NEW f,
         NEW r \in SocketRuleNames, r \in DOMAIN p, SocketServing(s, fault, f)
  PROVE  LET w == Socket!Loop!Attend(s, r)
         IN  w \in SocketWorlds(p) /\ SocketServing(w, fault, f)
<1> DEFINE w == Socket!Loop!Attend(s, r)
<1>1. /\ s.loop.done => w = s
      /\ ~s.loop.done /\ Err \notin s.loop.polled[r] /\ Socket!Loop!HangsUp(s, r)
           => w = Socket!Loop!Erased(Socket!SocketCancelled(s, r), r)
      /\ ~s.loop.done /\ Err \notin s.loop.polled[r] /\ ~Socket!Loop!HangsUp(s, r)
           /\ Socket!Loop!Ready(s, r)
           => w = Socket!Loop!Fired(s, r)
      /\ ~s.loop.done /\ Err \notin s.loop.polled[r] /\ ~Socket!Loop!HangsUp(s, r)
           /\ ~Socket!Loop!Ready(s, r)
           => w = s
  BY Zenon DEF Socket!Loop!Attend
<1> HIDE DEF w
<1>2. s.loop.polled = p
  BY SocketParts
<1>3. CASE s.loop.done
  BY <1>1, <1>3 DEF w
<1>4. CASE ~s.loop.done
  <2>1. /\ SocketBooks(s) /\ SocketAsked(s) /\ SocketPolled(s) /\ s.files = f
        /\ SocketFrame(f, s.files) /\ (fault => SocketFault(s))
    BY <1>4 DEF SocketServing
  <2>2. Err \notin s.loop.polled[r]
    BY <1>2, <2>1 DEF SocketPolled
  <2>3. CASE Socket!Loop!HangsUp(s, r)
    <3>1. r # "receive"
      BY <1>2, <2>1, <2>3 DEF SocketPolled, Socket!Loop!HangsUp
    <3>2. r # "push"
      BY <1>2, <2>1, <2>3 DEF SocketPolled, Socket!Loop!HangsUp, Socket!Loop!Events,
         Socket!Loop!Ready, Socket!SocketDirection
    <3>3. r = "read_inbound"
      BY <3>1, <3>2 DEF SocketRuleNames
    <3>4. s.files.toOwner.ended
      BY <1>2, <2>1, <2>3, <3>3 DEF SocketPolled, Socket!Loop!HangsUp
    <3>5. Socket!SocketCancelled(s, r) = s
      BY <3>2, Zenon DEF Socket!SocketCancelled
    <3>6. w = Socket!Loop!Erased(s, r)
      BY <1>1, <1>4, <2>2, <2>3, <3>5
    <3>7. w \in SocketWorlds(p) /\ Without(w, s, r)
      BY <3>6, SocketErasedDoes
    <3>8. SocketBooks(w) /\ SocketFault(w) = SocketFault(s)
      BY <2>1, <3>3, <3>4, <3>7 DEF SocketBooks, SocketFault, Without
    <3>9. SocketAsked(w) /\ SocketPolled(w)
      BY <2>1, <3>7 DEF SocketAsked, SocketPolled, Without
    <3> QED BY <2>1, <3>7, <3>8, <3>9 DEF SocketServing, Without, w
  <2>4. CASE ~Socket!Loop!HangsUp(s, r) /\ Socket!Loop!Ready(s, r)
    <3>1. /\ w \in SocketWorlds(p)
          /\ SocketBooks(w) /\ SocketFrame(s.files, w.files) /\ w.loop.done
          /\ SocketFault(s) => SocketFault(w)
      BY <1>1, <1>2, <1>4, <2>1, <2>2, <2>4, SocketFired
    <3> QED BY <2>1, <3>1 DEF SocketServing, w
  <2>5. CASE ~Socket!Loop!HangsUp(s, r) /\ ~Socket!Loop!Ready(s, r)
    BY <1>1, <1>4, <2>2, <2>5 DEF w
  <2> QED BY <2>3, <2>4, <2>5
<1> QED BY <1>3, <1>4

\* What the socket's loop does before poll() is one visit after another.
LEMMA SocketSweepIs ==
  ASSUME NEW R, NEW s, s.loop.rules \in Seq(R), NEW V, Unasked(s) \in V,
         \A v \in V : \A r \in R : Socket!Loop!Visit(v, r) \in V
  PROVE  \E f \in [0..Len(s.loop.rules) -> V] :
           /\ f[0] = Unasked(s)
           /\ \A i \in 1..Len(s.loop.rules) :
                f[i] = Socket!Loop!Visit(f[i - 1], s.loop.rules[i])
           /\ Socket!Loop!Sweep(s) = f[Len(s.loop.rules)]
<1> DEFINE rules == s.loop.rules
           n     == Len(rules)
           base  == Unasked(s)
           P     == (1..n) \X V
           step  == [x \in P |-> Socket!Loop!Visit(x[2], rules[x[1]])]
           g     == CHOOSE g : g = [k \in 0..Len(rules) |->
                      IF k = 0 THEN base ELSE Socket!Loop!Visit(g[k - 1], rules[k])]
<1>1. n \in Nat /\ \A i \in 1..n : rules[i] \in R
  OBVIOUS
<1>2. Socket!Loop!Sweep(s) = g[Len(rules)]
  BY Zenon DEF Socket!Loop!Sweep, Unasked
<1>3. base \in V
  OBVIOUS
<1> HIDE DEF base, rules
<1>4. ASSUME NEW i \in 1..n, NEW v \in V
      PROVE  /\ step[<<i, v>>] = Socket!Loop!Visit(v, rules[i])
             /\ step[<<i, v>>] \in V
  <2>1. <<i, v>> \in P /\ <<i, v>>[1] = i /\ <<i, v>>[2] = v
    OBVIOUS
  <2>2. step[<<i, v>>] = Socket!Loop!Visit(v, rules[i])
    BY <2>1
  <2> QED BY <1>1, <2>2
<1>5. PICK f \in [0..n -> V] : Iterates(f, n, base, step)
  <2>1. Closed(n, V, step)
    <3> HIDE DEF n, step
    <3> QED BY <1>4, Zenon DEF Closed
  <2> HIDE DEF n, P, step
  <2> QED BY <1>1, <1>3, <2>1, Recursion, Zenon
<1>6. f[0] = base /\ \A i \in 1..n : f[i] = Socket!Loop!Visit(f[i - 1], rules[i])
  <2>1. ASSUME NEW i \in 1..n
        PROVE  f[i] = Socket!Loop!Visit(f[i - 1], rules[i])
    <3>1. i - 1 \in 0..n
      BY <1>1
    <3>2. f[i - 1] \in V
      BY <3>1
    <3> HIDE DEF step
    <3> QED BY <1>4, <1>5, <3>2 DEF Iterates
  <2> QED BY <1>5, <2>1 DEF Iterates
<1>7. f = [k \in 0..Len(rules) |->
             IF k = 0 THEN base ELSE Socket!Loop!Visit(f[k - 1], rules[k])]
  <2>1. \A i \in 0..n : f[i] = IF i = 0 THEN base ELSE Socket!Loop!Visit(f[i - 1], rules[i])
    <3> SUFFICES ASSUME NEW i \in 0..n
                 PROVE  f[i] = IF i = 0 THEN base ELSE Socket!Loop!Visit(f[i - 1], rules[i])
      OBVIOUS
    <3>1. i = 0 \/ i \in 1..n
      BY <1>1
    <3> HIDE DEF n
    <3> QED BY <1>6, <3>1
  <2> QED BY <2>1
<1>8. g = [k \in 0..Len(rules) |->
             IF k = 0 THEN base ELSE Socket!Loop!Visit(g[k - 1], rules[k])]
  BY <1>7, Zenon
<1> HIDE DEF g
<1>9. g[0] = base /\ \A i \in 1..n : g[i] = Socket!Loop!Visit(g[i - 1], rules[i])
  <2>1. 0 \in 0..n /\ \A i \in 1..n : i \in 0..n /\ i # 0
    BY <1>1
  <2> HIDE DEF P, step
  <2> QED BY <1>8, <2>1
<1>10. \A i \in 0..n : g[i] \in V
  <2> DEFINE Good == {i \in 0..n : g[i] \in V}
  <2>1. 0 \in Good
    BY <1>1, <1>3, <1>9
  <2>2. ASSUME NEW i \in 1..n, i - 1 \in Good
        PROVE  i \in Good
    <3>1. g[i - 1] \in V /\ rules[i] \in R /\ i \in 0..n
      BY <1>1, <2>2
    <3> QED BY <1>9, <3>1
  <2> HIDE DEF Good
  <2>3. \A i \in 0..n : i \in Good
    BY <1>1, <2>1, <2>2, InductionUpTo
  <2> QED BY <2>3 DEF Good
<1>11. g \in [0..n -> V]
  BY <1>8, <1>10
<1> QED BY <1>2, <1>9, <1>11 DEF rules, base

\* What the socket's loop does after poll() is attending to one rule after another.
LEMMA SocketServeIs ==
  ASSUME NEW R, NEW s, s.loop.rules \in Seq(R), NEW V, s \in V,
         \A v \in V : \A r \in R : Socket!Loop!Attend(v, r) \in V
  PROVE  \E f \in [0..Len(s.loop.rules) -> V] :
           /\ f[0] = s
           /\ \A i \in 1..Len(s.loop.rules) :
                f[i] = Socket!Loop!Attend(f[i - 1], s.loop.rules[i])
           /\ Socket!Loop!Serve(s) = Reset(f[Len(s.loop.rules)])
<1> DEFINE rules == s.loop.rules
           n     == Len(rules)
           base  == s
           P     == (1..n) \X V
           step  == [x \in P |-> Socket!Loop!Attend(x[2], rules[x[1]])]
           g     == CHOOSE g : g = [k \in 0..Len(rules) |->
                      IF k = 0 THEN base ELSE Socket!Loop!Attend(g[k - 1], rules[k])]
<1>1. n \in Nat /\ \A i \in 1..n : rules[i] \in R
  OBVIOUS
<1>2. Socket!Loop!Serve(s) = Reset(g[Len(rules)])
  BY Zenon DEF Socket!Loop!Serve, Reset
<1>3. base \in V
  OBVIOUS
<1> HIDE DEF base, rules
<1>4. ASSUME NEW i \in 1..n, NEW v \in V
      PROVE  /\ step[<<i, v>>] = Socket!Loop!Attend(v, rules[i])
             /\ step[<<i, v>>] \in V
  <2>1. <<i, v>> \in P /\ <<i, v>>[1] = i /\ <<i, v>>[2] = v
    OBVIOUS
  <2>2. step[<<i, v>>] = Socket!Loop!Attend(v, rules[i])
    BY <2>1
  <2> QED BY <1>1, <2>2
<1>5. PICK f \in [0..n -> V] : Iterates(f, n, base, step)
  <2>1. Closed(n, V, step)
    <3> HIDE DEF n, step
    <3> QED BY <1>4, Zenon DEF Closed
  <2> HIDE DEF n, P, step
  <2> QED BY <1>1, <1>3, <2>1, Recursion, Zenon
<1>6. f[0] = base /\ \A i \in 1..n : f[i] = Socket!Loop!Attend(f[i - 1], rules[i])
  <2>1. ASSUME NEW i \in 1..n
        PROVE  f[i] = Socket!Loop!Attend(f[i - 1], rules[i])
    <3>1. i - 1 \in 0..n
      BY <1>1
    <3>2. f[i - 1] \in V
      BY <3>1
    <3> HIDE DEF step
    <3> QED BY <1>4, <1>5, <3>2 DEF Iterates
  <2> QED BY <1>5, <2>1 DEF Iterates
<1>7. f = [k \in 0..Len(rules) |->
             IF k = 0 THEN base ELSE Socket!Loop!Attend(f[k - 1], rules[k])]
  <2>1. \A i \in 0..n : f[i] = IF i = 0 THEN base ELSE Socket!Loop!Attend(f[i - 1], rules[i])
    <3> SUFFICES ASSUME NEW i \in 0..n
                 PROVE  f[i] = IF i = 0 THEN base ELSE Socket!Loop!Attend(f[i - 1], rules[i])
      OBVIOUS
    <3>1. i = 0 \/ i \in 1..n
      BY <1>1
    <3> HIDE DEF n
    <3> QED BY <1>6, <3>1
  <2> QED BY <2>1
<1>8. g = [k \in 0..Len(rules) |->
             IF k = 0 THEN base ELSE Socket!Loop!Attend(g[k - 1], rules[k])]
  BY <1>7, Zenon
<1> HIDE DEF g
<1>9. g[0] = base /\ \A i \in 1..n : g[i] = Socket!Loop!Attend(g[i - 1], rules[i])
  <2>1. 0 \in 0..n /\ \A i \in 1..n : i \in 0..n /\ i # 0
    BY <1>1
  <2> HIDE DEF P, step
  <2> QED BY <1>8, <2>1
<1>10. \A i \in 0..n : g[i] \in V
  <2> DEFINE Good == {i \in 0..n : g[i] \in V}
  <2>1. 0 \in Good
    BY <1>1, <1>3, <1>9
  <2>2. ASSUME NEW i \in 1..n, i - 1 \in Good
        PROVE  i \in Good
    <3>1. g[i - 1] \in V /\ rules[i] \in R /\ i \in 0..n
      BY <1>1, <2>2
    <3> QED BY <1>9, <3>1
  <2> HIDE DEF Good
  <2>3. \A i \in 0..n : i \in Good
    BY <1>1, <2>1, <2>2, InductionUpTo
  <2> QED BY <2>3 DEF Good
<1>11. g \in [0..n -> V]
  BY <1>8, <1>10
<1> QED BY <1>2, <1>9, <1>11 DEF rules, base

\* After poll() the socket's loop keeps the books.
LEMMA SocketServed ==
  ASSUME NEW p, NEW s \in SocketWorlds(p),
         SocketBooks(s), SocketAsked(s), SocketPolled(s), ~s.loop.done,
         ToSet(s.loop.rules) \subseteq DOMAIN p
  PROVE  LET w == Socket!Loop!Serve(s)
         IN  /\ w \in SocketWorlds(<<>>) /\ ~w.loop.done
             /\ SocketBooks(w) /\ SocketFrame(s.files, w.files)
             /\ SocketFault(s) => SocketFault(w)
<1> DEFINE R == SocketRuleNames \intersect DOMAIN p
           fault == SocketFault(s)
           V == {v \in SocketWorlds(p) : SocketServing(v, fault, s.files)}
           n == Len(s.loop.rules)
<1>1. s.loop \in Loops(SocketRuleNames, p) /\ s.files \in FileTables
  BY DEF SocketWorlds
<1>2. s.loop.rules \in Seq(R) /\ n \in Nat
  <2>1. s.loop.rules \in Seq(SocketRuleNames)
    BY <1>1 DEF Loops
  <2>2. \A i \in 1..Len(s.loop.rules) : s.loop.rules[i] \in DOMAIN p
    BY <2>1 DEF ToSet
  <2> QED BY <2>1, <2>2, SMTT(30)
<1>3. fault \in BOOLEAN
  BY DEF SocketFault
<1>4. s \in V
  BY <1>1, SocketFrameStays DEF SocketServing
<1> HIDE DEF fault
<1>5. \A v \in V : \A r \in R : Socket!Loop!Attend(v, r) \in V
  <2> SUFFICES ASSUME NEW v \in V, NEW r \in R PROVE Socket!Loop!Attend(v, r) \in V
    BY Zenon
  <2>1. v \in SocketWorlds(p) /\ SocketServing(v, fault, s.files)
        /\ r \in SocketRuleNames /\ r \in DOMAIN p
    OBVIOUS
  <2> QED BY <1>3, <2>1, SocketAttended
<1> HIDE DEF V
<1>6. PICK f \in [0..Len(s.loop.rules) -> V] :
        /\ f[0] = s
        /\ \A i \in 1..Len(s.loop.rules) :
             f[i] = Socket!Loop!Attend(f[i - 1], s.loop.rules[i])
        /\ Socket!Loop!Serve(s) = Reset(f[Len(s.loop.rules)])
  BY <1>2, <1>4, <1>5, SocketServeIs
<1> DEFINE v == f[n]
<1>7. v \in V /\ Socket!Loop!Serve(s) = Reset(v)
  BY <1>2, <1>6
<1> HIDE DEF v
<1>8. /\ v \in SocketWorlds(p) /\ SocketBooks(v) /\ SocketFrame(s.files, v.files)
      /\ fault => SocketFault(v)
  BY <1>7 DEF V, SocketServing
<1> DEFINE w == Socket!Loop!Serve(s)
           loop == [v.loop EXCEPT !.polled = <<>>, !.serviced = FALSE, !.done = FALSE]
<1>9. w = [v EXCEPT !.loop.polled = <<>>, !.loop.serviced = FALSE, !.loop.done = FALSE]
  BY <1>7 DEF Reset
<1> HIDE DEF w
<1>10. /\ v = [me |-> v.me, loop |-> v.loop, files |-> v.files, fate |-> v.fate]
       /\ v.loop \in Loops(SocketRuleNames, p)
  BY <1>8, SocketParts
<1>11. w = [me |-> v.me, loop |-> loop, files |-> v.files, fate |-> v.fate]
  BY <1>9, <1>10
<1>12. /\ loop \in Loops(SocketRuleNames, <<>>) /\ loop.rules = v.loop.rules
       /\ loop.done = FALSE
  BY <1>10 DEF Loops
<1> HIDE DEF loop
<1>13. w \in SocketWorlds(<<>>)
  BY <1>8, <1>11, <1>12 DEF SocketWorlds
<1>14. SocketFault(v) <=> SocketFault(w)
  BY <1>11 DEF SocketFault
<1>15. SocketBooks(w)
  BY <1>8, <1>11, <1>12, <1>14 DEF SocketBooks
<1> QED BY <1>8, <1>11, <1>12, <1>13, <1>14, <1>15 DEF w, fault

-----------------------------------------------------------------------------
(* Before poll().                                                           *)

\* A rule of the socket was looked at, and is not asked for in vain.
SocketLooked(s, r) ==
  \/ r \in s.loop.asked
  \/ r = "receive" /\ ~Socket!TcpActive(s.me.tcp)
  \/ r = "read_inbound" /\ s.me.tcp.inbound.buffer = <<>>
  \/ r = "push"

\* What a look at the rules of the socket does to it: nothing but to the loop.
SocketSame(s, w) ==
  /\ w.me = s.me /\ w.files = s.files /\ w.fate = s.fate
  /\ w.loop.done = s.loop.done /\ ToSet(w.loop.rules) \subseteq ToSet(s.loop.rules)

\* Cancelling the rule that pushes does nothing when its descriptor is at its end.
LEMMA SocketCancelledDoes ==
  ASSUME NEW p, NEW s \in SocketWorlds(p), SocketBooks(s), s.files.toTcp.eof
  PROVE  Socket!SocketCancelled(s, "push") = s
<1> DEFINE o == s.me.tcp.outbound
           c == WriterClose(o)
           w == Socket!SocketCancelled(s, "push")
<1>1. /\ s = [me |-> s.me, loop |-> s.loop, files |-> s.files, fate |-> s.fate]
      /\ s.me \in Sockets /\ s.me.tcp \in Tcps
      /\ s.me.outbound_shutdown \in BOOLEAN
  BY SocketParts
<1>2. o \in Streams /\ o.closed /\ s.me.outbound_shutdown = TRUE
  BY <1>1 DEF Tcps, SocketBooks
<1>3. c = o
  BY <1>2 DEF WriterClose, Streams, ByteStreams
<1>4. w = [s EXCEPT !.me.tcp.outbound = c, !.me.outbound_shutdown = TRUE]
  BY SocketOperators, Zenon DEF Socket!SocketCancelled
<1> HIDE DEF c, w
<1>5. w = [s EXCEPT !.me.tcp.outbound = o, !.me.outbound_shutdown = TRUE]
  BY <1>3, <1>4
<1>6. [s.me EXCEPT !.tcp.outbound = o, !.outbound_shutdown = TRUE] = s.me
  BY <1>1, <1>2 DEF Sockets, Tcps
<1>7. w = [me |-> [s.me EXCEPT !.tcp.outbound = o, !.outbound_shutdown = TRUE],
           loop |-> s.loop, files |-> s.files, fate |-> s.fate]
  BY <1>1, <1>5
<1> QED BY <1>1, <1>6, <1>7 DEF w

\* Looking at one rule of the socket.
LEMMA SocketVisited ==
  ASSUME NEW p, NEW s \in SocketWorlds(p), NEW r \in SocketRuleNames,
         SocketBooks(s), SocketAsked(s)
  PROVE  LET w == Socket!Loop!Visit(s, r)
         IN  /\ w \in SocketWorlds(p)
             /\ SocketBooks(w) /\ SocketAsked(w) /\ SocketSame(s, w)
             /\ SocketLooked(w, r)
             /\ \A q : SocketLooked(s, q) => SocketLooked(w, q)
<1> DEFINE w == Socket!Loop!Visit(s, r)
<1>1. /\ Socket!Loop!IsOver(s, r) => w = Socket!Loop!Erased(Socket!SocketCancelled(s, r), r)
      /\ ~Socket!Loop!IsOver(s, r) /\ Socket!SocketInterested(s, r)
           => w = [s EXCEPT !.loop.asked = @ \union {r}]
      /\ ~Socket!Loop!IsOver(s, r) /\ ~Socket!SocketInterested(s, r) => w = s
  BY Zenon DEF Socket!Loop!Visit
<1> HIDE DEF w
<1>2. CASE Socket!Loop!IsOver(s, r)
  <2>1. r = "push" /\ s.files.toTcp.eof
    BY <1>2 DEF Socket!Loop!IsOver, Socket!SocketClosed, Socket!SocketEof
  <2>2. Socket!SocketCancelled(s, r) = s
    BY <2>1, SocketCancelledDoes
  <2>3. w = Socket!Loop!Erased(s, r)
    BY <1>1, <1>2, <2>2
  <2>4. w \in SocketWorlds(p) /\ Without(w, s, r)
    BY <2>3, SocketErasedDoes
  <2>5. SocketBooks(w)
    BY <2>1, <2>4 DEF SocketBooks, SocketFault, Without
  <2>6. SocketAsked(w)
    BY <2>4 DEF SocketAsked, Without
  <2>7. SocketLooked(w, r) /\ \A q : SocketLooked(s, q) => SocketLooked(w, q)
    BY <2>1, <2>4 DEF SocketLooked, Without
  <2> QED BY <2>4, <2>5, <2>6, <2>7 DEF w, SocketSame, Without
<1>3. CASE ~Socket!Loop!IsOver(s, r) /\ Socket!SocketInterested(s, r)
  <2>1. w = [s EXCEPT !.loop.asked = @ \union {r}]
    BY <1>1, <1>3
  <2>2. /\ w \in SocketWorlds(p)
        /\ w.me = s.me /\ w.files = s.files /\ w.fate = s.fate
        /\ w.loop.rules = s.loop.rules /\ w.loop.asked = s.loop.asked \union {r}
        /\ w.loop.done = s.loop.done
    <3> DEFINE asked == s.loop.asked \union {r}
               loop  == [s.loop EXCEPT !.asked = asked]
    <3>1. /\ s = [me |-> s.me, loop |-> s.loop, files |-> s.files, fate |-> s.fate]
          /\ s.loop \in Loops(SocketRuleNames, p)
      BY SocketParts
    <3>2. asked \in SUBSET SocketRuleNames
      BY <3>1 DEF Loops
    <3>3. w = [s EXCEPT !.loop.asked = asked]
      BY <2>1
    <3> HIDE DEF asked
    <3>4. w = [me |-> s.me, loop |-> loop, files |-> s.files, fate |-> s.fate]
      BY <3>1, <3>3
    <3>5. /\ loop \in Loops(SocketRuleNames, p) /\ loop.rules = s.loop.rules
          /\ loop.asked = asked /\ loop.done = s.loop.done
      BY <3>1, <3>2 DEF Loops
    <3> HIDE DEF loop
    <3>6. w \in SocketWorlds(p)
      BY <3>4, <3>5 DEF SocketWorlds
    <3> QED BY <3>4, <3>5, <3>6 DEF asked
  <2>3. SocketBooks(w)
    BY <2>2 DEF SocketBooks, SocketFault
  <2>4. /\ r = "push" =>
             ~s.me.outbound_shutdown /\ AvailableCapacity(s.me.tcp.outbound) > 0
        /\ r = "read_inbound" =>
             \/ s.me.tcp.inbound.buffer # <<>>
             \/ IsFinished(s.me.tcp.inbound) \/ s.me.tcp.inbound.error
    BY <1>3, SocketRulesAre
  <2>5. SocketAsked(w)
    BY <2>2, <2>4 DEF SocketAsked
  <2>6. SocketLooked(w, r) /\ \A q : SocketLooked(s, q) => SocketLooked(w, q)
    BY <2>2 DEF SocketLooked
  <2> QED BY <2>2, <2>3, <2>5, <2>6 DEF w, SocketSame
<1>4. CASE ~Socket!Loop!IsOver(s, r) /\ ~Socket!SocketInterested(s, r)
  <2>1. w = s
    BY <1>1, <1>4
  <2>2. r = "receive" => ~Socket!TcpActive(s.me.tcp)
    BY <1>4, SocketRulesAre
  <2>3. r = "read_inbound" => s.me.tcp.inbound.buffer = <<>>
    BY <1>4, SocketRulesAre
  <2>4. SocketLooked(s, r)
    BY <2>2, <2>3 DEF SocketLooked, SocketRuleNames
  <2> QED BY <2>1, <2>4 DEF w, SocketSame
<1> QED BY <1>2, <1>3, <1>4

\* Before poll() the socket's loop keeps the books, and asks for what is needed.
LEMMA SocketSwept ==
  ASSUME NEW p, NEW s \in SocketWorlds(p), SocketBooks(s)
  PROVE  LET w == Socket!Loop!Sweep(s)
         IN  /\ w \in SocketWorlds(p)
             /\ SocketBooks(w) /\ SocketAsked(w) /\ SocketSame(s, w)
             /\ SocketIdle(w)
<1> DEFINE rules == s.loop.rules
           n     == Len(rules)
           base  == Unasked(s)
           V     == {v \in SocketWorlds(p) :
                       SocketBooks(v) /\ SocketAsked(v) /\ SocketSame(s, v)}
<1>1. /\ s = [me |-> s.me, loop |-> s.loop, files |-> s.files, fate |-> s.fate]
      /\ s.loop \in Loops(SocketRuleNames, p)
  BY SocketParts
<1>2. rules \in Seq(SocketRuleNames) /\ n \in Nat
  BY <1>1 DEF Loops
<1>3. /\ base \in SocketWorlds(p)
      /\ base.me = s.me /\ base.files = s.files /\ base.fate = s.fate
      /\ base.loop.rules = rules /\ base.loop.done = s.loop.done /\ base.loop.asked = {}
  <2> DEFINE loop == [s.loop EXCEPT !.asked = {}]
  <2>1. /\ loop \in Loops(SocketRuleNames, p)
        /\ loop.rules = rules /\ loop.done = s.loop.done /\ loop.asked = {}
    BY <1>1 DEF Loops
  <2> HIDE DEF rules
  <2>2. base = [s EXCEPT !.loop.asked = {}]
    BY DEF Unasked
  <2> HIDE DEF base
  <2>3. base = [me |-> s.me, loop |-> loop, files |-> s.files, fate |-> s.fate]
    BY <1>1, <2>2
  <2> HIDE DEF loop
  <2>4. base \in SocketWorlds(p)
    BY <2>1, <2>3 DEF SocketWorlds
  <2> QED BY <2>1, <2>3, <2>4
<1>4. base \in V
  <2> HIDE DEF base
  <2>1. SocketBooks(base)
    BY <1>3 DEF SocketBooks, SocketFault
  <2>2. SocketAsked(base)
    BY <1>3 DEF SocketAsked
  <2> QED BY <1>3, <2>1, <2>2 DEF SocketSame
<1>5. \A v \in V : \A r \in SocketRuleNames :
        /\ Socket!Loop!Visit(v, r) \in V
        /\ SocketLooked(Socket!Loop!Visit(v, r), r)
        /\ \A q : SocketLooked(v, q) => SocketLooked(Socket!Loop!Visit(v, r), q)
  <2> SUFFICES ASSUME NEW v \in V, NEW r \in SocketRuleNames
               PROVE  /\ Socket!Loop!Visit(v, r) \in V
                      /\ SocketLooked(Socket!Loop!Visit(v, r), r)
                      /\ \A q : SocketLooked(v, q)
                                  => SocketLooked(Socket!Loop!Visit(v, r), q)
    BY Zenon
  <2>1. /\ v \in SocketWorlds(p) /\ SocketBooks(v) /\ SocketAsked(v)
        /\ SocketSame(s, v)
    OBVIOUS
  <2> DEFINE w == Socket!Loop!Visit(v, r)
  <2>2. /\ w \in SocketWorlds(p)
        /\ SocketBooks(w) /\ SocketAsked(w) /\ SocketSame(v, w)
        /\ SocketLooked(w, r)
        /\ \A q : SocketLooked(v, q) => SocketLooked(w, q)
    BY <2>1, SocketVisited
  <2> HIDE DEF w
  <2>3. SocketSame(s, w)
    BY <2>1, <2>2 DEF SocketSame
  <2> QED BY <2>2, <2>3 DEF w
<1> HIDE DEF base, V
<1>6. PICK f \in [0..Len(s.loop.rules) -> V] :
        /\ f[0] = base
        /\ \A i \in 1..Len(s.loop.rules) :
             f[i] = Socket!Loop!Visit(f[i - 1], s.loop.rules[i])
        /\ Socket!Loop!Sweep(s) = f[Len(s.loop.rules)]
  <2>1. \A v \in V : \A r \in SocketRuleNames : Socket!Loop!Visit(v, r) \in V
    BY <1>5
  <2> QED BY <1>2, <1>4, <2>1, SocketSweepIs, Zenon DEF base
<1> DEFINE Good == {k \in 0..n : \A j \in 1..k : SocketLooked(f[k], rules[j])}
<1> HIDE DEF rules
<1>7. 0 \in Good
  BY <1>2
<1>8. ASSUME NEW k \in 1..n, k - 1 \in Good
      PROVE  k \in Good
  <2>1. /\ k \in 0..n /\ k - 1 \in 0..n /\ rules[k] \in SocketRuleNames
        /\ \A j \in 1..k : j = k \/ j \in 1..(k - 1)
    BY <1>2
  <2>2. f[k] = Socket!Loop!Visit(f[k - 1], rules[k]) /\ f[k - 1] \in V
    BY <1>6, <2>1 DEF rules
  <2>3. /\ SocketLooked(f[k], rules[k])
        /\ \A q : SocketLooked(f[k - 1], q) => SocketLooked(f[k], q)
    BY <1>5, <2>1, <2>2
  <2>4. \A j \in 1..(k - 1) : SocketLooked(f[k - 1], rules[j])
    BY <1>8
  <2>5. \A j \in 1..k : SocketLooked(f[k], rules[j])
    BY <2>1, <2>3, <2>4
  <2> QED BY <2>1, <2>5
<1>9. n \in Good
  <2> HIDE DEF Good
  <2>1. \A k \in 0..n : k \in Good
    BY <1>2, <1>7, <1>8, InductionUpTo
  <2> QED BY <1>2, <2>1
<1> DEFINE w == f[n]
<1>10. Socket!Loop!Sweep(s) = w /\ w \in V
  BY <1>2, <1>6 DEF rules
<1>11. \A r \in ToSet(rules) : SocketLooked(w, r)
  BY <1>2, <1>9 DEF ToSet
<1> HIDE DEF w
<1>12. w \in SocketWorlds(p) /\ SocketBooks(w) /\ SocketAsked(w) /\ SocketSame(s, w)
  BY <1>10 DEF V
<1>13. \A r \in ToSet(w.loop.rules) : SocketLooked(w, r)
  BY <1>11, <1>12 DEF SocketSame, rules
<1>14. SocketIdle(w)
  BY <1>12, <1>13 DEF SocketIdle, SocketLooked, SocketBooks
<1> QED BY <1>10, <1>12, <1>14

-----------------------------------------------------------------------------
(* poll().                                                                  *)

\* What poll() has to say of each descriptor.
LEMMA ConditionsAre ==
  ASSUME NEW f \in Files, NEW g \in Files
  PROVE  /\ LET c == Copy!SocketConditions(f, g)
            IN  /\ Err \notin c
                /\ In \in c => ReadCounts(f)
                /\ Out \in c => Len(g.data) < g.room
                /\ Hup \in c => In \in c /\ f.ended /\ g.ended
         /\ LET c == Socket!SocketConditions(f, g)
            IN  /\ Err \notin c
                /\ In \in c => ReadCounts(f)
                /\ Out \in c => Len(g.data) < g.room
                /\ Hup \in c => In \in c /\ f.ended /\ g.ended
         /\ LET c == Copy!TerminalConditions(f)
            IN  Err \notin c /\ (In \in c => ReadCounts(f))
         /\ LET c == Copy!PipeConditions(f)
            IN  Err \notin c /\ (In \in c => ReadCounts(f))
         /\ LET c == Copy!SinkConditions(f)
            IN  /\ Err \in c => f.broken
                /\ Out \in c => Len(f.data) < f.room
                /\ Hup \notin c
<1>1. /\ f.room \in Nat /\ Len(f.data) \in Nat /\ f.data \in Seq(Byte)
      /\ g.room \in Nat /\ Len(g.data) \in Nat
  BY DEF Files
<1>2. LET c == Copy!SocketConditions(f, g)
      IN  /\ Err \notin c
          /\ In \in c => ReadCounts(f)
          /\ Out \in c => Len(g.data) < g.room
          /\ Hup \in c => In \in c /\ f.ended /\ g.ended
  BY <1>1 DEF Copy!SocketConditions, ReadCounts
<1>3. LET c == Socket!SocketConditions(f, g)
      IN  /\ Err \notin c
          /\ In \in c => ReadCounts(f)
          /\ Out \in c => Len(g.data) < g.room
          /\ Hup \in c => In \in c /\ f.ended /\ g.ended
  BY <1>1 DEF Socket!SocketConditions, ReadCounts
<1>4. LET c == Copy!TerminalConditions(f)
      IN  Err \notin c /\ (In \in c => ReadCounts(f))
  BY DEF Copy!TerminalConditions, Copy!ReadCounts, ReadCounts
<1>5. LET c == Copy!PipeConditions(f)
      IN  Err \notin c /\ (In \in c => ReadCounts(f))
  BY DEF Copy!PipeConditions, ReadCounts
<1>6. LET c == Copy!SinkConditions(f)
      IN  /\ Err \in c => f.broken
          /\ Out \in c => Len(f.data) < f.room
          /\ Hup \notin c
  BY <1>1 DEF Copy!SinkConditions
<1> QED BY <1>2, <1>3, <1>4, <1>5, <1>6

\* What the owner's loop knows when poll() returned.
LEMMA CopyPollDoes ==
  ASSUME NEW p, NEW s \in CopyWorlds(p)
  PROVE  LET w == Copy!Loop!Poll(s)
         IN  /\ w \in CopyWorlds(w.loop.polled)
             /\ w.me = s.me /\ w.files = s.files /\ w.fate = s.fate
             /\ w.loop.rules = s.loop.rules /\ w.loop.asked = s.loop.asked
             /\ w.loop.done = s.loop.done
             /\ ToSet(w.loop.rules) \subseteq DOMAIN w.loop.polled
             /\ CopyPolled(w)
<1> DEFINE w == Copy!Loop!Poll(s)
           q == [r \in ToSet(s.loop.rules) |-> Copy!Loop!Revents(s, r)]
           loop == [s.loop EXCEPT !.polled = q]
<1>1. w = [s EXCEPT !.loop.polled = q]
  BY LoopOperators, Zenon DEF Copy!Loop!Poll
<1> HIDE DEF w
<1>2. /\ s = [me |-> s.me, loop |-> s.loop, files |-> s.files, fate |-> s.fate]
      /\ s.loop \in Loops(CopyRuleNames, p) /\ s.files \in FileTables
  BY CopyParts DEF CopyWorlds
<1>3. /\ DOMAIN q = ToSet(s.loop.rules)
      /\ \A r \in ToSet(s.loop.rules) : q[r] = Copy!Loop!Revents(s, r)
  OBVIOUS
<1> HIDE DEF q
<1>4. w = [me |-> s.me, loop |-> loop, files |-> s.files, fate |-> s.fate]
  BY <1>1, <1>2
<1>5. /\ loop \in Loops(CopyRuleNames, q) /\ loop.polled = q
      /\ loop.rules = s.loop.rules /\ loop.asked = s.loop.asked
      /\ loop.done = s.loop.done
  BY <1>2 DEF Loops
<1> HIDE DEF loop
<1>6. w \in CopyWorlds(q)
  BY <1>4, <1>5 DEF CopyWorlds
<1>7. ASSUME NEW r \in DOMAIN q
      PROVE  q[r] = Copy!CopyConditions(s, r)
                      \intersect (Copy!Loop!Events(s, r) \union {Hup, Err})
  BY <1>3, Zenon DEF Copy!Loop!Revents
<1>8. /\ s.files.input \in Files /\ s.files.output \in Files
      /\ s.files.toTcp \in Files /\ s.files.toOwner \in Files
  BY <1>2 DEF FileTables
<1>9. /\ LET c == Copy!CopyConditions(s, "read_stdin")
         IN  Err \notin c /\ (In \in c => ReadCounts(s.files.input))
      /\ LET c == Copy!CopyConditions(s, "write_stdout")
         IN  /\ Err \in c => s.files.output.broken
             /\ Out \in c => Len(s.files.output.data) < s.files.output.room
             /\ Hup \notin c
      /\ LET c == Copy!CopyConditions(s, "read_socket")
         IN  Err \notin c /\ (In \in c => ReadCounts(s.files.toOwner)) /\ (Hup \in c => In \in c)
      /\ LET c == Copy!CopyConditions(s, "write_socket")
         IN  Err \notin c /\ (Out \in c => Len(s.files.toTcp.data) < s.files.toTcp.room)
  BY <1>8, CopyRulesAre, ConditionsAre
<1>10. Copy!Loop!Events(s, "read_socket") = IF "read_socket" \in s.loop.asked THEN {In} ELSE {}
  BY DEF Copy!Loop!Events, Copy!CopyDirection
<1>11. /\ \A r \in CopyRuleNames :
            r \in DOMAIN q /\ Err \in q[r] => s.files.output.broken
       /\ "read_stdin" \in DOMAIN q /\ In \in q["read_stdin"] => ReadCounts(s.files.input)
       /\ "write_socket" \in DOMAIN q /\ Out \in q["write_socket"]
            => Len(s.files.toTcp.data) < s.files.toTcp.room
       /\ "read_socket" \in DOMAIN q /\ In \in q["read_socket"] => ReadCounts(s.files.toOwner)
       /\ ~("write_stdout" \in DOMAIN q /\ Hup \in q["write_stdout"])
       /\ "write_stdout" \in DOMAIN q /\ Out \in q["write_stdout"]
            => Len(s.files.output.data) < s.files.output.room
  BY <1>7, <1>9 DEF CopyRuleNames
<1>12. "read_socket" \in DOMAIN q /\ Hup \in q["read_socket"] /\ "read_socket" \in s.loop.asked
         => "read_socket" \in DOMAIN q /\ In \in q["read_socket"]
  BY <1>7, <1>9, <1>10
<1>13. CopyPolled(w)
  <2>1. w.loop.polled = q /\ w.loop.asked = s.loop.asked /\ w.files = s.files
    BY <1>4, <1>5
  <2> QED BY <1>11, <1>12, <2>1, Zenon DEF CopyPolled
<1> QED BY <1>3, <1>4, <1>5, <1>6, <1>13 DEF w

\* What the conditions of the socket's descriptors are.
LEMMA SocketConditionsAre ==
  ASSUME NEW s
  PROVE  /\ Socket!RuleConditions(s, "receive") \subseteq {In}
         /\ Socket!RuleConditions(s, "push")
              = Socket!SocketConditions(s.files.toTcp, s.files.toOwner)
         /\ Socket!RuleConditions(s, "read_inbound")
              = Socket!SocketConditions(s.files.toTcp, s.files.toOwner)
BY DEF Socket!RuleConditions

\* What the socket's loop knows when poll() returned.
LEMMA SocketPollDoes ==
  ASSUME NEW p, NEW s \in SocketWorlds(p),
         s.me.datagram = "byte" => ~s.me.tcp.inbound.closed
  PROVE  LET w == Socket!Loop!Poll(s)
         IN  /\ w \in SocketWorlds(w.loop.polled)
             /\ w.me = s.me /\ w.files = s.files /\ w.fate = s.fate
             /\ w.loop.rules = s.loop.rules /\ w.loop.asked = s.loop.asked
             /\ w.loop.done = s.loop.done
             /\ ToSet(w.loop.rules) \subseteq DOMAIN w.loop.polled
             /\ SocketPolled(w)
<1> DEFINE w == Socket!Loop!Poll(s)
           q == [r \in ToSet(s.loop.rules) |-> Socket!Loop!Revents(s, r)]
           loop == [s.loop EXCEPT !.polled = q]
<1>1. w = [s EXCEPT !.loop.polled = q]
  BY LoopOperators, Zenon DEF Socket!Loop!Poll
<1> HIDE DEF w
<1>2. /\ s = [me |-> s.me, loop |-> s.loop, files |-> s.files, fate |-> s.fate]
      /\ s.loop \in Loops(SocketRuleNames, p)
      /\ s.files.toTcp \in Files /\ s.files.toOwner \in Files
  BY SocketParts
<1>3. /\ DOMAIN q = ToSet(s.loop.rules)
      /\ \A r \in ToSet(s.loop.rules) : q[r] = Socket!Loop!Revents(s, r)
  OBVIOUS
<1> HIDE DEF q
<1>4. w = [me |-> s.me, loop |-> loop, files |-> s.files, fate |-> s.fate]
  BY <1>1, <1>2
<1>5. /\ loop \in Loops(SocketRuleNames, q) /\ loop.polled = q
      /\ loop.rules = s.loop.rules /\ loop.asked = s.loop.asked
      /\ loop.done = s.loop.done
  BY <1>2 DEF Loops
<1> HIDE DEF loop
<1>6. w \in SocketWorlds(q)
  BY <1>4, <1>5 DEF SocketWorlds
<1>7. ASSUME NEW r \in DOMAIN q
      PROVE  q[r] = Socket!RuleConditions(s, r)
                      \intersect (Socket!Loop!Events(s, r) \union {Hup, Err})
  BY <1>3, Zenon DEF Socket!Loop!Revents
<1>8. LET c == Socket!SocketConditions(s.files.toTcp, s.files.toOwner)
      IN  /\ Err \notin c
          /\ In \in c => ReadCounts(s.files.toTcp)
          /\ Out \in c => Len(s.files.toOwner.data) < s.files.toOwner.room
          /\ Hup \in c => In \in c /\ s.files.toTcp.ended /\ s.files.toOwner.ended
  BY <1>2, ConditionsAre
<1>9. Socket!Loop!Events(s, "push") = IF "push" \in s.loop.asked THEN {In} ELSE {}
  BY DEF Socket!Loop!Events, Socket!SocketDirection
<1>10. /\ \A r \in SocketRuleNames : ~(r \in DOMAIN q /\ Err \in q[r])
       /\ ~("receive" \in DOMAIN q /\ Hup \in q["receive"])
       /\ "push" \in DOMAIN q /\ In \in q["push"] => ReadCounts(s.files.toTcp)
       /\ "read_inbound" \in DOMAIN q /\ Out \in q["read_inbound"]
            => Len(s.files.toOwner.data) < s.files.toOwner.room
       /\ "read_inbound" \in DOMAIN q /\ Hup \in q["read_inbound"] => s.files.toOwner.ended
  BY <1>7, <1>8, SocketConditionsAre DEF SocketRuleNames
<1>11. "push" \in DOMAIN q /\ Hup \in q["push"] /\ "push" \in s.loop.asked
         => "push" \in DOMAIN q /\ In \in q["push"]
  BY <1>7, <1>8, <1>9, SocketConditionsAre
<1>12. SocketPolled(w)
  <2>1. w.loop.polled = q /\ w.loop.asked = s.loop.asked /\ w.files = s.files /\ w.me = s.me
    BY <1>4, <1>5
  <2> QED BY <1>10, <1>11, <2>1, Zenon DEF SocketPolled
<1> QED BY <1>3, <1>4, <1>5, <1>6, <1>12 DEF w

-----------------------------------------------------------------------------
(* The steps.                                                               *)

\* The two worlds and their parts.
LEMMA WorldsAre ==
  /\ CopyWorld.me = copy /\ CopyWorld.loop = copyLoop
  /\ CopyWorld.files = files /\ CopyWorld.fate = fate
  /\ SocketWorld.me = socket /\ SocketWorld.loop = socketLoop
  /\ SocketWorld.files = files /\ SocketWorld.fate = fate
  /\ SocketFault(SocketWorld) <=> Faulted
BY DEF CopyWorld, SocketWorld, SocketFault, Faulted

\* poll() of the owner.
LEMMA CopyPollKeeps ==
  ASSUME ProgramInv, CopyPoll
  PROVE  ProgramInv'
<1> DEFINE w == Copy!Loop!Poll(CopyWorld)
<1>1. /\ CopyWorld \in CopyWorlds(copyLoop.polled) /\ ~copyLoop.done
      /\ stage \notin {"joining", "over"} => CopyBooks(CopyWorld, Faulted)
      /\ CopyAsked(CopyWorld)
  BY DEF ProgramInv, OwnerInv
<1>2. /\ w \in CopyWorlds(w.loop.polled)
      /\ w.me = CopyWorld.me /\ w.files = CopyWorld.files /\ w.fate = CopyWorld.fate
      /\ w.loop.rules = CopyWorld.loop.rules /\ w.loop.asked = CopyWorld.loop.asked
      /\ w.loop.done = CopyWorld.loop.done
      /\ ToSet(w.loop.rules) \subseteq DOMAIN w.loop.polled
      /\ CopyPolled(w)
  BY <1>1, CopyPollDoes
<1>3. /\ copyTurn' = "serve" /\ copyLoop' = w.loop
      /\ UNCHANGED << stage, thread, abort, copy, peer, files, fate, outside >>
  BY DEF CopyPoll
<1> HIDE DEF w
<1>4. CopyWorld' = w
  BY <1>2, <1>3, WorldsAre, CopyParts DEF CopyWorld
<1>5. UNCHANGED << SocketWorld, Faulted >>
  BY <1>3 DEF SocketWorld, Faulted, peer
<1>6. OwnerInv'
  <2>1. stage' \notin {"joining", "over"} => CopyBooks(w, Faulted)
    BY <1>1, <1>2, <1>3 DEF CopyBooks
  <2>2. CopyAsked(w)
    BY <1>1, <1>2 DEF CopyAsked
  <2> QED BY <1>1, <1>2, <1>3, <1>4, <1>5, <2>1, <2>2, WorldsAre DEF OwnerInv
<1>7. ThreadInv'
  BY <1>3, <1>5 DEF ThreadInv, ProgramInv, peer
<1> QED BY <1>3, <1>5, <1>6, <1>7 DEF ProgramInv, outside

\* What others do to the files and to the fate keeps the books of the owner, ...
LEMMA CopyUndisturbed ==
  ASSUME NEW p, NEW s \in CopyWorlds(p), NEW w \in CopyWorlds(p),
         NEW fault \in BOOLEAN, NEW after \in BOOLEAN, fault => after,
         w.me = s.me, w.loop = s.loop,
         CopyBooks(s, fault), FilesInv(w.files),
         w.fate # "alive" => after, w.files.output.broken => after,
         w.files.toTcp.ended => s.files.toTcp.ended \/ after,
         w.files.toOwner.eof = s.files.toOwner.eof,
         w.files.output.closed = s.files.output.closed
  PROVE  CopyBooks(w, after)
BY DEF CopyBooks

\* There is still room where there was some.
LEMMA RoomStays ==
  ASSUME NEW f \in Files, NEW g \in Files, g.room = f.room, Len(g.data) <= Len(f.data),
         Len(f.data) < f.room
  PROVE  Len(g.data) < g.room
BY DEF Files

\* ... and what its loop knows, ...
LEMMA CopyStillPolled ==
  ASSUME NEW s, NEW w, w.loop = s.loop, s.files \in FileTables, w.files \in FileTables,
         s.files.output.broken => w.files.output.broken,
         ReadCounts(s.files.input) => ReadCounts(w.files.input),
         ReadCounts(s.files.toOwner) => ReadCounts(w.files.toOwner),
         w.files.toTcp.room = s.files.toTcp.room,
         Len(w.files.toTcp.data) <= Len(s.files.toTcp.data),
         w.files.output.room = s.files.output.room,
         Len(w.files.output.data) <= Len(s.files.output.data),
         CopyPolled(s)
  PROVE  CopyPolled(w)
<1>1. /\ s.files.toTcp \in Files /\ w.files.toTcp \in Files
      /\ s.files.output \in Files /\ w.files.output \in Files
  BY DEF FileTables
<1>2. /\ Len(s.files.toTcp.data) < s.files.toTcp.room
           => Len(w.files.toTcp.data) < w.files.toTcp.room
      /\ Len(s.files.output.data) < s.files.output.room
           => Len(w.files.output.data) < w.files.output.room
  BY <1>1, RoomStays, ZenonT(40)
<1> QED BY <1>2 DEF CopyPolled

\* ... the books of the socket ...
LEMMA SocketUndisturbed ==
  ASSUME NEW p, NEW s \in SocketWorlds(p), NEW w \in SocketWorlds(p),
         w.me = s.me, w.loop = s.loop,
         SocketBooks(s), FilesInv(w.files),
         SocketFault(s) => SocketFault(w), w.fate # "alive" => SocketFault(w),
         w.files.toTcp.eof = s.files.toTcp.eof,
         s.files.toOwner.ended => w.files.toOwner.ended,
         w.files.toOwner.ended =>
           s.files.toOwner.ended \/ IsFinished(s.me.tcp.inbound) \/ SocketFault(w)
  PROVE  SocketBooks(w)
BY DEF SocketBooks

\* ... and what its loop knows.
LEMMA SocketStillPolled ==
  ASSUME NEW s, NEW w, w.me = s.me, w.loop = s.loop,
         s.files \in FileTables, w.files \in FileTables,
         ReadCounts(s.files.toTcp) => ReadCounts(w.files.toTcp),
         s.files.toOwner.ended => w.files.toOwner.ended,
         w.files.toOwner.room = s.files.toOwner.room,
         Len(w.files.toOwner.data) <= Len(s.files.toOwner.data),
         SocketPolled(s)
  PROVE  SocketPolled(w)
<1>1. s.files.toOwner \in Files /\ w.files.toOwner \in Files
  BY DEF FileTables
<1>2. Len(s.files.toOwner.data) < s.files.toOwner.room
        => Len(w.files.toOwner.data) < w.files.toOwner.room
  BY <1>1, RoomStays, ZenonT(40)
<1> QED BY <1>2 DEF SocketPolled

\* What a step may do to the files.
FilesMay(f, g) ==
  /\ f.output.broken => g.output.broken
  /\ g.output.closed = f.output.closed
  /\ g.output.room = f.output.room /\ Len(g.output.data) <= Len(f.output.data)
  /\ ReadCounts(f.input) => ReadCounts(g.input)
  /\ g.toTcp.eof = f.toTcp.eof /\ g.toTcp.room = f.toTcp.room
  /\ Len(g.toTcp.data) <= Len(f.toTcp.data)
  /\ ReadCounts(f.toTcp) => ReadCounts(g.toTcp)
  /\ g.toOwner.eof = f.toOwner.eof /\ g.toOwner.room = f.toOwner.room
  /\ Len(g.toOwner.data) <= Len(f.toOwner.data)
  /\ ReadCounts(f.toOwner) => ReadCounts(g.toOwner)
  /\ f.toOwner.ended => g.toOwner.ended

\* A step of neither loop, that does to the files only what it may.
LEMMA FilesStepKeeps ==
  ASSUME ProgramInv, UNCHANGED << abort, owner, peer, fate >>,
         files' \in FileTables, FilesInv(files'), FilesMay(files, files'),
         files.toTcp.ended' => files.toTcp.ended \/ stage' \in {"joining", "over"} \/ Faulted,
         files.toOwner.ended'
           => files.toOwner.ended \/ IsFinished(socket.tcp.inbound) \/ Faulted,
         stage \in {"joining", "over"} => stage' \in {"joining", "over"}
  PROVE  OwnerInv' /\ ThreadInv' /\ (Faulted => Faulted')
<1> DEFINE s == CopyWorld
           w == CopyWorld'
           u == SocketWorld
           v == SocketWorld'
<1>1. /\ w = [me |-> copy, loop |-> copyLoop, files |-> files', fate |-> fate]
      /\ v = [me |-> socket, loop |-> socketLoop, files |-> files', fate |-> fate]
      /\ copyTurn' = copyTurn /\ socketTurn' = socketTurn
      /\ copyLoop' = copyLoop /\ socketLoop' = socketLoop
  BY DEF owner, peer, CopyWorld, SocketWorld
<1>2. /\ s = [me |-> copy, loop |-> copyLoop, files |-> files, fate |-> fate]
      /\ u = [me |-> socket, loop |-> socketLoop, files |-> files, fate |-> fate]
  BY DEF CopyWorld, SocketWorld
<1>3. /\ Faulted <=> socket.tcp.inbound.error \/ files.output.broken
      /\ Faulted' <=> socket.tcp.inbound.error \/ files.output.broken'
  BY DEF Faulted, peer
<1>4. OwnerInv /\ ThreadInv
  BY DEF ProgramInv
<1>5. /\ s \in CopyWorlds(copyLoop.polled) /\ u \in SocketWorlds(socketLoop.polled)
      /\ SocketBooks(u)
  BY <1>4 DEF OwnerInv, ThreadInv
<1>6. SocketFault(u) <=> Faulted
  BY WorldsAre
<1>7. SocketFault(v) <=> Faulted'
  BY <1>1, <1>3 DEF SocketFault
<1> HIDE DEF s, w, u, v
<1>8. w \in CopyWorlds(copyLoop.polled) /\ v \in SocketWorlds(socketLoop.polled)
  BY <1>1, <1>2, <1>5 DEF CopyWorlds, SocketWorlds
<1>9. s.files \in FileTables /\ w.files \in FileTables
  BY <1>5, <1>8 DEF CopyWorlds
<1>10. /\ w.me = s.me /\ w.loop = s.loop /\ w.fate = s.fate
       /\ v.me = u.me /\ v.loop = u.loop /\ v.fate = u.fate
       /\ s.files = files /\ w.files = files' /\ u.files = files /\ v.files = files'
       /\ s.fate = fate /\ u.fate = fate /\ u.me = socket
       /\ s.loop = copyLoop /\ u.loop = socketLoop
  BY <1>1, <1>2
<1>11. Faulted => Faulted'
  BY <1>3 DEF FilesMay
<1>12. s.fate # "alive" => Faulted
  BY <1>5, <1>6, <1>10 DEF SocketBooks
<1>13. Faulted \in BOOLEAN /\ Faulted' \in BOOLEAN
  BY DEF Faulted
<1>14. stage' \notin {"joining", "over"} => CopyBooks(w, Faulted')
  <2> SUFFICES ASSUME stage' \notin {"joining", "over"} PROVE CopyBooks(w, Faulted')
    OBVIOUS
  <2>1. CopyBooks(s, Faulted)
    BY <1>4 DEF OwnerInv, s
  <2>2. /\ w.files.toTcp.ended => s.files.toTcp.ended \/ Faulted'
        /\ w.files.output.broken => Faulted'
        /\ w.files.toOwner.eof = s.files.toOwner.eof
        /\ w.files.output.closed = s.files.output.closed
        /\ FilesInv(w.files)
    BY <1>3, <1>10, <1>11 DEF FilesMay
  <2>3. w.fate # "alive" => Faulted'
    BY <1>10, <1>11, <1>12
  <2> HIDE DEF Faulted
  <2> QED BY <1>5, <1>8, <1>10, <1>11, <1>13, <2>1, <2>2, <2>3, CopyUndisturbed
<1>15. CopyAsked(w) /\ (copyTurn = "serve" => CopyPolled(w))
  <2>1. CopyAsked(s) /\ (copyTurn = "serve" => CopyPolled(s))
    BY <1>4 DEF OwnerInv, s
  <2>2. CopyAsked(w)
    BY <1>10, <2>1 DEF CopyAsked
  <2> QED BY <1>9, <1>10, <2>1, <2>2, CopyStillPolled DEF FilesMay
<1>16. OwnerInv'
  BY <1>1, <1>4, <1>8, <1>14, <1>15 DEF OwnerInv, w
<1>17. SocketBooks(v)
  <2>1. /\ v.files.toTcp.eof = u.files.toTcp.eof
        /\ u.files.toOwner.ended => v.files.toOwner.ended
        /\ v.files.toOwner.ended =>
             u.files.toOwner.ended \/ IsFinished(u.me.tcp.inbound) \/ SocketFault(v)
        /\ FilesInv(v.files)
    BY <1>7, <1>10, <1>11 DEF FilesMay
  <2>2. v.fate # "alive" => SocketFault(v)
    BY <1>7, <1>10, <1>11, <1>12
  <2>3. SocketFault(u) => SocketFault(v)
    BY <1>6, <1>7, <1>11
  <2> QED BY <1>5, <1>8, <1>10, <2>1, <2>2, <2>3, SocketUndisturbed
<1>18. SocketAsked(v) /\ (socketTurn = "serve" => SocketPolled(v))
       /\ (socketTurn = "poll" => SocketIdle(v))
  <2>1. SocketAsked(u) /\ (socketTurn = "serve" => SocketPolled(u))
        /\ (socketTurn = "poll" => SocketIdle(u))
    BY <1>4 DEF ThreadInv, u
  <2>2. SocketAsked(v)
    BY <1>10, <2>1 DEF SocketAsked
  <2>3. socketTurn = "poll" => SocketIdle(v)
    BY <1>10, <2>1 DEF SocketIdle
  <2> QED BY <1>9, <1>10, <2>1, <2>2, <2>3, SocketStillPolled DEF FilesMay
<1>19. ThreadInv'
  BY <1>1, <1>4, <1>8, <1>17, <1>18 DEF ThreadInv, v
<1> QED BY <1>11, <1>16, <1>19

\* What the books say of the files.
LEMMA FilesAre ==
  ASSUME ProgramInv
  PROVE  /\ files \in FileTables /\ FilesInv(files)
         /\ files = [terminal |-> files.terminal, input |-> files.input,
                     output |-> files.output, toTcp |-> files.toTcp,
                     toOwner |-> files.toOwner]
         /\ files.input \in Files /\ files.output \in Files
         /\ files.toTcp \in Files /\ files.toOwner \in Files
         /\ FilesMay(files, files)
<1>1. SocketWorld \in SocketWorlds(socketLoop.polled) /\ SocketBooks(SocketWorld)
  BY DEF ProgramInv, ThreadInv
<1>2. SocketWorld.files \in FileTables /\ FilesInv(SocketWorld.files)
  BY <1>1 DEF SocketWorlds, SocketBooks
<1>3. files \in FileTables /\ FilesInv(files)
  BY <1>2, WorldsAre
<1>4. /\ files = [terminal |-> files.terminal, input |-> files.input,
                  output |-> files.output, toTcp |-> files.toTcp,
                  toOwner |-> files.toOwner]
      /\ files.input \in Files /\ files.output \in Files
      /\ files.toTcp \in Files /\ files.toOwner \in Files
  BY <1>3 DEF FileTables
<1>5. /\ Len(files.output.data) \in Nat /\ Len(files.toTcp.data) \in Nat
      /\ Len(files.toOwner.data) \in Nat
  BY <1>4 DEF Files
<1>6. FilesMay(files, files)
  BY <1>5 DEF FilesMay
<1> QED BY <1>3, <1>4, <1>6

\* A byte that is typed keeps the books.
LEMMA TypeKeeps ==
  ASSUME ProgramInv, Type
  PROVE  ProgramInv'
<1> DEFINE f == files.input
           x == Append(f.data, typed + 1)
<1>1. /\ typed < InputBytes /\ typed' = typed + 1
      /\ files' = [files EXCEPT !.input.data = x]
      /\ UNCHANGED << stage, thread, abort, owner, peer, fate >>
  BY DEF Type
<1>2. /\ typed \in Nat /\ Len(f.data) <= typed /\ f.room = InputBytes
      /\ f \in Files /\ f.data \in Seq(Byte)
  BY FilesAre DEF ProgramInv, Files
<1>3. x \in Seq(Byte) /\ Len(x) = Len(f.data) + 1 /\ x # <<>>
  <2>1. typed + 1 \in Byte
    BY <1>2 DEF Byte
  <2> HIDE DEF f
  <2> QED BY <1>2, <2>1, AppendProperties
<1> HIDE DEF x
<1>4. /\ files'.input = [f EXCEPT !.data = x]
      /\ files'.output = files.output /\ files'.toTcp = files.toTcp
      /\ files'.toOwner = files.toOwner /\ files'.terminal = files.terminal
      /\ files' = [files EXCEPT !.input = [f EXCEPT !.data = x]]
  BY <1>1, FilesAre
<1>5. Len(x) <= f.room /\ Len(x) <= typed'
  <2>1. Len(f.data) \in Nat /\ InputBytes \in Nat
    BY <1>2, ProgramAssumption
  <2> QED BY <1>1, <1>2, <1>3, <2>1
<1>6. /\ [f EXCEPT !.data = x] \in Files /\ [f EXCEPT !.data = x].data = x
      /\ [f EXCEPT !.data = x].room = f.room
  BY <1>2, <1>3, <1>5 DEF Files
<1>7. files' \in FileTables
  BY <1>4, <1>6, FilesAre DEF FileTables
<1>8. FilesInv(files') /\ FilesMay(files, files')
  BY <1>3, <1>4, <1>6, FilesAre DEF FilesInv, FilesMay, ReadCounts
<1>9. OwnerInv' /\ ThreadInv' /\ (Faulted => Faulted')
  BY <1>1, <1>4, <1>7, <1>8, FilesStepKeeps
<1>10. Len(files'.input.data) <= typed' /\ files'.input.room = InputBytes /\ typed' \in Nat
  <2> DEFINE g == [f EXCEPT !.data = x]
  <2>1. /\ files'.input = g /\ g.data = x /\ g.room = InputBytes
        /\ typed' \in Nat /\ Len(x) <= typed'
    BY <1>1, <1>2, <1>4, <1>5, <1>6
  <2> HIDE DEF g, f
  <2> QED BY <2>1
<1> QED BY <1>1, <1>4, <1>9, <1>10 DEF ProgramInv

\* So does the end of standard input, ...
LEMMA EndInputKeeps ==
  ASSUME ProgramInv, EndInput
  PROVE  ProgramInv'
<1> DEFINE f == files.input
           g == Shutdown(f)
<1>1. /\ files' = [files EXCEPT !.input = g]
      /\ UNCHANGED << stage, thread, abort, owner, peer, fate, typed >>
  BY DEF EndInput, outside
<1>2. /\ g \in Files /\ g.data = f.data /\ g.room = f.room
      /\ ReadCounts(f) => ReadCounts(g)
  BY FilesAre DEF Shutdown, Files, ReadCounts
<1> HIDE DEF g
<1>3. /\ files'.input = g
      /\ files'.output = files.output /\ files'.toTcp = files.toTcp
      /\ files'.toOwner = files.toOwner /\ files'.terminal = files.terminal
  BY <1>1, FilesAre
<1>4. files' \in FileTables
  BY <1>1, <1>2, FilesAre DEF FileTables
<1>5. FilesInv(files') /\ FilesMay(files, files')
  BY <1>2, <1>3, FilesAre DEF FilesInv, FilesMay
<1>6. OwnerInv' /\ ThreadInv' /\ (Faulted => Faulted')
  BY <1>1, <1>3, <1>4, <1>5, FilesStepKeeps
<1> QED BY <1>1, <1>2, <1>3, <1>6 DEF ProgramInv

\* ... a byte that is taken from standard output ...
LEMMA TakeKeeps ==
  ASSUME ProgramInv, Take
  PROVE  ProgramInv'
<1> DEFINE f == files.output
           x == Tail(f.data)
           g == [f EXCEPT !.data = x]
<1>1. /\ f.data # <<>>
      /\ files' = [files EXCEPT !.output.data = x]
      /\ UNCHANGED << stage, thread, abort, owner, peer, fate, typed >>
  BY DEF Take
<1>2. f \in Files /\ f.data \in Seq(Byte) /\ Len(f.data) <= f.room /\ f.room \in Nat
  BY FilesAre DEF Files
<1>3. x \in Seq(Byte) /\ Len(x) = Len(f.data) - 1 /\ Len(f.data) \in Nat
  BY <1>1, <1>2
<1> HIDE DEF x
<1>4. /\ g \in Files /\ g.data = x /\ g.room = f.room /\ g.broken = f.broken
      /\ g.closed = f.closed /\ g.ended = f.ended
  BY <1>2, <1>3 DEF Files
<1>5. files' = [files EXCEPT !.output = g]
  BY <1>1, FilesAre
<1> HIDE DEF g
<1>6. /\ files'.output = g
      /\ files'.input = files.input /\ files'.toTcp = files.toTcp
      /\ files'.toOwner = files.toOwner /\ files'.terminal = files.terminal
  BY <1>5, FilesAre
<1>7. files' \in FileTables
  BY <1>4, <1>5, FilesAre DEF FileTables
<1>8. Len(g.data) <= Len(f.data)
  BY <1>3, <1>4
<1>9. FilesInv(files') /\ FilesMay(files, files')
  BY <1>4, <1>6, <1>8, FilesAre DEF FilesInv, FilesMay
<1>10. OwnerInv' /\ ThreadInv' /\ (Faulted => Faulted')
  BY <1>1, <1>6, <1>7, <1>9, FilesStepKeeps
<1> QED BY <1>1, <1>6, <1>10 DEF ProgramInv

\* ... and a reader of standard output that leaves.
LEMMA BreakOutputKeeps ==
  ASSUME ProgramInv, BreakOutput
  PROVE  ProgramInv'
<1> DEFINE f == files.output
           g == [f EXCEPT !.broken = TRUE]
<1>1. /\ files' = [files EXCEPT !.output.broken = TRUE]
      /\ UNCHANGED << stage, thread, abort, owner, peer, fate, typed >>
  BY DEF BreakOutput, outside
<1>2. f \in Files
  BY FilesAre
<1>3. /\ g \in Files /\ g.data = f.data /\ g.room = f.room /\ g.broken = TRUE
      /\ g.closed = f.closed /\ g.ended = f.ended
  BY <1>2 DEF Files
<1>4. files' = [files EXCEPT !.output = g]
  BY <1>1, FilesAre
<1> HIDE DEF g
<1>5. /\ files'.output = g
      /\ files'.input = files.input /\ files'.toTcp = files.toTcp
      /\ files'.toOwner = files.toOwner /\ files'.terminal = files.terminal
  BY <1>4, FilesAre
<1>6. files' \in FileTables
  BY <1>3, <1>4, FilesAre DEF FileTables
<1>7. FilesInv(files') /\ FilesMay(files, files')
  BY <1>3, <1>5, FilesAre DEF FilesInv, FilesMay
<1>8. OwnerInv' /\ ThreadInv' /\ (Faulted => Faulted')
  BY <1>1, <1>5, <1>6, <1>7, FilesStepKeeps
<1> QED BY <1>1, <1>5, <1>8 DEF ProgramInv

\* Shutting the pair down.
LEMMA PairShutDoes ==
  ASSUME ProgramInv, files' = PairShut
  PROVE  /\ files' \in FileTables /\ FilesInv(files') /\ FilesMay(files, files')
         /\ files'.toOwner.ended = TRUE /\ files'.toTcp.ended = TRUE
         /\ files'.input = files.input
<1> DEFINE a == Shutdown(files.toTcp)
           b == Shutdown(files.toOwner)
<1>1. /\ a \in Files /\ a.ended = TRUE /\ a.broken = files.toTcp.broken
      /\ a.eof = files.toTcp.eof /\ a.room = files.toTcp.room /\ a.data = files.toTcp.data
      /\ b \in Files /\ b.ended = TRUE /\ b.broken = files.toOwner.broken
      /\ b.eof = files.toOwner.eof /\ b.room = files.toOwner.room
      /\ b.data = files.toOwner.data
  BY FilesAre DEF Shutdown, Files
<1>2. files' = [files EXCEPT !.toTcp = a, !.toOwner = b]
  BY DEF PairShut
<1> HIDE DEF a, b
<1>3. /\ files'.toTcp = a /\ files'.toOwner = b
      /\ files'.output = files.output /\ files'.input = files.input
      /\ files'.terminal = files.terminal
  BY <1>2, FilesAre
<1>4. files' \in FileTables
  BY <1>1, <1>2, FilesAre DEF FileTables
<1>5. ReadCounts(a) /\ ReadCounts(b)
  BY <1>1 DEF ReadCounts
<1>6. FilesInv(files') /\ FilesMay(files, files')
  BY <1>1, <1>3, <1>5, FilesAre DEF FilesInv, FilesMay
<1> QED BY <1>1, <1>3, <1>4, <1>6

\* wait_until_closed() keeps the books: the socket has nothing left to write.
LEMMA WaitUntilClosedKeeps ==
  ASSUME ProgramInv, WaitUntilClosed
  PROVE  ProgramInv'
<1>1. /\ stage = "closing" /\ files' = PairShut /\ stage' = "joining"
      /\ UNCHANGED << thread, abort, owner, peer, fate, typed >>
  BY DEF WaitUntilClosed, outside
<1>2. /\ files' \in FileTables /\ FilesInv(files') /\ FilesMay(files, files')
      /\ files'.toOwner.ended = TRUE /\ files'.toTcp.ended = TRUE
      /\ files'.input = files.input
  BY <1>1, PairShutDoes
<1>3. files.toOwner.ended \/ Faulted
  BY <1>1 DEF ProgramInv
<1>4. OwnerInv' /\ ThreadInv' /\ (Faulted => Faulted')
  BY <1>1, <1>2, <1>3, FilesStepKeeps
<1> QED BY <1>1, <1>2, <1>4 DEF ProgramInv

\* So does the end of the thread: it has nothing left to do, or there was a fault.
LEMMA FinishKeeps ==
  ASSUME ProgramInv, Finish
  PROVE  ProgramInv'
<1> DEFINE t == socket.tcp
<1>1. /\ socketTurn = "poll" /\ (Socket!Loop!NothingToPoll(SocketWorld) \/ abort)
      /\ thread = "running" /\ files' = PairShut /\ thread' = "ended"
      /\ UNCHANGED << stage, abort, owner, peer, fate, typed >>
  BY DEF Finish, CanFinish, outside
<1>2. /\ files' \in FileTables /\ FilesInv(files') /\ FilesMay(files, files')
      /\ files'.toOwner.ended = TRUE /\ files'.toTcp.ended = TRUE
      /\ files'.input = files.input
  BY <1>1, PairShutDoes
<1>3. /\ SocketIdle(SocketWorld) /\ SocketBooks(SocketWorld)
      /\ SocketWorld.loop.asked = {}
  BY <1>1, WorldsAre DEF ProgramInv, ThreadInv, Socket!Loop!NothingToPoll
<1>4. /\ ~Socket!TcpActive(t)
      /\ "read_inbound" \in ToSet(socketLoop.rules) => t.inbound.buffer = <<>>
  BY <1>3, WorldsAre DEF SocketIdle
<1>5. /\ t.outbound.error => t.inbound.error
      /\ t.outbound.closed <=> files.toTcp.eof
      /\ files.toTcp.eof => files.toTcp.ended
      /\ "read_inbound" \notin ToSet(socketLoop.rules) => files.toOwner.ended
  BY <1>3, WorldsAre DEF SocketBooks, FilesInv
<1>6. \/ t.inbound.error
      \/ IsFinished(t.outbound) /\ t.inbound.closed
  BY <1>4, <1>5, SocketOperators DEF Socket!TcpActive, Socket!SenderActive,
     Socket!ReceiverActive
<1>7. files.toTcp.ended \/ Faulted
  BY <1>5, <1>6 DEF IsFinished, Faulted
<1>8. files.toOwner.ended \/ IsFinished(t.inbound) \/ Faulted
  BY <1>4, <1>5, <1>6 DEF IsFinished, Faulted
<1>9. OwnerInv' /\ ThreadInv' /\ (Faulted => Faulted')
  BY <1>1, <1>2, <1>7, <1>8, FilesStepKeeps
<1> QED BY <1>1, <1>2, <1>9 DEF ProgramInv

\* The owner that joined the thread has nothing left to do.
LEMMA JoinKeeps ==
  ASSUME ProgramInv, Join
  PROVE  ProgramInv'
<1>1. /\ stage = "joining" /\ thread = "ended" /\ stage' = "over"
      /\ UNCHANGED << thread, abort, owner, peer, files, fate, typed >>
  BY DEF Join, outside
<1>2. /\ files' \in FileTables /\ FilesInv(files') /\ FilesMay(files, files')
      /\ files.toOwner.ended' = files.toOwner.ended
      /\ files.toTcp.ended' = files.toTcp.ended
  BY <1>1, FilesAre
<1>3. OwnerInv' /\ ThreadInv' /\ (Faulted => Faulted')
  BY <1>1, <1>2, FilesStepKeeps
<1> QED BY <1>1, <1>3 DEF ProgramInv

\* poll() of the socket.
LEMMA SocketPollKeeps ==
  ASSUME ProgramInv,
         NEW datagram \in {"none"} \union Socket!Datagrams(socket.tcp), SocketPoll(datagram)
  PROVE  ProgramInv'
<1> DEFINE s == Found(datagram)
           w == Socket!Loop!Poll(s)
           me == [socket EXCEPT !.datagram = datagram]
<1>1. /\ SocketWorld \in SocketWorlds(socketLoop.polled) /\ ~socketLoop.done
      /\ SocketBooks(SocketWorld) /\ SocketAsked(SocketWorld)
  BY DEF ProgramInv, ThreadInv
<1>2. /\ socketTurn' = "serve" /\ socket' = s.me /\ socketLoop' = w.loop
      /\ UNCHANGED << stage, thread, abort, owner, files, fate, outside >>
  BY DEF SocketPoll
<1>3. s = [me |-> me, loop |-> socketLoop, files |-> files, fate |-> fate]
  BY DEF Found, SocketWorld
<1> HIDE DEF s
<1>4. /\ datagram \in Segments
      /\ datagram = "byte" => ~socket.tcp.inbound.closed
  BY DEF Socket!Datagrams, Segments
<1>5. /\ me \in Sockets /\ me.tcp = socket.tcp /\ me.datagram = datagram
      /\ me.outbound_shutdown = socket.outbound_shutdown
  <2>1. socket \in Sockets
    BY <1>1, SocketParts, WorldsAre
  <2> QED BY <1>4, <2>1 DEF Sockets
<1> HIDE DEF me
<1>6. s \in SocketWorlds(socketLoop.polled)
  BY <1>1, <1>3, <1>5, WorldsAre DEF SocketWorlds
<1>7. /\ w \in SocketWorlds(w.loop.polled)
      /\ w.me = s.me /\ w.files = s.files /\ w.fate = s.fate
      /\ w.loop.rules = s.loop.rules /\ w.loop.asked = s.loop.asked
      /\ w.loop.done = s.loop.done
      /\ ToSet(w.loop.rules) \subseteq DOMAIN w.loop.polled
      /\ SocketPolled(w)
  BY <1>3, <1>4, <1>5, <1>6, SocketPollDoes
<1> HIDE DEF w
<1>8. SocketWorld' = w
  BY <1>2, <1>3, <1>7, SocketParts DEF SocketWorld
<1>9. CopyWorld' = CopyWorld /\ Faulted' = Faulted
  BY <1>2, <1>3, <1>5 DEF CopyWorld, Faulted, owner
<1>10. SocketBooks(w) /\ SocketAsked(w)
  BY <1>1, <1>3, <1>5, <1>7, WorldsAre DEF SocketBooks, SocketAsked, SocketFault
<1>11. ThreadInv'
  BY <1>1, <1>2, <1>3, <1>7, <1>8, <1>10, WorldsAre DEF ThreadInv
<1>12. OwnerInv'
  BY <1>2, <1>9 DEF OwnerInv, ProgramInv, owner
<1> QED BY <1>2, <1>9, <1>11, <1>12 DEF ProgramInv, outside

\* The end of a turn of the socket keeps the books, if what it did kept those of
\* the socket.
LEMMA TurnEndsKeeps ==
  ASSUME ProgramInv, NEW p, NEW w \in SocketWorlds(p), TurnEnds(w),
         SocketBooks(w), SocketAsked(w), SocketIdle(w), ~w.loop.done,
         SocketFrame(files, w.files), Faulted => SocketFault(w)
  PROVE  ProgramInv'
<1> DEFINE me == [w.me EXCEPT !.datagram = "none"]
           s  == CopyWorld
           v  == CopyWorld'
           u  == SocketWorld'
<1>1. /\ socketTurn' = "poll" /\ socketLoop' = w.loop /\ socket' = me
      /\ files' = w.files /\ fate' = w.fate
      /\ UNCHANGED << abort, owner, outside >>
      /\ \/ stage' = stage /\ thread' = thread
         \/ stage' = "copying" /\ thread = "none" /\ thread' = "running"
  BY DEF TurnEnds
<1>2. /\ me \in Sockets /\ me.tcp = w.me.tcp
      /\ me.outbound_shutdown = w.me.outbound_shutdown
  BY SocketParts DEF Sockets, Segments
<1> HIDE DEF me
<1>3. u = [me |-> me, loop |-> w.loop, files |-> w.files, fate |-> w.fate]
  BY <1>1 DEF SocketWorld
<1>4. v = [me |-> copy, loop |-> copyLoop, files |-> w.files, fate |-> w.fate]
  BY <1>1 DEF CopyWorld, owner
<1>5. /\ s = [me |-> copy, loop |-> copyLoop, files |-> files, fate |-> fate]
      /\ s \in CopyWorlds(copyLoop.polled)
  BY DEF CopyWorld, ProgramInv, OwnerInv
<1>6. Faulted' <=> SocketFault(w)
  BY <1>1, <1>2 DEF Faulted, SocketFault
<1> HIDE DEF s, u, v
<1>7. u \in SocketWorlds(w.loop.polled)
  BY <1>2, <1>3, SocketParts DEF SocketWorlds
<1>8. SocketBooks(u) /\ SocketAsked(u) /\ SocketIdle(u)
  BY <1>2, <1>3 DEF SocketBooks, SocketAsked, SocketIdle, SocketFault
<1>9. ThreadInv'
  BY <1>1, <1>7, <1>8 DEF ThreadInv, u
<1>10. v \in CopyWorlds(copyLoop.polled)
  BY <1>4, <1>5, SocketParts DEF CopyWorlds
<1>11. /\ v.me = s.me /\ v.loop = s.loop /\ v.files = w.files /\ v.fate = w.fate
       /\ s.files = files /\ s.loop = copyLoop
  BY <1>4, <1>5
<1>12. Faulted \in BOOLEAN /\ Faulted' \in BOOLEAN
  BY DEF Faulted
<1>13. stage' \notin {"joining", "over"} => CopyBooks(v, Faulted')
  <2> SUFFICES ASSUME stage' \notin {"joining", "over"} PROVE CopyBooks(v, Faulted')
    OBVIOUS
  <2>1. stage \notin {"joining", "over"}
    BY <1>1 DEF ProgramInv
  <2>2. CopyBooks(s, Faulted)
    BY <2>1 DEF ProgramInv, OwnerInv, s
  <2>3. FilesInv(v.files) /\ (v.fate # "alive" => Faulted')
    BY <1>6, <1>11 DEF SocketBooks
  <2>4. v.files.output.broken => Faulted'
    BY <1>6, <1>11 DEF SocketFault
  <2>5. /\ v.files.toTcp.ended => s.files.toTcp.ended \/ Faulted'
        /\ v.files.toOwner.eof = s.files.toOwner.eof
        /\ v.files.output.closed = s.files.output.closed
    BY <1>11 DEF SocketFrame
  <2>6. Faulted => Faulted'
    BY <1>6
  <2> HIDE DEF Faulted
  <2> QED BY <1>5, <1>10, <1>11, <1>12, <2>2, <2>3, <2>4, <2>5, <2>6, CopyUndisturbed
<1>14. CopyAsked(v) /\ (copyTurn = "serve" => CopyPolled(v))
  <2>1. CopyAsked(s) /\ (copyTurn = "serve" => CopyPolled(s))
    BY DEF ProgramInv, OwnerInv, s
  <2>2. CopyAsked(v)
    BY <1>11, <2>1 DEF CopyAsked
  <2>3. s.files \in FileTables /\ v.files \in FileTables
    BY <1>5, <1>10 DEF CopyWorlds
  <2>4. Len(s.files.output.data) <= Len(s.files.output.data)
    BY <2>3 DEF FileTables, Files
  <2> QED BY <1>11, <2>1, <2>2, <2>3, <2>4, CopyStillPolled DEF SocketFrame
<1>15. OwnerInv'
  <2>1. copyTurn' = copyTurn /\ copyLoop' = copyLoop
    BY <1>1 DEF owner
  <2> QED BY <1>10, <1>13, <1>14, <2>1 DEF ProgramInv, OwnerInv, v
<1>16. stage' \in {"closing", "joining", "over"} => files'.toOwner.ended \/ Faulted'
  BY <1>1, <1>6 DEF ProgramInv, SocketFrame
<1>17. /\ ~abort' /\ typed' = typed /\ files'.input = files.input
       /\ stage' \in {"connecting", "listening", "copying", "closing", "joining", "over"}
       /\ thread' = "none" => stage' \in {"connecting", "listening"}
  BY <1>1 DEF ProgramInv, SocketFrame, outside
<1> QED BY <1>9, <1>15, <1>16, <1>17 DEF ProgramInv

\* What the socket does after poll().
LEMMA SocketServeKeeps ==
  ASSUME ProgramInv, SocketServe
  PROVE  ProgramInv'
<1> DEFINE v == Socket!Loop!Serve(SocketWorld)
           w == Socket!Loop!Sweep(v)
<1>1. /\ SocketWorld \in SocketWorlds(socketLoop.polled) /\ ~socketLoop.done
      /\ SocketBooks(SocketWorld) /\ SocketAsked(SocketWorld) /\ SocketPolled(SocketWorld)
      /\ ToSet(socketLoop.rules) \subseteq DOMAIN socketLoop.polled
  BY DEF ProgramInv, ThreadInv, SocketServe
<1>2. TurnEnds(w)
  BY DEF ProgramInv, SocketServe
<1>3. /\ v \in SocketWorlds(<<>>) /\ ~v.loop.done
      /\ SocketBooks(v) /\ SocketFrame(SocketWorld.files, v.files)
      /\ SocketFault(SocketWorld) => SocketFault(v)
  BY <1>1, SocketServed, WorldsAre
<1> HIDE DEF v
<1>4. /\ w \in SocketWorlds(<<>>)
      /\ SocketBooks(w) /\ SocketAsked(w) /\ SocketSame(v, w)
      /\ SocketIdle(w)
  BY <1>3, SocketSwept
<1> HIDE DEF w
<1>5. /\ SocketFrame(files, w.files) /\ ~w.loop.done
      /\ Faulted => SocketFault(w)
  BY <1>3, <1>4, WorldsAre DEF SocketSame, SocketFault
<1> QED BY <1>2, <1>4, <1>5, TurnEndsKeeps

\* The time that passes until the peer lingered long enough.
LEMMA ElapseKeeps ==
  ASSUME ProgramInv, Elapse
  PROVE  ProgramInv'
<1> DEFINE s == [SocketWorld EXCEPT !.me = Elapsed]
           w == Socket!Loop!Sweep(s)
           t == [socket.tcp EXCEPT !.elapsed = TRUE]
<1>1. /\ SocketWorld \in SocketWorlds(socketLoop.polled) /\ ~socketLoop.done
      /\ SocketBooks(SocketWorld)
  BY DEF ProgramInv, ThreadInv
<1>2. TurnEnds(w)
  BY DEF Elapse
<1>3. s = [me |-> Elapsed, loop |-> socketLoop, files |-> files, fate |-> fate]
  BY DEF SocketWorld
<1> HIDE DEF s
<1>4. socket \in Sockets /\ socket.tcp \in Tcps
  BY <1>1, SocketParts, WorldsAre
<1>5. /\ t \in Tcps /\ t.inbound = socket.tcp.inbound /\ t.outbound = socket.tcp.outbound
      /\ t.fin_sent = socket.tcp.fin_sent /\ t.in_flight = socket.tcp.in_flight
  BY <1>4 DEF Tcps
<1>6. Elapsed = [socket EXCEPT !.tcp = t]
  BY <1>4 DEF Elapsed
<1> HIDE DEF t
<1>7. /\ Elapsed \in Sockets /\ Elapsed.tcp = t
      /\ Elapsed.outbound_shutdown = socket.outbound_shutdown
  BY <1>4, <1>5, <1>6 DEF Sockets
<1>8. s \in SocketWorlds(socketLoop.polled)
  BY <1>1, <1>3, <1>7, WorldsAre DEF SocketWorlds
<1>9. SocketFault(s) <=> Faulted
  BY <1>3, <1>5, <1>7 DEF SocketFault, Faulted
<1>10. SocketBooks(s)
  <2>1. /\ s.me.tcp = t /\ s.me.outbound_shutdown = SocketWorld.me.outbound_shutdown
        /\ s.files = SocketWorld.files /\ s.loop = SocketWorld.loop
        /\ s.fate = SocketWorld.fate
    BY <1>3, <1>7, WorldsAre
  <2> QED BY <1>1, <1>5, <1>9, <2>1, WorldsAre DEF SocketBooks, Awake
<1>11. /\ w \in SocketWorlds(socketLoop.polled)
       /\ SocketBooks(w) /\ SocketAsked(w) /\ SocketSame(s, w)
       /\ SocketIdle(w)
  BY <1>8, <1>10, SocketSwept
<1> HIDE DEF w
<1>12. SocketFrame(files, files)
  BY FilesAre, SocketFrameStays
<1>13. /\ SocketFrame(files, w.files) /\ ~w.loop.done
       /\ Faulted => SocketFault(w)
  BY <1>1, <1>3, <1>9, <1>11, <1>12 DEF SocketSame, SocketFault
<1> QED BY <1>2, <1>11, <1>13, TurnEndsKeeps

\* What the owner's loop leaves when it has nothing more to ask for: the other side
\* shut the pair down, or something failed.
LEMMA CopyEnds ==
  ASSUME NEW p, NEW w \in CopyWorlds(p), NEW fault \in BOOLEAN, CopyBooks(w, fault),
         w.loop.asked = {},
         \A r \in {"read_socket", "write_stdout"} : CopyLooked(w, fault, r)
  PROVE  w.files.toOwner.ended \/ fault
<1>1. w.me.inbound.closed => w.files.toOwner.ended \/ fault
  BY DEF CopyBooks, FilesInv
<1>2. w.me.inbound.capacity > 0
  BY DEF CopyBooks
<1>3. \/ w.me.inbound.closed \/ fault
      \/ Len(w.me.inbound.buffer) = w.me.inbound.capacity /\ w.me.inbound.buffer = <<>>
  BY DEF CopyLooked
<1>4. w.me.inbound.buffer = <<>> => Len(w.me.inbound.buffer) = 0
  OBVIOUS
<1> QED BY <1>1, <1>2, <1>3, <1>4

\* What the owner does after poll().
LEMMA CopyServeKeeps ==
  ASSUME ProgramInv, CopyServe
  PROVE  ProgramInv'
<1> DEFINE v == Copy!Loop!Serve(CopyWorld)
           w == Copy!Loop!Sweep(v)
           u == SocketWorld'
           s == SocketWorld
<1>1. /\ CopyWorld \in CopyWorlds(copyLoop.polled) /\ ~copyLoop.done
      /\ CopyBooks(CopyWorld, Faulted) /\ CopyAsked(CopyWorld) /\ CopyPolled(CopyWorld)
      /\ ToSet(copyLoop.rules) \subseteq DOMAIN copyLoop.polled
  BY DEF ProgramInv, OwnerInv, CopyServe
<1>2. /\ stage = "copying" /\ copyTurn' = "poll" /\ copy' = w.me /\ copyLoop' = w.loop
      /\ files' = w.files /\ fate' = w.fate
      /\ stage' = IF w.loop.asked = {} THEN "closing" ELSE stage
      /\ UNCHANGED << thread, abort, peer, outside >>
  BY Zenon DEF CopyServe, Copy!Loop!NothingToPoll
<1>3. Faulted \in BOOLEAN
  BY DEF Faulted
<1>4. /\ v \in CopyWorlds(<<>>) /\ ~v.loop.done
      /\ CopyBooks(v, Faulted) /\ CopyFrame(CopyWorld.files, v.files)
  BY <1>1, <1>3, CopyServed, WorldsAre
<1> HIDE DEF v
<1>5. /\ w \in CopyWorlds(<<>>)
      /\ CopyBooks(w, Faulted) /\ CopyAsked(w)
      /\ w.files = v.files /\ w.loop.done = v.loop.done
      /\ \A r \in {"read_socket", "write_stdout"} : CopyLooked(w, Faulted, r)
  BY <1>3, <1>4, CopySwept
<1> HIDE DEF w
<1>6. CopyFrame(files, w.files) /\ ~w.loop.done
  BY <1>4, <1>5, WorldsAre
<1>7. /\ CopyWorld' = w /\ w.loop \in Loops(CopyRuleNames, <<>>) /\ w.files \in FileTables
      /\ w.loop.polled = <<>>
  BY <1>2, <1>5, CopyParts DEF CopyWorld, CopyWorlds, Loops
<1>8. Faulted' <=> Faulted
  BY <1>2, <1>6 DEF Faulted, CopyFrame, peer
<1>9. OwnerInv'
  BY <1>2, <1>5, <1>6, <1>7, <1>8 DEF OwnerInv
<1>10. /\ s = [me |-> socket, loop |-> socketLoop, files |-> files, fate |-> fate]
       /\ u = [me |-> socket, loop |-> socketLoop, files |-> w.files, fate |-> w.fate]
       /\ s \in SocketWorlds(socketLoop.polled) /\ SocketBooks(s) /\ SocketAsked(s)
       /\ socketTurn = "serve" => SocketPolled(s)
       /\ socketTurn = "poll" => SocketIdle(s)
       /\ socketTurn' = socketTurn /\ socketLoop' = socketLoop
  BY <1>2 DEF SocketWorld, peer, ProgramInv, ThreadInv
<1>11. SocketFault(s) <=> Faulted
  BY WorldsAre
<1>12. SocketFault(u) <=> Faulted
  BY <1>6, <1>10, <1>11 DEF SocketFault, CopyFrame
<1> HIDE DEF s, u
<1>13. u \in SocketWorlds(socketLoop.polled)
  BY <1>5, <1>7, <1>10, CopyParts DEF SocketWorlds
<1>14. /\ u.me = s.me /\ u.loop = s.loop /\ u.files = w.files /\ u.fate = w.fate
       /\ s.files = files /\ s.files \in FileTables
  BY <1>10, FilesAre
<1>15. SocketBooks(u)
  <2>1. FilesInv(u.files) /\ (u.fate # "alive" => SocketFault(u))
    BY <1>5, <1>12, <1>14 DEF CopyBooks
  <2>2. /\ u.files.toTcp.eof = s.files.toTcp.eof
        /\ u.files.toOwner.ended = s.files.toOwner.ended
    BY <1>6, <1>14 DEF CopyFrame
  <2> QED BY <1>10, <1>11, <1>12, <1>13, <1>14, <2>1, <2>2, SocketUndisturbed
<1>16. /\ SocketAsked(u)
       /\ socketTurn = "serve" => SocketPolled(u)
       /\ socketTurn = "poll" => SocketIdle(u)
  <2>1. SocketAsked(u)
    BY <1>10, <1>14 DEF SocketAsked
  <2>2. socketTurn = "poll" => SocketIdle(u)
    BY <1>10, <1>14 DEF SocketIdle
  <2>3. socketTurn = "serve" => SocketPolled(u)
    BY <1>6, <1>7, <1>10, <1>14, SocketStillPolled DEF CopyFrame
  <2> QED BY <2>1, <2>2, <2>3
<1>17. ThreadInv'
  BY <1>10, <1>13, <1>15, <1>16 DEF ThreadInv, ProgramInv, u
<1>18. stage' \in {"closing", "joining", "over"} => files'.toOwner.ended \/ Faulted'
  BY <1>2, <1>3, <1>5, <1>8, CopyEnds
<1>19. /\ ~abort' /\ typed' = typed
       /\ stage' \in {"copying", "closing"}
       /\ thread' # "none"
  BY <1>2 DEF ProgramInv, outside
<1>20. Len(files'.input.data) <= typed' /\ files'.input.room = InputBytes /\ typed' \in Nat
  <2>1. /\ Len(files.input.data) <= typed /\ typed \in Nat
        /\ files.input.room = InputBytes
    BY DEF ProgramInv
  <2>2. Len(files.input.data) \in Nat /\ Len(w.files.input.data) \in Nat
    BY <1>7, FilesAre, SMTT(30) DEF FileTables, Files
  <2> QED BY <1>2, <1>6, <1>19, <2>1, <2>2 DEF CopyFrame
<1> QED BY <1>9, <1>17, <1>18, <1>19, <1>20 DEF ProgramInv

\* New streams and files.
LEMMA NewStreams ==
  /\ \A cap \in Nat : /\ NewByteStream(cap) \in Streams
                      /\ NewByteStream(cap).capacity = cap
                      /\ NewByteStream(cap).buffer = <<>>
                      /\ ~NewByteStream(cap).closed /\ ~NewByteStream(cap).error
                      /\ Copy!NewByteStream(cap) = NewByteStream(cap)
                      /\ Socket!NewByteStream(cap) = NewByteStream(cap)
  /\ \A room \in Nat : /\ NewFile(room) \in Files
                       /\ NewFile(room).room = room /\ NewFile(room).data = <<>>
                       /\ ~NewFile(room).ended /\ ~NewFile(room).broken
                       /\ ~NewFile(room).eof /\ ~NewFile(room).closed
<1>1. ASSUME NEW cap \in Nat
      PROVE  /\ NewByteStream(cap) \in Streams
             /\ NewByteStream(cap).capacity = cap
             /\ NewByteStream(cap).buffer = <<>>
             /\ ~NewByteStream(cap).closed /\ ~NewByteStream(cap).error
  <2>1. <<>> \in Seq(Byte) /\ Len(<<>>) = 0
    OBVIOUS
  <2> QED BY <2>1 DEF NewByteStream, Streams, ByteStreams
<1>2. \A cap : /\ Copy!NewByteStream(cap) = NewByteStream(cap)
               /\ Socket!NewByteStream(cap) = NewByteStream(cap)
  BY Zenon DEF NewByteStream, Copy!NewByteStream, Socket!NewByteStream
<1>3. ASSUME NEW room \in Nat
      PROVE  /\ NewFile(room) \in Files
             /\ NewFile(room).room = room /\ NewFile(room).data = <<>>
             /\ ~NewFile(room).ended /\ ~NewFile(room).broken
             /\ ~NewFile(room).eof /\ ~NewFile(room).closed
  <2>1. <<>> \in Seq(Byte) /\ Len(<<>>) = 0
    OBVIOUS
  <2> QED BY <2>1 DEF NewFile, Files
<1> QED BY <1>1, <1>2, <1>3

\* The files that the program begins with.
LEMMA NewFilesAre ==
  ASSUME NEW terminal \in BOOLEAN
  PROVE  LET f == NewFiles(terminal)
         IN  /\ f \in FileTables /\ FilesInv(f) /\ CopyOpen(f)
             /\ ~f.output.broken /\ ~f.toTcp.ended /\ ~f.toOwner.ended
             /\ ~f.toTcp.eof /\ ~f.toOwner.eof /\ ~f.output.closed
             /\ f.input.data = <<>> /\ f.input.room = InputBytes
<1> DEFINE f == NewFiles(terminal)
<1>1. f = [terminal |-> terminal,
           input |-> NewFile(InputBytes), output |-> NewFile(OutputRoom),
           toTcp |-> NewFile(PairRoom), toOwner |-> NewFile(PairRoom)]
  BY DEF NewFiles
<1> HIDE DEF f
<1>2. f \in FileTables
  BY <1>1, NewStreams, ProgramAssumption DEF FileTables
<1>3. FilesInv(f) /\ CopyOpen(f)
  BY <1>1, NewStreams, ProgramAssumption DEF FilesInv, CopyOpen
<1>4. /\ ~f.output.broken /\ ~f.toTcp.ended /\ ~f.toOwner.ended
      /\ ~f.toTcp.eof /\ ~f.toOwner.eof /\ ~f.output.closed
      /\ f.input.data = <<>> /\ f.input.room = InputBytes
  BY <1>1, NewStreams, ProgramAssumption
<1> QED BY <1>2, <1>3, <1>4 DEF f

\* What the owner's loop looks at first.
FirstCopy ==
  [me |-> copy, loop |-> Copy!Loop!NewLoop(Copy!CopyRules),
   files |-> NewFiles(FALSE), fate |-> "alive"]

\* Its streams and files are new, and none of its rules was cancelled.
LEMMA FirstCopyIs ==
  ASSUME Init
  PROVE  /\ FirstCopy \in CopyWorlds(<<>>) /\ CopyBooks(FirstCopy, FALSE)
         /\ FirstCopy.me = copy /\ FirstCopy.fate = "alive" /\ ~FirstCopy.loop.done
         /\ FirstCopy.files = NewFiles(FALSE)
         /\ copy.outbound = NewByteStream(buffer_size)
         /\ copy.inbound = NewByteStream(buffer_size)
         /\ ToSet(FirstCopy.loop.rules) = CopyRuleNames
         /\ copyLoop = Copy!Loop!Sweep(FirstCopy).loop
<1> DEFINE f == NewFiles(FALSE)
           loop == Copy!Loop!NewLoop(Copy!CopyRules)
           s == FirstCopy
           out == NewByteStream(buffer_size)
<1>1. copy = Copy!NewCopy /\ copyLoop = Copy!Loop!Sweep(s).loop
  BY DEF Init, Swept, FirstCopy
<1>2. /\ f \in FileTables /\ FilesInv(f)
      /\ ~f.output.broken /\ ~f.toTcp.ended /\ ~f.toOwner.eof /\ ~f.output.closed
  BY NewFilesAre
<1> HIDE DEF f
<1>3. copy = [outbound |-> out, inbound |-> out,
              outbound_shutdown |-> FALSE, inbound_shutdown |-> FALSE]
  BY <1>1, NewStreams, ProgramAssumption DEF Copy!NewCopy
<1>4. /\ out \in Streams /\ out.capacity > 0 /\ out.buffer = <<>>
      /\ ~out.closed /\ ~out.error
  BY NewStreams, ProgramAssumption
<1> HIDE DEF out
<1>5. copy \in Copies
  BY <1>3, <1>4 DEF Copies
<1>6. loop = [rules |-> Copy!CopyRules, asked |-> {}, polled |-> <<>>,
              serviced |-> FALSE, done |-> FALSE]
  BY DEF Copy!Loop!NewLoop
<1>7. Copy!CopyRules \in Seq(CopyRuleNames) /\ ToSet(Copy!CopyRules) = CopyRuleNames
  <2>1. Copy!CopyRules = << "read_stdin", "write_socket", "read_socket", "write_stdout" >>
    BY DEF Copy!CopyRules
  <2>2. Copy!CopyRules \in Seq(CopyRuleNames) /\ Len(Copy!CopyRules) = 4
    BY <2>1 DEF CopyRuleNames
  <2>3. /\ Copy!CopyRules[1] = "read_stdin" /\ Copy!CopyRules[2] = "write_socket"
        /\ Copy!CopyRules[3] = "read_socket" /\ Copy!CopyRules[4] = "write_stdout"
    BY <2>1
  <2>4. DOMAIN Copy!CopyRules = {1, 2, 3, 4}
    BY <2>2
  <2> QED BY <2>2, <2>3, <2>4 DEF ToSet, CopyRuleNames
<1> HIDE DEF loop
<1>8. loop \in Loops(CopyRuleNames, <<>>)
  BY <1>6, <1>7 DEF Loops
<1>9. s = [me |-> copy, loop |-> loop, files |-> f, fate |-> "alive"]
  BY DEF FirstCopy, loop, f
<1> HIDE DEF s
<1>10. s \in CopyWorlds(<<>>)
  BY <1>2, <1>5, <1>8, <1>9 DEF CopyWorlds, Fates
<1>11. CopyBooks(s, FALSE)
  BY <1>2, <1>3, <1>4, <1>6, <1>7, <1>9 DEF CopyBooks, CopyRuleNames
<1>12. copy.outbound = out /\ copy.inbound = out
  BY <1>3
<1>13. s.me = copy /\ s.fate = "alive" /\ s.files = f /\ s.loop = loop
  BY <1>9
<1>14. loop.rules = Copy!CopyRules /\ ~loop.done
  BY <1>6
<1> QED BY <1>1, <1>7, <1>10, <1>11, <1>12, <1>13, <1>14 DEF s, out, f

\* What the owner begins with.
LEMMA CopyBegins ==
  ASSUME Init
  PROVE  /\ CopyWorld \in CopyWorlds(copyLoop.polled) /\ ~copyLoop.done
         /\ CopyBooks(CopyWorld, FALSE) /\ CopyAsked(CopyWorld)
<1> DEFINE f == NewFiles(FALSE)
           s == FirstCopy
           w == Copy!Loop!Sweep(s)
<1>1. copyLoop = w.loop /\ fate = "alive" /\ copy \in Copies
  <2>1. copyLoop = w.loop /\ s \in CopyWorlds(<<>>) /\ s.me = copy
    BY FirstCopyIs
  <2> HIDE DEF s, w
  <2>2. copy \in Copies
    BY <2>1 DEF CopyWorlds
  <2> QED BY <2>1, <2>2 DEF Init
<1>2. PICK terminal \in BOOLEAN : files = NewFiles(terminal)
  BY ProgramAssumption DEF Init
<1>3. /\ f \in FileTables /\ FilesInv(f) /\ CopyOpen(f)
      /\ ~f.output.broken /\ ~f.toTcp.ended /\ ~f.toOwner.eof /\ ~f.output.closed
  BY NewFilesAre
<1>4. /\ files \in FileTables /\ FilesInv(files)
      /\ ~files.output.broken /\ ~files.toTcp.ended /\ ~files.toOwner.eof
      /\ ~files.output.closed
  BY <1>2, NewFilesAre
<1>5. /\ s \in CopyWorlds(<<>>) /\ CopyBooks(s, FALSE) /\ ~s.loop.done
      /\ s.me = copy /\ s.fate = "alive" /\ s.files = f
  BY FirstCopyIs
<1> HIDE DEF f, s
<1>6. /\ w \in CopyWorlds(<<>>)
      /\ CopyBooks(w, FALSE) /\ CopyAsked(w)
      /\ w.files = s.files /\ w.loop.done = s.loop.done
      /\ CopyOpen(s.files) => w.me = s.me /\ w.fate = s.fate
  BY <1>5, CopySwept
<1> HIDE DEF w
<1>7. w.me = copy /\ w.fate = "alive" /\ w.files = f /\ ~w.loop.done
  BY <1>3, <1>5, <1>6
<1> DEFINE v == CopyWorld
<1>8. v = [me |-> copy, loop |-> w.loop, files |-> files, fate |-> "alive"]
  BY <1>1 DEF CopyWorld
<1> HIDE DEF v
<1>9. v \in CopyWorlds(<<>>)
  BY <1>4, <1>6, <1>7, <1>8, CopyParts DEF CopyWorlds, Fates
<1>10. w.loop.polled = <<>>
  BY <1>6, CopyParts DEF Loops
<1>11. CopyBooks(v, FALSE)
  <2>1. /\ v.me = w.me /\ v.loop = w.loop /\ v.fate = "alive" /\ v.files = files
    BY <1>7, <1>8
  <2>2. w.me.inbound.closed => w.files.toOwner.eof \/ FALSE
    BY <1>6 DEF CopyBooks
  <2>3. \A r \in {"read_socket", "write_stdout"} :
          r \notin ToSet(w.loop.rules) => w.me.inbound.closed \/ FALSE
    BY <1>6 DEF CopyBooks
  <2>4. /\ v.me.inbound.capacity > 0 /\ FilesInv(v.files)
        /\ v.me.outbound.error \/ v.me.inbound.error => FALSE
        /\ v.me.outbound_shutdown => IsFinished(v.me.outbound)
    BY <1>4, <1>6, <2>1 DEF CopyBooks
  <2>5. ~w.files.toOwner.eof
    BY <1>3, <1>7
  <2>6. /\ ~v.files.output.broken /\ ~(v.fate # "alive") /\ ~v.files.toTcp.ended
        /\ ~v.files.output.closed
    BY <1>4, <2>1
  <2>7. ~v.me.inbound.closed
    BY <2>1, <2>2, <2>5
  <2>8. \A r \in {"read_socket", "write_stdout"} :
          r \notin ToSet(v.loop.rules) => v.me.inbound.closed \/ FALSE
    BY <2>1, <2>3
  <2> QED BY <2>4, <2>6, <2>7, <2>8 DEF CopyBooks
<1>12. CopyAsked(v)
  BY <1>6, <1>7, <1>8 DEF CopyAsked
<1> QED BY <1>1, <1>7, <1>9, <1>10, <1>11, <1>12 DEF v

\* What the thread of the socket begins with.
LEMMA SocketBegins ==
  ASSUME Init
  PROVE  /\ SocketWorld \in SocketWorlds(socketLoop.polled) /\ ~socketLoop.done
         /\ SocketBooks(SocketWorld) /\ SocketAsked(SocketWorld) /\ SocketIdle(SocketWorld)
         /\ ~Faulted
<1> DEFINE f == NewFiles(FALSE)
           loop == Socket!Loop!NewLoop(Socket!SocketRules)
           s == [me |-> socket, loop |-> loop, files |-> f, fate |-> "alive"]
           w == Socket!Loop!Sweep(s)
           t == Socket!NewTcp
           x == IF stage = "connecting" THEN Socket!TcpPush(t) ELSE t
           out == NewByteStream(send_capacity)
           in  == NewByteStream(recv_capacity)
<1>1. /\ socket = Opened(stage) /\ socketLoop = w.loop /\ fate = "alive"
      /\ files \in {NewFiles(terminal) : terminal \in Terminals}
  BY DEF Init, Swept
<1>2. PICK terminal \in BOOLEAN : files = NewFiles(terminal)
  BY <1>1, ProgramAssumption
<1>3. f \in FileTables /\ FilesInv(f) /\ ~f.toTcp.eof /\ ~f.toOwner.ended
  BY NewFilesAre
<1>4. /\ files \in FileTables /\ FilesInv(files)
      /\ ~files.toTcp.eof /\ ~files.toOwner.ended /\ ~files.output.broken
  BY <1>2, NewFilesAre
<1> HIDE DEF f
<1>5. t = [outbound |-> out, inbound |-> in,
           has_ackno |-> FALSE, syn_sent |-> FALSE, fin_sent |-> FALSE, in_flight |-> 0,
           linger |-> TRUE, elapsed |-> FALSE, rst_sent |-> FALSE]
  BY NewStreams, ProgramAssumption DEF Socket!NewTcp
<1>6. /\ out \in Streams /\ out.buffer = <<>> /\ ~out.closed /\ ~out.error
      /\ in \in Streams /\ ~in.error
  BY NewStreams, ProgramAssumption
<1> HIDE DEF out, in, t
<1>7. t \in Tcps /\ FinIsLast(t) /\ Awake(t)
  BY <1>5, <1>6 DEF Tcps, FinIsLast, Awake
<1>8. /\ x \in Tcps /\ FinIsLast(x) /\ Awake(x)
      /\ ~x.outbound.closed /\ ~x.outbound.error /\ ~x.inbound.error
  <2>1. LET y == Socket!TcpPush(t)
        IN  /\ y \in Tcps /\ FinIsLast(y) /\ Awake(y)
            /\ y.inbound = t.inbound
            /\ y.outbound.closed = t.outbound.closed
            /\ y.outbound.error = t.outbound.error
    BY <1>7, TcpPushDoes
  <2> QED BY <1>5, <1>6, <1>7, <2>1
<1> DEFINE new == Socket!NewSocket
<1>9. /\ new = [tcp |-> t, inbound_shutdown |-> FALSE, outbound_shutdown |-> FALSE,
                datagram |-> "none"]
      /\ socket = [new EXCEPT !.tcp = IF stage = "connecting" THEN Socket!TcpPush(@) ELSE @]
  BY <1>1, Zenon DEF Socket!NewSocket, Opened, t
<1> HIDE DEF new
<1>10. new.tcp = t
  BY <1>9
<1>11. socket = [new EXCEPT !.tcp = x]
  BY <1>9, <1>10
<1> HIDE DEF x
<1>12. socket = [tcp |-> x, inbound_shutdown |-> FALSE, outbound_shutdown |-> FALSE,
                 datagram |-> "none"]
  BY <1>9, <1>11
<1>13. socket \in Sockets
  BY <1>8, <1>12 DEF Sockets, Segments
<1>14. loop = [rules |-> Socket!SocketRules, asked |-> {}, polled |-> <<>>,
               serviced |-> FALSE, done |-> FALSE]
  BY DEF Socket!Loop!NewLoop
<1>15. /\ Socket!SocketRules \in Seq(SocketRuleNames)
       /\ {"receive", "read_inbound"} \subseteq ToSet(Socket!SocketRules)
  <2>1. Socket!SocketRules = << "receive", "push", "read_inbound" >>
    BY DEF Socket!SocketRules
  <2>2. Socket!SocketRules \in Seq(SocketRuleNames) /\ Len(Socket!SocketRules) = 3
    BY <2>1 DEF SocketRuleNames
  <2>3. Socket!SocketRules[1] = "receive" /\ Socket!SocketRules[3] = "read_inbound"
    BY <2>1
  <2>4. 1 \in DOMAIN Socket!SocketRules /\ 3 \in DOMAIN Socket!SocketRules
    BY <2>2
  <2> QED BY <2>2, <2>3, <2>4 DEF ToSet
<1> HIDE DEF loop
<1>16. loop \in Loops(SocketRuleNames, <<>>)
  BY <1>14, <1>15 DEF Loops
<1>17. s = [me |-> socket, loop |-> loop, files |-> f, fate |-> "alive"]
  OBVIOUS
<1> HIDE DEF s
<1>18. s \in SocketWorlds(<<>>)
  BY <1>3, <1>13, <1>16, <1>17 DEF SocketWorlds, Fates
<1>19. SocketBooks(s)
  BY <1>3, <1>8, <1>12, <1>14, <1>15, <1>17 DEF SocketBooks, FinIsLast
<1>20. /\ w \in SocketWorlds(<<>>)
       /\ SocketBooks(w) /\ SocketAsked(w) /\ SocketSame(s, w)
       /\ SocketIdle(w)
  BY <1>18, <1>19, SocketSwept
<1> HIDE DEF w
<1>21. w.me = socket /\ w.fate = "alive" /\ w.files = f /\ ~w.loop.done
  BY <1>14, <1>17, <1>20 DEF SocketSame
<1> DEFINE v == SocketWorld
<1>22. v = [me |-> socket, loop |-> w.loop, files |-> files, fate |-> "alive"]
  BY <1>1 DEF SocketWorld
<1> HIDE DEF v
<1>23. v \in SocketWorlds(<<>>)
  BY <1>4, <1>13, <1>20, <1>22, SocketParts DEF SocketWorlds, Fates
<1>24. w.loop.polled = <<>>
  BY <1>20, SocketParts
<1>25. SocketBooks(v)
  <2>1. v.me = w.me /\ v.loop = w.loop /\ v.fate = "alive" /\ v.files = files
    BY <1>21, <1>22
  <2>2. "read_inbound" \in ToSet(w.loop.rules)
    BY <1>3, <1>20, <1>21 DEF SocketBooks
  <2> QED BY <1>3, <1>4, <1>20, <1>21, <2>1, <2>2 DEF SocketBooks
<1>26. SocketAsked(v) /\ SocketIdle(v)
  BY <1>20, <1>21, <1>22 DEF SocketAsked, SocketIdle
<1>27. ~Faulted
  BY <1>4, <1>8, <1>12 DEF Faulted
<1> QED BY <1>1, <1>21, <1>23, <1>24, <1>25, <1>26, <1>27 DEF v

\* The books are in order at first, ...
LEMMA ProgramInvInit == Init => ProgramInv
<1> SUFFICES ASSUME Init PROVE ProgramInv
  OBVIOUS
<1>1. /\ stage \in {"connecting", "listening"} /\ thread = "none" /\ abort = FALSE
      /\ copyTurn = "poll" /\ socketTurn = "poll" /\ typed = 0
      /\ files \in {NewFiles(terminal) : terminal \in Terminals}
  BY ProgramAssumption DEF Init
<1>2. files.input.data = <<>> /\ files.input.room = InputBytes
  BY <1>1, NewFilesAre, ProgramAssumption
<1>3. ~Faulted
  BY SocketBegins
<1>4. OwnerInv
  <2>1. CopyBooks(CopyWorld, Faulted)
    BY <1>3, CopyBegins DEF CopyBooks
  <2> QED BY <1>1, <2>1, CopyBegins DEF OwnerInv
<1>5. ThreadInv
  BY <1>1, SocketBegins DEF ThreadInv
<1> QED BY <1>1, <1>2, <1>4, <1>5 DEF ProgramInv

\* ... and every step keeps them.
LEMMA ProgramInvNext == ProgramInv /\ [Next]_vars => ProgramInv'
<1> SUFFICES ASSUME ProgramInv, [Next]_vars PROVE ProgramInv'
  OBVIOUS
<1>1. CASE CopyPoll
  BY <1>1, CopyPollKeeps
<1>2. CASE CopyServe
  BY <1>2, CopyServeKeeps
<1>3. CASE WaitUntilClosed
  BY <1>3, WaitUntilClosedKeeps
<1>4. CASE Join
  BY <1>4, JoinKeeps
<1>5. ASSUME NEW datagram \in {"none"} \union Socket!Datagrams(socket.tcp),
             SocketPoll(datagram)
      PROVE  ProgramInv'
  BY <1>5, SocketPollKeeps
<1>6. CASE SocketServe
  BY <1>6, SocketServeKeeps
<1>7. CASE Elapse
  BY <1>7, ElapseKeeps
<1>8. CASE Finish
  BY <1>8, FinishKeeps
<1>9. CASE Type
  BY <1>9, TypeKeeps
<1>10. CASE EndInput
  BY <1>10, EndInputKeeps
<1>11. CASE Take
  BY <1>11, TakeKeeps
<1>12. CASE BreakOutput
  BY <1>12, BreakOutputKeeps
<1>13. CASE UNCHANGED vars
  <2>1. UNCHANGED << CopyWorld, SocketWorld, Faulted >>
    BY <1>13 DEF vars, owner, peer, CopyWorld, SocketWorld, Faulted
  <2> QED BY <1>13, <2>1 DEF ProgramInv, OwnerInv, ThreadInv, vars, owner, peer, outside
<1> QED BY <1>1, <1>2, <1>3, <1>4, <1>5, <1>6, <1>7, <1>8, <1>9, <1>10, <1>11, <1>12,
   <1>13 DEF Next, OwnerStep, SocketStep

\* The books of the program are always in order.
THEOREM BooksInOrder == Spec => []ProgramInv
BY ProgramInvInit, ProgramInvNext, PTL DEF Spec

\* The two threads never kill the program (SIGPIPE, a write that finds no room, the
\* loop's check for busy waiting), as long as nothing outside fails.
THEOREM NobodyDiesAlways == Spec => []NobodyDies
<1>1. ProgramInv => NobodyDies
  <2>1. ProgramInv => SocketBooks(SocketWorld)
    BY DEF ProgramInv, ThreadInv
  <2> QED BY <2>1, WorldsAre DEF SocketBooks, NobodyDies
<1> QED BY <1>1, BooksInOrder, PTL

\* What waits to be sent always has something in flight before it.
THEOREM NothingStrandedAlways == Spec => []NothingIsStranded
<1>1. ProgramInv => NothingIsStranded
  <2>1. ProgramInv => SocketBooks(SocketWorld)
    BY DEF ProgramInv, ThreadInv
  <2> QED BY <2>1, WorldsAre DEF SocketBooks, Awake, NothingIsStranded
<1> QED BY <1>1, BooksInOrder, PTL

-----------------------------------------------------------------------------
(* The order of the bytes.                                                  *)

\* The bytes of a sequence follow each other, after the first `from` ones.
InOrder(q, from) == \A i \in 1..Len(q) : q[i] = from + i

\* The bytes of a stream follow each other, after those that were popped.
Ordered(b) ==
  b.total_pushed = b.total_popped + Len(b.buffer) /\ InOrder(b.buffer, b.total_popped)

\* A file holds what comes after the first `from` bytes, up to the upto-th.
Carries(f, from, upto) == upto = from + Len(f.data) /\ InOrder(f.data, from)

\* A part of a sequence is in order, and so is what joins two that follow.
LEMMA PartsInOrder ==
  ASSUME NEW q \in Seq(Byte), NEW from \in Nat, InOrder(q, from)
  PROVE  /\ \A n \in 0..Len(q) :
              /\ InOrder(SubSeq(q, 1, n), from)
              /\ InOrder(SubSeq(q, n + 1, Len(q)), from + n)
         /\ \A r \in Seq(Byte) : InOrder(r, from + Len(q)) => InOrder(q \o r, from)
<1>1. ASSUME NEW n \in 0..Len(q)
      PROVE  /\ InOrder(SubSeq(q, 1, n), from)
             /\ InOrder(SubSeq(q, n + 1, Len(q)), from + n)
  <2> DEFINE p == SubSeq(q, 1, n)
             r == SubSeq(q, n + 1, Len(q))
  <2>1. /\ Len(p) = n /\ \A i \in 1..n : p[i] = q[i]
        /\ Len(r) = Len(q) - n /\ \A i \in 1..(Len(q) - n) : r[i] = q[n + i]
    OBVIOUS
  <2> HIDE DEF p, r
  <2>2. InOrder(p, from)
    BY <2>1 DEF InOrder
  <2>3. \A i \in 1..(Len(q) - n) : n + i \in 1..Len(q)
    OBVIOUS
  <2>4. InOrder(r, from + n)
    BY <2>1, <2>3 DEF InOrder
  <2> QED BY <2>2, <2>4 DEF p, r
<1>2. ASSUME NEW r \in Seq(Byte), InOrder(r, from + Len(q))
      PROVE  InOrder(q \o r, from)
  <2> DEFINE both == q \o r
  <2>1. /\ Len(both) = Len(q) + Len(r)
        /\ \A i \in 1..Len(q) : both[i] = q[i]
        /\ \A i \in (Len(q) + 1)..(Len(q) + Len(r)) : both[i] = r[i - Len(q)]
    OBVIOUS
  <2> HIDE DEF both
  <2>2. Len(q) \in Nat /\ Len(r) \in Nat
    OBVIOUS
  <2>3. ASSUME NEW i \in 1..Len(both) PROVE both[i] = from + i
    <3>1. CASE i <= Len(q)
      BY <2>1, <2>2, <3>1 DEF InOrder
    <3>2. CASE i > Len(q)
      <4>1. i - Len(q) \in 1..Len(r) /\ i \in (Len(q) + 1)..(Len(q) + Len(r))
        BY <2>1, <2>2, <3>2
      <4>2. r[i - Len(q)] = from + Len(q) + (i - Len(q))
        BY <1>2, <4>1 DEF InOrder
      <4> QED BY <2>1, <2>2, <4>1, <4>2
    <3> QED BY <2>1, <2>2, <3>1, <3>2
  <2> QED BY <2>3, Zenon DEF InOrder, both
<1> QED BY <1>1, <1>2

\* Writing to a stream what follows keeps its order (Writer::push).
LEMMA PushInOrder ==
  ASSUME NEW b \in Streams, Ordered(b),
         NEW data \in Seq(Byte), InOrder(data, b.total_pushed)
  PROVE  LET c == WriterPush(b, data)
         IN  /\ Ordered(c) /\ c.total_popped = b.total_popped
             /\ c.total_pushed = b.total_pushed + Least(AvailableCapacity(b), Len(data))
<1> DEFINE n == Least(AvailableCapacity(b), Len(data))
<1>1. /\ b.buffer \in Seq(Byte) /\ b.capacity \in Nat /\ Len(b.buffer) \in Nat
      /\ Len(b.buffer) <= b.capacity /\ Len(data) \in Nat
      /\ b.total_pushed \in Nat /\ b.total_popped \in Nat
  BY DEF Streams, ByteStreams
<1>2. n \in Nat /\ n <= Len(data)
  BY <1>1 DEF Least, AvailableCapacity
<1> DEFINE part == SubSeq(data, 1, n)
           more == b.buffer \o part
<1>3. WriterPush(b, data) = [b EXCEPT !.buffer = more, !.total_pushed = @ + n]
  BY <1>1 DEF WriterPush
<1> HIDE DEF n
<1>4. part \in Seq(Byte) /\ Len(part) = n /\ InOrder(part, b.total_pushed)
  <2>1. n \in 0..Len(data)
    BY <1>1, <1>2
  <2> QED BY <1>1, <1>2, <2>1, RestOfSequence, PartsInOrder
<1> HIDE DEF part
<1>5. Len(more) = Len(b.buffer) + n /\ InOrder(more, b.total_popped)
  <2>1. Len(more) = Len(b.buffer) + n
    BY <1>1, <1>4, ConcatProperties
  <2> QED BY <1>1, <1>4, <2>1, PartsInOrder DEF Ordered
<1> HIDE DEF more
<1> DEFINE c == WriterPush(b, data)
<1>6. c.buffer = more /\ c.total_pushed = b.total_pushed + n /\ c.total_popped = b.total_popped
  BY <1>3 DEF Streams, ByteStreams
<1> HIDE DEF c
<1>7. Ordered(c)
  <2>1. b.total_pushed = b.total_popped + Len(b.buffer)
    BY DEF Ordered
  <2>2. Len(c.buffer) = Len(b.buffer) + n
    BY <1>5, <1>6
  <2>3. c.total_pushed = c.total_popped + Len(c.buffer)
    <3>1. \A x, y, l \in Nat : y = x + l => y + n = x + (l + n)
      BY <1>2
    <3> QED BY <1>1, <1>6, <2>1, <2>2, <3>1
  <2> QED BY <1>5, <1>6, <2>3 DEF Ordered
<1> QED BY <1>6, <1>7 DEF c, n

\* What is left of a stream when it is read is in order (Reader::pop).
LEMMA PopInOrder ==
  ASSUME NEW b \in Streams, Ordered(b), NEW len \in Nat
  PROVE  LET c == ReaderPop(b, len)
         IN  /\ Ordered(c) /\ c.total_pushed = b.total_pushed
             /\ c.total_popped = b.total_popped + Least(len, Len(b.buffer))
<1> DEFINE n    == Least(len, Len(b.buffer))
           rest == SubSeq(b.buffer, n + 1, Len(b.buffer))
<1>1. /\ b.buffer \in Seq(Byte) /\ Len(b.buffer) \in Nat
      /\ b.total_pushed \in Nat /\ b.total_popped \in Nat
  BY DEF Streams, ByteStreams
<1>2. n \in Nat /\ n <= Len(b.buffer) /\ n \in 0..Len(b.buffer)
  BY <1>1 DEF Least
<1>3. ReaderPop(b, len) = [b EXCEPT !.buffer = rest, !.total_popped = @ + n]
  BY <1>1 DEF ReaderPop
<1> HIDE DEF n
<1>4. Len(rest) = Len(b.buffer) - n /\ InOrder(rest, b.total_popped + n)
  BY <1>1, <1>2, RestOfSequence, PartsInOrder DEF Ordered
<1> HIDE DEF rest
<1> DEFINE c == ReaderPop(b, len)
<1>5. c.buffer = rest /\ c.total_popped = b.total_popped + n /\ c.total_pushed = b.total_pushed
  BY <1>3 DEF Streams, ByteStreams
<1> HIDE DEF c
<1>6. Ordered(c)
  BY <1>1, <1>2, <1>4, <1>5 DEF Ordered
<1> QED BY <1>5, <1>6 DEF c, n

\* Closing a stream, or marking its error, moves none of its bytes.
LEMMA MarkInOrder ==
  ASSUME NEW b \in Streams, Ordered(b)
  PROVE  /\ Ordered(WriterClose(b)) /\ Ordered(SetError(b))
         /\ WriterClose(b).total_pushed = b.total_pushed
         /\ WriterClose(b).total_popped = b.total_popped
         /\ SetError(b).total_pushed = b.total_pushed
         /\ SetError(b).total_popped = b.total_popped
<1>1. /\ WriterClose(b).total_pushed = b.total_pushed
      /\ WriterClose(b).total_popped = b.total_popped
      /\ WriterClose(b).buffer = b.buffer
      /\ SetError(b).total_pushed = b.total_pushed
      /\ SetError(b).total_popped = b.total_popped
      /\ SetError(b).buffer = b.buffer
  BY DEF WriterClose, SetError, Streams, ByteStreams
<1> QED BY <1>1 DEF Ordered

\* Bytes that are read from a file into a stream with room for one at least.
LEMMA FilledInOrder ==
  ASSUME NEW b \in Streams, NEW f \in Files, NEW upto,
         Ordered(b), Carries(f, b.total_pushed, upto), AvailableCapacity(b) > 0
  PROVE  LET c == Copy!Filled(b, f)
             g == AfterRead(f, AvailableCapacity(b))
         IN  /\ Ordered(c) /\ c.total_popped = b.total_popped
             /\ c.total_pushed >= b.total_pushed
             /\ Carries(g, c.total_pushed, upto)
<1> DEFINE size   == AvailableCapacity(b)
           n      == Least(size, Len(f.data))
           read   == SubSeq(f.data, 1, n)
           rest   == SubSeq(f.data, n + 1, Len(f.data))
           g      == AfterRead(f, size)
           pushed == WriterPush(b, read)
           c      == Copy!Filled(b, f)
<1>1. /\ f.data \in Seq(Byte) /\ Len(f.data) \in Nat /\ size \in Nat /\ size # 0
      /\ b.total_pushed \in Nat
  BY DEF AvailableCapacity, Streams, ByteStreams, Files
<1> HIDE DEF size
<1>2. n \in 0..Len(f.data) /\ n <= size /\ n \in Nat /\ n <= Len(f.data)
  BY <1>1 DEF Least
<1>3. BytesRead(f, size) = read
  BY <1>1 DEF BytesRead, ReadSize
<1> HIDE DEF n
<1>4. /\ read \in Seq(Byte) /\ Len(read) = n
      /\ rest \in Seq(Byte) /\ Len(rest) = Len(f.data) - n
      /\ InOrder(read, b.total_pushed) /\ InOrder(rest, b.total_pushed + n)
  BY <1>1, <1>2, RestOfSequence, PartsInOrder DEF Carries
<1>5. g.data = rest
  BY <1>3, <1>4 DEF AfterRead, Files
<1> HIDE DEF read
<1>6. /\ pushed \in Streams /\ Ordered(pushed)
      /\ pushed.total_popped = b.total_popped
      /\ pushed.total_pushed = b.total_pushed + n
  <2>1. Least(size, Len(read)) = n
    BY <1>1, <1>2, <1>4 DEF Least
  <2> QED BY <1>4, <2>1, PushStream, PushInOrder DEF size
<1>7. c = IF g.eof THEN WriterClose(pushed) ELSE pushed
  BY <1>3, CopyOperators DEF Copy!Filled, size
<1> HIDE DEF pushed, c, g, rest
<1>8. /\ Ordered(c) /\ c.total_popped = b.total_popped
      /\ c.total_pushed = b.total_pushed + n
  BY <1>6, <1>7, MarkInOrder
<1>9. upto = c.total_pushed + Len(rest)
  <2>1. upto = b.total_pushed + Len(f.data)
    BY DEF Carries
  <2>2. \A x, l \in Nat : n <= l => x + l = (x + n) + (l - n)
    BY <1>2
  <2> QED BY <1>1, <1>2, <1>4, <1>8, <2>1, <2>2
<1>10. Carries(g, c.total_pushed, upto)
  BY <1>4, <1>5, <1>8, <1>9 DEF Carries
<1>11. c.total_pushed >= b.total_pushed
  BY <1>1, <1>2, <1>8
<1> QED BY <1>8, <1>10, <1>11 DEF c, g, size

\* Bytes of a stream that are written into a file, as far as there is room.
LEMMA DrainedInOrder ==
  ASSUME NEW b \in Streams, NEW f \in Files, NEW from \in Nat,
         Ordered(b), Carries(f, from, b.total_popped)
  PROVE  LET c == Copy!Drained(b, f)
             g == AfterWrite(f, b.buffer)
         IN  /\ Ordered(c) /\ c.total_pushed = b.total_pushed
             /\ c.total_popped >= b.total_popped
             /\ Carries(g, from, c.total_popped)
             /\ b.buffer = <<>> => g.data = f.data
<1> DEFINE n    == Written(f, b.buffer)
           part == SubSeq(b.buffer, 1, n)
           more == f.data \o part
           c    == Copy!Drained(b, f)
           g    == AfterWrite(f, b.buffer)
<1>1. /\ b.buffer \in Seq(Byte) /\ Len(b.buffer) \in Nat /\ b.total_popped \in Nat
      /\ f.data \in Seq(Byte) /\ f.room \in Nat /\ Len(f.data) \in Nat
      /\ Len(f.data) <= f.room
  BY DEF Streams, ByteStreams, Files
<1>2. n \in Nat /\ n <= Len(b.buffer) /\ n \in 0..Len(b.buffer)
  BY <1>1 DEF Written, Least
<1>3. c = ReaderPop(b, n)
  BY CopyOperators DEF Copy!Drained
<1>4. g = [f EXCEPT !.data = more]
  BY DEF AfterWrite
<1> HIDE DEF n, c, g
<1>5. /\ Ordered(c) /\ c.total_pushed = b.total_pushed
      /\ c.total_popped = b.total_popped + n
  <2>1. Least(n, Len(b.buffer)) = n
    BY <1>1, <1>2 DEF Least
  <2> QED BY <1>2, <1>3, <2>1, PopInOrder
<1>6. part \in Seq(Byte) /\ Len(part) = n /\ InOrder(part, b.total_popped)
  BY <1>1, <1>2, RestOfSequence, PartsInOrder DEF Ordered
<1> HIDE DEF part
<1>7. from + Len(f.data) = b.total_popped /\ InOrder(f.data, from)
  BY DEF Carries
<1>8. Len(more) = Len(f.data) + n /\ InOrder(more, from)
  <2>1. Len(more) = Len(f.data) + n
    BY <1>1, <1>6, ConcatProperties
  <2> QED BY <1>1, <1>6, <1>7, <2>1, PartsInOrder
<1>9. b.buffer = <<>> => more = f.data
  <2> SUFFICES ASSUME b.buffer = <<>> PROVE more = f.data
    OBVIOUS
  <2>1. part = <<>>
    BY <1>1, <1>2, <1>6
  <2> QED BY <1>1, <2>1
<1> HIDE DEF more
<1>10. g.data = more
  BY <1>4 DEF Files
<1>11. c.total_popped = from + Len(more)
  <2>1. \A l \in Nat : (from + l) + n = from + (l + n)
    BY <1>2
  <2> QED BY <1>1, <1>5, <1>7, <1>8, <2>1
<1>12. Carries(g, from, c.total_popped)
  BY <1>8, <1>10, <1>11 DEF Carries
<1>13. c.total_popped >= b.total_popped
  BY <1>1, <1>2, <1>5
<1> QED BY <1>5, <1>9, <1>10, <1>12, <1>13 DEF c, g

-----------------------------------------------------------------------------
(* The owner, as long as nothing outside fails.                             *)

\* How many bytes came to standard input, were taken by TCP, given by TCP, and
\* left standard output.
Marks == [typed : Nat, sent : Nat, got : Nat, taken : Nat]

\* The owner's streams and the files around them, one after the other, in both
\* directions.
CopyLine(s, x) ==
  /\ Ordered(s.me.outbound) /\ Ordered(s.me.inbound)
  /\ Carries(s.files.input, s.me.outbound.total_pushed, x.typed)
  /\ Carries(s.files.toTcp, x.sent, s.me.outbound.total_popped)
  /\ Carries(s.files.toOwner, s.me.inbound.total_pushed, x.got)
  /\ Carries(s.files.output, x.taken, s.me.inbound.total_popped)

\* What was closed was read to its end, and so was all before it.
CopyEndings(s) ==
  /\ s.me.outbound.capacity > 0
  /\ s.files.input.eof => s.me.outbound.closed
  /\ s.me.outbound.closed => s.files.input.ended /\ s.files.input.data = <<>>
  /\ s.files.toTcp.eof => s.files.toTcp.data = <<>>
  /\ s.files.toOwner.eof => s.files.toOwner.data = <<>>
  /\ s.files.output.closed => IsFinished(s.me.inbound) /\ s.files.toOwner.eof
  /\ "read_stdin" \notin ToSet(s.loop.rules) => s.me.outbound.closed
  /\ "write_socket" \notin ToSet(s.loop.rules) => s.me.outbound_shutdown

CopyFlows(s, x) == CopyLine(s, x) /\ CopyEndings(s)

\* What both directions of the owner may do in a step.
CopyMoves(s, w) ==
  /\ w.me.inbound.total_popped >= s.me.inbound.total_popped
  /\ s.files.output.closed => w.files.output.closed
  /\ w.files.input.ended = s.files.input.ended

\* Standing still is such a move, and two of them are one.
LEMMA CopyMovesOn ==
  ASSUME NEW p, NEW s \in CopyWorlds(p)
  PROVE  /\ CopyMoves(s, s)
         /\ \A v \in CopyWorlds(p) : \A w :
              w \in CopyWorlds(p) /\ CopyMoves(s, v) /\ CopyMoves(v, w) => CopyMoves(s, w)
<1>1. ASSUME NEW v \in CopyWorlds(p) PROVE v.me.inbound.total_popped \in Nat
  BY CopyParts DEF Streams, ByteStreams
<1> QED BY <1>1 DEF CopyMoves

\* Standard input is read into the outbound stream.
LEMMA ReadStdinInOrder ==
  ASSUME NEW p, NEW s \in CopyWorlds(p), NEW x \in Marks, CopyFlows(s, x),
         AvailableCapacity(s.me.outbound) > 0
  PROVE  LET w == Copy!ReadStdin(s) IN CopyFlows(w, x) /\ CopyMoves(s, w)
<1> DEFINE w == Copy!ReadStdin(s)
           b == w.me.outbound
           f == w.files.input
<1>1. /\ s.me.outbound \in Streams /\ s.files.input \in Files
      /\ AvailableCapacity(s.me.outbound) \in Nat
  <2>1. s.me.outbound \in Streams /\ s.files.input \in Files
    BY CopyParts
  <2> QED BY <2>1 DEF AvailableCapacity, Streams, ByteStreams
<1>2. /\ b = Copy!Filled(s.me.outbound, s.files.input)
      /\ f = AfterRead(s.files.input, AvailableCapacity(s.me.outbound))
      /\ w.me = [s.me EXCEPT !.outbound = b]
      /\ w.files = [s.files EXCEPT !.input = f]
      /\ w.loop = [s.loop EXCEPT !.serviced = ReadCounts(s.files.input)]
  BY ReadStdinDoes
<1> HIDE DEF w, b, f
<1>3. /\ b.capacity = s.me.outbound.capacity
      /\ b.closed = (s.me.outbound.closed \/ f.eof)
  BY <1>1, <1>2, StreamFilled
<1>4. /\ Len(f.data) <= Len(s.files.input.data) /\ f.data \in Seq(Byte)
      /\ s.files.input.data \in Seq(Byte)
      /\ f.ended = s.files.input.ended
      /\ f.eof = (s.files.input.eof \/ (s.files.input.data = <<>> /\ s.files.input.ended))
  BY <1>1, <1>2, ReadFile DEF Files
<1>5. /\ Ordered(b) /\ b.total_popped = s.me.outbound.total_popped
      /\ Carries(f, b.total_pushed, x.typed)
  BY <1>1, <1>2, FilledInOrder DEF CopyFlows, CopyLine
<1>6. /\ w.me.outbound = b /\ w.me.inbound = s.me.inbound
      /\ w.me.outbound_shutdown = s.me.outbound_shutdown
      /\ w.files.input = f /\ w.files.toTcp = s.files.toTcp
      /\ w.files.toOwner = s.files.toOwner /\ w.files.output = s.files.output
      /\ w.loop.rules = s.loop.rules
  BY <1>2, CopyParts DEF CopyWorlds, Copies, FileTables, Loops
<1>7. CopyLine(w, x)
  BY <1>5, <1>6 DEF CopyFlows, CopyLine
<1>8. CopyEndings(w)
  <2>1. s.files.input.data = <<>> => f.data = <<>>
    BY <1>4
  <2> QED BY <1>3, <1>4, <1>6, <2>1 DEF CopyFlows, CopyEndings
<1>9. CopyMoves(s, w)
  BY <1>4, <1>6, CopyMovesOn DEF CopyMoves
<1> QED BY <1>7, <1>8, <1>9 DEF CopyFlows, w

\* The socket is read into the inbound stream.
LEMMA ReadSocketInOrder ==
  ASSUME NEW p, NEW s \in CopyWorlds(p), NEW x \in Marks, CopyFlows(s, x),
         AvailableCapacity(s.me.inbound) > 0
  PROVE  LET w == Copy!ReadSocket(s) IN CopyFlows(w, x) /\ CopyMoves(s, w)
<1> DEFINE w == Copy!ReadSocket(s)
           b == w.me.inbound
           f == w.files.toOwner
<1>1. /\ s.me.inbound \in Streams /\ s.files.toOwner \in Files
      /\ AvailableCapacity(s.me.inbound) \in Nat
  <2>1. s.me.inbound \in Streams /\ s.files.toOwner \in Files
    BY CopyParts
  <2> QED BY <2>1 DEF AvailableCapacity, Streams, ByteStreams
<1>2. /\ b = Copy!Filled(s.me.inbound, s.files.toOwner)
      /\ f = AfterRead(s.files.toOwner, AvailableCapacity(s.me.inbound))
      /\ w.me = [s.me EXCEPT !.inbound = b]
      /\ w.files = [s.files EXCEPT !.toOwner = f]
      /\ w.loop = [s.loop EXCEPT !.serviced = ReadCounts(s.files.toOwner)]
  BY ReadSocketDoes
<1> HIDE DEF w, b, f
<1>3. b \in Streams /\ b.closed = (s.me.inbound.closed \/ f.eof)
  BY <1>1, <1>2, StreamFilled
<1>4. /\ Len(f.data) <= Len(s.files.toOwner.data) /\ f.data \in Seq(Byte)
      /\ s.files.toOwner.data \in Seq(Byte)
      /\ f.eof = (s.files.toOwner.eof
                   \/ (s.files.toOwner.data = <<>> /\ s.files.toOwner.ended))
  BY <1>1, <1>2, ReadFile DEF Files
<1>5. /\ Ordered(b) /\ b.total_popped = s.me.inbound.total_popped
      /\ b.total_pushed >= s.me.inbound.total_pushed
      /\ Carries(f, b.total_pushed, x.got)
  BY <1>1, <1>2, FilledInOrder DEF CopyFlows, CopyLine
<1>6. /\ w.me.inbound = b /\ w.me.outbound = s.me.outbound
      /\ w.me.outbound_shutdown = s.me.outbound_shutdown
      /\ w.files.input = s.files.input /\ w.files.toTcp = s.files.toTcp
      /\ w.files.toOwner = f /\ w.files.output = s.files.output
      /\ w.loop.rules = s.loop.rules
  BY <1>2, CopyParts DEF CopyWorlds, Copies, FileTables, Loops
<1>7. CopyLine(w, x)
  BY <1>5, <1>6 DEF CopyFlows, CopyLine
<1>8. s.files.toOwner.data = <<>> => f.data = <<>>
  BY <1>4
<1>9. ASSUME s.files.toOwner.data = <<>>, s.me.inbound.buffer = <<>>
      PROVE  b.buffer = <<>>
  <2>1. /\ b.buffer \in Seq(Byte) /\ Len(b.buffer) \in Nat
        /\ b.total_pushed = b.total_popped + Len(b.buffer)
        /\ s.me.inbound.total_pushed = s.me.inbound.total_popped
        /\ b.total_pushed = s.me.inbound.total_pushed
        /\ b.total_popped \in Nat
    <3>1. /\ s.me.inbound.total_pushed \in Nat /\ s.me.inbound.total_popped \in Nat
          /\ b.total_pushed \in Nat /\ b.total_popped \in Nat /\ b.buffer \in Seq(Byte)
      BY <1>1, <1>3 DEF Streams, ByteStreams
    <3>2. x.got = s.me.inbound.total_pushed /\ x.got = b.total_pushed
      BY <1>5, <1>8, <1>9, <3>1 DEF CopyFlows, CopyLine, Carries
    <3>3. s.me.inbound.total_pushed = s.me.inbound.total_popped
      BY <1>9, <3>1 DEF CopyFlows, CopyLine, Ordered
    <3>4. Len(b.buffer) \in Nat /\ b.total_pushed = b.total_popped + Len(b.buffer)
      BY <1>5, <3>1 DEF Ordered
    <3> QED BY <3>1, <3>2, <3>3, <3>4
  <2> QED BY <1>5, <2>1
<1>10. CopyEndings(w)
  BY <1>3, <1>4, <1>6, <1>8, <1>9 DEF CopyFlows, CopyEndings, IsFinished
<1>11. CopyMoves(s, w)
  BY <1>1, <1>5, <1>6 DEF CopyMoves, Streams, ByteStreams
<1> QED BY <1>7, <1>10, <1>11 DEF CopyFlows, w

\* The outbound stream is written to the socket.
LEMMA WriteSocketInOrder ==
  ASSUME NEW p, NEW s \in CopyWorlds(p), NEW x \in Marks, CopyFlows(s, x),
         CopyBooks(s, FALSE)
  PROVE  LET w == Copy!WriteSocket(s) IN CopyFlows(w, x) /\ CopyMoves(s, w)
<1> DEFINE w == Copy!WriteSocket(s)
           b == w.me.outbound
           f == w.files.toTcp
<1>1. s.me.outbound \in Streams /\ s.files.toTcp \in Files /\ x.sent \in Nat
  BY CopyParts DEF Marks
<1>2. \/ w = [s EXCEPT !.fate = w.fate]
      \/ SocketWritten(s, w)
  BY WriteSocketDoes
<1> HIDE DEF w, b, f
<1>3. CASE w = [s EXCEPT !.fate = w.fate]
  <2>1. w.me = s.me /\ w.files = s.files /\ w.loop = s.loop
    <3>1. s = [me |-> s.me, loop |-> s.loop, files |-> s.files, fate |-> s.fate]
      BY CopyParts
    <3> QED BY <1>3, <3>1
  <2> QED BY <2>1, CopyMovesOn DEF CopyFlows, CopyLine, CopyEndings, CopyMoves, w
<1>4. CASE SocketWritten(s, w)
  <2> DEFINE shut == s.me.outbound_shutdown \/ IsFinished(b)
             does == IsFinished(b) \/ s.me.outbound.buffer # <<>>
  <2>1. /\ b = Copy!Drained(s.me.outbound, s.files.toTcp)
        /\ f.data = AfterWrite(s.files.toTcp, s.me.outbound.buffer).data
        /\ b.closed = s.me.outbound.closed
        /\ w.me = [s.me EXCEPT !.outbound = b, !.outbound_shutdown = shut]
        /\ w.files = [s.files EXCEPT !.toTcp = f]
        /\ w.loop = [s.loop EXCEPT !.serviced = does]
        /\ f.eof = s.files.toTcp.eof
    BY <1>4 DEF SocketWritten, b, f
  <2> HIDE DEF does, shut
  <2>2. b.capacity = s.me.outbound.capacity
    BY <1>1, <2>1, StreamDrained
  <2>3. /\ Ordered(b) /\ b.total_pushed = s.me.outbound.total_pushed
        /\ Carries(f, x.sent, b.total_popped)
        /\ s.me.outbound.buffer = <<>> => f.data = s.files.toTcp.data
    BY <1>1, <2>1, DrainedInOrder DEF CopyFlows, CopyLine, Carries
  <2>4. /\ w.me.outbound = b /\ w.me.inbound = s.me.inbound
        /\ s.me.outbound_shutdown => w.me.outbound_shutdown
        /\ w.files.toTcp = f /\ w.files.input = s.files.input
        /\ w.files.toOwner = s.files.toOwner /\ w.files.output = s.files.output
        /\ w.loop.rules = s.loop.rules
    <3>1. /\ w.me.outbound = b /\ w.me.inbound = s.me.inbound
          /\ w.me.outbound_shutdown = shut
          /\ w.files.toTcp = f /\ w.files.input = s.files.input
          /\ w.files.toOwner = s.files.toOwner /\ w.files.output = s.files.output
          /\ w.loop.rules = s.loop.rules
      BY <2>1, CopyParts DEF CopyWorlds, Copies, FileTables, Loops
    <3> QED BY <3>1 DEF shut
  <2>5. CopyLine(w, x)
    BY <2>3, <2>4 DEF CopyFlows, CopyLine
  <2>6. s.files.toTcp.eof => s.me.outbound.buffer = <<>>
    BY DEF CopyBooks, FilesInv, IsFinished
  <2>7. CopyEndings(w)
    BY <2>1, <2>2, <2>3, <2>4, <2>6 DEF CopyFlows, CopyEndings
  <2>8. CopyMoves(s, w)
    BY <2>4, CopyMovesOn DEF CopyMoves
  <2> QED BY <2>5, <2>7, <2>8 DEF CopyFlows, w
<1> QED BY <1>2, <1>3, <1>4

\* The inbound stream is written to standard output.
LEMMA WriteStdoutInOrder ==
  ASSUME NEW p, NEW s \in CopyWorlds(p), NEW x \in Marks, CopyFlows(s, x),
         CopyBooks(s, FALSE)
  PROVE  LET w == Copy!WriteStdout(s) IN CopyFlows(w, x) /\ CopyMoves(s, w)
<1> DEFINE w == Copy!WriteStdout(s)
           b == w.me.inbound
           f == w.files.output
<1>1. s.me.inbound \in Streams /\ s.files.output \in Files /\ x.taken \in Nat
  BY CopyParts DEF Marks
<1>2. \/ w = [s EXCEPT !.fate = w.fate]
      \/ StdoutWritten(s, w)
  BY WriteStdoutDoes
<1> HIDE DEF w, b, f
<1>3. CASE w = [s EXCEPT !.fate = w.fate]
  <2>1. w.me = s.me /\ w.files = s.files /\ w.loop = s.loop
    <3>1. s = [me |-> s.me, loop |-> s.loop, files |-> s.files, fate |-> s.fate]
      BY CopyParts
    <3> QED BY <1>3, <3>1
  <2> QED BY <2>1, CopyMovesOn DEF CopyFlows, CopyLine, CopyEndings, CopyMoves, w
<1>4. CASE StdoutWritten(s, w)
  <2> DEFINE shut == s.me.inbound_shutdown \/ IsFinished(b)
             does == s.me.inbound.buffer # <<>>
  <2>1. /\ b = Copy!Drained(s.me.inbound, s.files.output)
        /\ f.data = AfterWrite(s.files.output, s.me.inbound.buffer).data
        /\ b.closed = s.me.inbound.closed
        /\ s.me.inbound.buffer = <<>> => b.buffer = <<>>
        /\ w.me = [s.me EXCEPT !.inbound = b, !.inbound_shutdown = shut]
        /\ w.files = [s.files EXCEPT !.output = f]
        /\ w.loop = [s.loop EXCEPT !.serviced = does]
        /\ f.closed = (s.files.output.closed \/ IsFinished(b))
    BY <1>4 DEF StdoutWritten, b, f
  <2> HIDE DEF does, shut
  <2>2. /\ Ordered(b) /\ b.total_pushed = s.me.inbound.total_pushed
        /\ b.total_popped >= s.me.inbound.total_popped
        /\ Carries(f, x.taken, b.total_popped)
    BY <1>1, <2>1, DrainedInOrder DEF CopyFlows, CopyLine, Carries
  <2>3. /\ w.me.inbound = b /\ w.me.outbound = s.me.outbound
        /\ w.me.outbound_shutdown = s.me.outbound_shutdown
        /\ w.files.output = f /\ w.files.input = s.files.input
        /\ w.files.toOwner = s.files.toOwner /\ w.files.toTcp = s.files.toTcp
        /\ w.loop.rules = s.loop.rules
    BY <2>1, CopyParts DEF CopyWorlds, Copies, FileTables, Loops
  <2>4. CopyLine(w, x)
    BY <2>2, <2>3 DEF CopyFlows, CopyLine
  <2>5. s.me.inbound.closed => s.files.toOwner.eof
    BY DEF CopyBooks
  <2>6. CopyEndings(w)
    BY <2>1, <2>3, <2>5 DEF CopyFlows, CopyEndings, IsFinished
  <2>7. CopyMoves(s, w)
    BY <2>1, <2>2, <2>3 DEF CopyMoves
  <2> QED BY <2>4, <2>6, <2>7 DEF CopyFlows, w
<1> QED BY <1>2, <1>3, <1>4

\* What a hang-up means that poll() reported to the owner.
CopyHups(s) ==
  LET Polled(event, r) == r \in DOMAIN s.loop.polled /\ event \in s.loop.polled[r]
  IN  /\ /\ Polled(Hup, "read_stdin") /\ ~Polled(In, "read_stdin")
         /\ "read_stdin" \in s.loop.asked
         => s.files.input.ended /\ s.files.input.data = <<>>
      /\ Polled(Hup, "write_socket") => s.files.toTcp.ended

\* What cancelling a rule of the owner changes.
LEMMA CopyDroppedDoes ==
  ASSUME NEW p, NEW s \in CopyWorlds(p), NEW r \in CopyRuleNames
  PROVE  LET w == Copy!Loop!Erased(Copy!CopyCancelled(s, r), r)
         IN  /\ w.files = s.files /\ w.me.outbound_shutdown = s.me.outbound_shutdown
             /\ Closes(w.me.outbound, s.me.outbound,
                       s.me.outbound.closed \/ r \in {"read_stdin", "write_socket"})
             /\ Closes(w.me.inbound, s.me.inbound,
                       s.me.inbound.closed \/ r \in {"read_socket", "write_stdout"})
             /\ w.loop.asked = s.loop.asked /\ w.loop.polled = s.loop.polled
             /\ ToSet(w.loop.rules) = ToSet(s.loop.rules) \ {r}
<1> DEFINE v == Copy!CopyCancelled(s, r)
           w == Copy!Loop!Erased(v, r)
           c == r \in {"read_stdin", "write_socket"}
           d == r \in {"read_socket", "write_stdout"}
<1>1. /\ v \in CopyWorlds(p)
      /\ v.loop = s.loop /\ v.files = s.files /\ v.fate = s.fate
      /\ v.me.outbound_shutdown = s.me.outbound_shutdown
      /\ v.me.inbound_shutdown = s.me.inbound_shutdown
      /\ Closes(v.me.outbound, s.me.outbound, s.me.outbound.closed \/ c)
      /\ Closes(v.me.inbound, s.me.inbound, s.me.inbound.closed \/ d)
  BY CopyCancelledDoes
<1> HIDE DEF v
<1>2. w \in CopyWorlds(p) /\ Without(w, v, r)
  BY <1>1, CopyErasedDoes
<1> HIDE DEF w
<1> QED BY <1>1, <1>2 DEF Without, w, v

\* A rule of the owner is cancelled.
LEMMA CopyDroppedInOrder ==
  ASSUME NEW p, NEW s \in CopyWorlds(p), NEW x \in Marks, CopyFlows(s, x),
         CopyBooks(s, FALSE), NEW r \in CopyRuleNames,
         r = "read_stdin" => s.files.input.ended /\ s.files.input.data = <<>>,
         r = "write_socket" => s.me.outbound_shutdown
  PROVE  LET w == Copy!Loop!Erased(Copy!CopyCancelled(s, r), r)
         IN  /\ CopyFlows(w, x) /\ CopyMoves(s, w)
             /\ CopyHups(s) => CopyHups(w)
<1> DEFINE w == Copy!Loop!Erased(Copy!CopyCancelled(s, r), r)
<1>1. /\ w.files = s.files /\ w.me.outbound_shutdown = s.me.outbound_shutdown
      /\ Closes(w.me.outbound, s.me.outbound,
                s.me.outbound.closed \/ r \in {"read_stdin", "write_socket"})
      /\ Closes(w.me.inbound, s.me.inbound,
                s.me.inbound.closed \/ r \in {"read_socket", "write_stdout"})
      /\ w.loop.asked = s.loop.asked /\ w.loop.polled = s.loop.polled
      /\ ToSet(w.loop.rules) = ToSet(s.loop.rules) \ {r}
  BY CopyDroppedDoes
<1> HIDE DEF w
<1>3. CopyLine(w, x)
  BY <1>1 DEF CopyFlows, CopyLine, Closes, Ordered
<1>4. s.me.outbound_shutdown => s.me.outbound.closed
  BY DEF CopyBooks, IsFinished
<1>5. /\ w.me.outbound.closed => s.files.input.ended /\ s.files.input.data = <<>>
      /\ s.me.outbound.closed => w.me.outbound.closed
      /\ "read_stdin" \notin ToSet(w.loop.rules) => w.me.outbound.closed
      /\ "write_socket" \notin ToSet(w.loop.rules) => s.me.outbound_shutdown
  BY <1>1, <1>4 DEF CopyFlows, CopyEndings, Closes
<1>6. CopyEndings(w)
  BY <1>1, <1>5 DEF CopyFlows, CopyEndings, Closes, IsFinished
<1>7. CopyMoves(s, w)
  BY <1>1, CopyMovesOn DEF CopyMoves, Closes
<1>8. CopyHups(s) => CopyHups(w)
  BY <1>1 DEF CopyHups
<1> QED BY <1>3, <1>6, <1>7, <1>8 DEF CopyFlows, w

\* The same streams, files and rules.
CopyAlike(w, s) == w.me = s.me /\ w.files = s.files /\ w.loop.rules = s.loop.rules

\* A rule of the owner that is served does what its callback does.
LEMMA CopyFiredIs ==
  ASSUME NEW p, NEW s \in CopyWorlds(p), NEW r \in CopyRuleNames
  PROVE  \E v \in CopyWorlds(p) :
           CopyAlike(v, s) /\ v.fate = s.fate
             /\ CopyAlike(Copy!Loop!Fired(s, r), Copy!CopyCallback(v, r))
<1> DEFINE v == [s EXCEPT !.loop.serviced = FALSE]
           a == Copy!CopyCallback(v, r)
           c == IF a.fate = "alive" /\ CopySpins(a, r) THEN "threw" ELSE a.fate
           w == Copy!Loop!Fired(s, r)
<1>1. /\ v \in CopyWorlds(p)
      /\ v.me = s.me /\ v.files = s.files /\ v.fate = s.fate
      /\ v.loop.rules = s.loop.rules
  <2> DEFINE loop == [s.loop EXCEPT !.serviced = FALSE]
  <2>1. /\ s = [me |-> s.me, loop |-> s.loop, files |-> s.files, fate |-> s.fate]
        /\ s.loop \in Loops(CopyRuleNames, p)
    BY CopyParts
  <2>2. loop \in Loops(CopyRuleNames, p) /\ loop.rules = s.loop.rules
    BY <2>1 DEF Loops
  <2>3. v = [s EXCEPT !.loop.serviced = FALSE]
    OBVIOUS
  <2> HIDE DEF v
  <2>4. v = [me |-> s.me, loop |-> loop, files |-> s.files, fate |-> s.fate]
    BY <2>1, <2>3
  <2> HIDE DEF loop
  <2>5. v \in CopyWorlds(p)
    BY <2>2, <2>4 DEF CopyWorlds
  <2> QED BY <2>2, <2>4, <2>5
<1>2. w = [a EXCEPT !.loop.done = TRUE, !.fate = c]
  BY Zenon DEF Copy!Loop!Fired, CopySpins
<1> HIDE DEF v, w
<1>3. a \in CopyWorlds(p)
  <2>1. /\ Copy!ReadStdin(v) \in CopyWorlds(p) /\ Copy!ReadSocket(v) \in CopyWorlds(p)
        /\ Copy!WriteSocket(v) \in CopyWorlds(p) /\ Copy!WriteStdout(v) \in CopyWorlds(p)
    BY <1>1, ReadStdinDoes, ReadSocketDoes, WriteSocketDoes, WriteStdoutDoes
  <2> QED BY <2>1, CopyRulesAre DEF CopyRuleNames
<1> HIDE DEF a, c
<1>4. a = [me |-> a.me, loop |-> a.loop, files |-> a.files, fate |-> a.fate]
  BY <1>3, CopyParts
<1>5. a.loop \in Loops(CopyRuleNames, p)
  BY <1>3, CopyParts
<1>6. w.me = a.me /\ w.files = a.files /\ w.loop = [a.loop EXCEPT !.done = TRUE]
  BY <1>2, <1>4
<1>7. w.loop.rules = a.loop.rules
  BY <1>5, <1>6 DEF Loops
<1>8. CopyAlike(v, s) /\ CopyAlike(w, a)
  BY <1>1, <1>6, <1>7 DEF CopyAlike
<1> QED BY <1>1, <1>8, Zenon DEF a, w

\* A rule of the owner that is served keeps the order.
LEMMA CopyFiredInOrder ==
  ASSUME NEW p, NEW s \in CopyWorlds(p), NEW x \in Marks, CopyFlows(s, x),
         CopyBooks(s, FALSE), CopyAsked(s),
         NEW r \in CopyRuleNames, Copy!Loop!Ready(s, r)
  PROVE  LET w == Copy!Loop!Fired(s, r) IN CopyFlows(w, x) /\ CopyMoves(s, w)
<1>1. PICK v \in CopyWorlds(p) :
        CopyAlike(v, s) /\ v.fate = s.fate
          /\ CopyAlike(Copy!Loop!Fired(s, r), Copy!CopyCallback(v, r))
  BY CopyFiredIs, Zenon
<1> DEFINE a == Copy!CopyCallback(v, r)
           w == Copy!Loop!Fired(s, r)
<1>2. CopyFlows(v, x) /\ CopyBooks(v, FALSE)
  BY <1>1 DEF CopyAlike, CopyFlows, CopyLine, CopyEndings, CopyBooks
<1>3. r \in s.loop.asked
  BY DEF Copy!Loop!Ready, Copy!Loop!Events
<1>4. CopyFlows(a, x) /\ CopyMoves(v, a)
  <2>1. CASE r = "read_stdin"
    <3>1. AvailableCapacity(v.me.outbound) > 0
      BY <1>1, <1>3, <2>1 DEF CopyAsked, CopyAlike
    <3>2. a = Copy!ReadStdin(v)
      BY <2>1, CopyRulesAre
    <3> HIDE DEF a
    <3> QED BY <1>2, <3>1, <3>2, ReadStdinInOrder
  <2>2. CASE r = "write_socket"
    <3>1. a = Copy!WriteSocket(v)
      BY <2>2, CopyRulesAre
    <3> HIDE DEF a
    <3> QED BY <1>2, <3>1, WriteSocketInOrder
  <2>3. CASE r = "read_socket"
    <3>1. AvailableCapacity(v.me.inbound) > 0
      BY <1>1, <1>3, <2>3 DEF CopyAsked, CopyAlike
    <3>2. a = Copy!ReadSocket(v)
      BY <2>3, CopyRulesAre
    <3> HIDE DEF a
    <3> QED BY <1>2, <3>1, <3>2, ReadSocketInOrder
  <2>4. CASE r = "write_stdout"
    <3>1. a = Copy!WriteStdout(v)
      BY <2>4, CopyRulesAre
    <3> HIDE DEF a
    <3> QED BY <1>2, <3>1, WriteStdoutInOrder
  <2> QED BY <2>1, <2>2, <2>3, <2>4 DEF CopyRuleNames
<1> HIDE DEF a, w
<1>5. w.me = a.me /\ w.files = a.files /\ w.loop.rules = a.loop.rules
  BY <1>1 DEF CopyAlike, a, w
<1>6. v.me = s.me /\ v.files = s.files
  BY <1>1 DEF CopyAlike
<1>7. CopyFlows(w, x)
  BY <1>4, <1>5 DEF CopyFlows, CopyLine, CopyEndings
<1>8. CopyMoves(s, w)
  BY <1>4, <1>5, <1>6 DEF CopyMoves
<1> QED BY <1>7, <1>8 DEF w

\* What the order is while the owner's loop, which was s at first, attends to its
\* rules.
CopyOrderly(w, x, s) ==
  /\ CopyFlows(w, x) /\ CopyMoves(s, w)
  /\ ~w.loop.done => CopyHups(w)

\* Attending to one rule of the owner keeps the order.
LEMMA CopyAttendedInOrder ==
  ASSUME NEW p, NEW first \in CopyWorlds(p), NEW s \in CopyWorlds(p), NEW x \in Marks,
         NEW f, CopyServing(s, FALSE, f), CopyOrderly(s, x, first),
         NEW r \in CopyRuleNames, r \in DOMAIN p
  PROVE  CopyOrderly(Copy!Loop!Attend(s, r), x, first)
<1> DEFINE w == Copy!Loop!Attend(s, r)
<1>1. /\ s.loop.done => w = s
      /\ ~s.loop.done /\ Err \in s.loop.polled[r]
           => w = Copy!Loop!Erased(Copy!CopyCancelled(Copy!CopyErrored(s, r), r), r)
      /\ ~s.loop.done /\ Err \notin s.loop.polled[r] /\ Copy!Loop!HangsUp(s, r)
           => w = Copy!Loop!Erased(Copy!CopyCancelled(s, r), r)
      /\ ~s.loop.done /\ Err \notin s.loop.polled[r] /\ ~Copy!Loop!HangsUp(s, r)
           /\ Copy!Loop!Ready(s, r)
           => w = Copy!Loop!Fired(s, r)
      /\ ~s.loop.done /\ Err \notin s.loop.polled[r] /\ ~Copy!Loop!HangsUp(s, r)
           /\ ~Copy!Loop!Ready(s, r)
           => w = s
  BY Zenon DEF Copy!Loop!Attend
<1>2. w \in CopyWorlds(p)
  BY CopyAttended
<1> HIDE DEF w
<1>3. s.loop.polled = p
  <2>1. s.loop \in Loops(CopyRuleNames, p)
    BY CopyParts
  <2> QED BY <2>1 DEF Loops
<1>4. CopyBooks(s, FALSE) /\ CopyFlows(s, x) /\ CopyMoves(first, s)
  BY DEF CopyServing, CopyOrderly
<1>5. CASE w = s
  BY <1>5 DEF w
<1>6. CASE ~s.loop.done
  <2>1. CopyAsked(s) /\ CopyPolled(s) /\ CopyHups(s)
    BY <1>6 DEF CopyServing, CopyOrderly
  <2>2. Err \notin s.loop.polled[r]
    BY <1>3, <1>4, <2>1 DEF CopyPolled, CopyBooks
  <2>3. ASSUME CopyMoves(s, w) PROVE CopyMoves(first, w)
    BY <1>2, <1>4, <2>3, CopyMovesOn
  <2>4. CASE Copy!Loop!HangsUp(s, r)
    <3>1. /\ Hup \in s.loop.polled[r]
          /\ r = "read_stdin" => r \in s.loop.asked /\ In \notin s.loop.polled[r]
      BY <2>4 DEF Copy!Loop!HangsUp, Copy!Loop!Events, Copy!Loop!Ready, Copy!CopyDirection
    <3>2. r = "read_stdin" => s.files.input.ended /\ s.files.input.data = <<>>
      BY <1>3, <2>1, <3>1 DEF CopyHups
    <3>3. r = "write_socket" => s.me.outbound_shutdown
      BY <1>3, <1>4, <2>1, <3>1 DEF CopyHups, CopyBooks
    <3>4. w = Copy!Loop!Erased(Copy!CopyCancelled(s, r), r)
      BY <1>1, <1>6, <2>2, <2>4
    <3>5. CopyFlows(w, x) /\ CopyMoves(s, w) /\ CopyHups(w)
      BY <1>4, <2>1, <3>2, <3>3, <3>4, CopyDroppedInOrder
    <3> QED BY <2>3, <3>5 DEF CopyOrderly, w
  <2>5. CASE ~Copy!Loop!HangsUp(s, r) /\ Copy!Loop!Ready(s, r)
    <3>1. w = Copy!Loop!Fired(s, r)
      BY <1>1, <1>6, <2>2, <2>5
    <3>2. CopyFlows(w, x) /\ CopyMoves(s, w)
      BY <1>4, <2>1, <2>5, <3>1, CopyFiredInOrder
    <3>3. w.loop.done
      <4>1. /\ w \in CopyWorlds(p)
            /\ CopyBooks(w, FALSE) /\ CopyFrame(s.files, w.files) /\ w.loop.done
        BY <1>3, <1>4, <2>1, <2>5, <3>1, CopyFired
      <4> QED BY <4>1
    <3> QED BY <2>3, <3>2, <3>3 DEF CopyOrderly, w
  <2>6. CASE ~Copy!Loop!HangsUp(s, r) /\ ~Copy!Loop!Ready(s, r)
    BY <1>1, <1>5, <1>6, <2>2, <2>6 DEF w
  <2> QED BY <2>4, <2>5, <2>6
<1> QED BY <1>1, <1>5, <1>6

\* After poll() the owner's loop keeps the order.
LEMMA CopyServedInOrder ==
  ASSUME NEW p, NEW s \in CopyWorlds(p), NEW x \in Marks, CopyFlows(s, x),
         CopyBooks(s, FALSE), CopyAsked(s), CopyPolled(s), ~s.loop.done,
         CopyHups(s), ToSet(s.loop.rules) \subseteq DOMAIN p
  PROVE  LET w == Copy!Loop!Serve(s) IN CopyFlows(w, x) /\ CopyMoves(s, w)
<1> DEFINE R == CopyRuleNames \intersect DOMAIN p
           V == {v \in CopyWorlds(p) : CopyServing(v, FALSE, s.files) /\ CopyOrderly(v, x, s)}
           n == Len(s.loop.rules)
<1>1. s.loop \in Loops(CopyRuleNames, p) /\ s.files \in FileTables
  BY DEF CopyWorlds
<1>2. s.loop.rules \in Seq(R) /\ n \in Nat
  <2>1. s.loop.rules \in Seq(CopyRuleNames)
    BY <1>1 DEF Loops
  <2>2. \A i \in 1..Len(s.loop.rules) : s.loop.rules[i] \in DOMAIN p
    BY <2>1 DEF ToSet
  <2> QED BY <2>1, <2>2, SMTT(30)
<1>3. s \in V
  <2>1. CopyServing(s, FALSE, s.files)
    BY <1>1, CopyFrameStays DEF CopyServing
  <2>2. CopyOrderly(s, x, s)
    BY CopyMovesOn DEF CopyOrderly
  <2> QED BY <2>1, <2>2
<1>4. \A v \in V : \A r \in R : Copy!Loop!Attend(v, r) \in V
  <2> SUFFICES ASSUME NEW v \in V, NEW r \in R PROVE Copy!Loop!Attend(v, r) \in V
    BY Zenon
  <2>1. /\ v \in CopyWorlds(p) /\ CopyServing(v, FALSE, s.files) /\ CopyOrderly(v, x, s)
        /\ r \in CopyRuleNames /\ r \in DOMAIN p
    OBVIOUS
  <2>2. /\ Copy!Loop!Attend(v, r) \in CopyWorlds(p)
        /\ CopyServing(Copy!Loop!Attend(v, r), FALSE, s.files)
    BY <2>1, CopyAttended
  <2>3. CopyOrderly(Copy!Loop!Attend(v, r), x, s)
    BY <2>1, CopyAttendedInOrder
  <2> QED BY <2>2, <2>3
<1> HIDE DEF V
<1>5. PICK f \in [0..Len(s.loop.rules) -> V] :
        /\ f[0] = s
        /\ \A i \in 1..Len(s.loop.rules) :
             f[i] = Copy!Loop!Attend(f[i - 1], s.loop.rules[i])
        /\ Copy!Loop!Serve(s) = Reset(f[Len(s.loop.rules)])
  BY <1>2, <1>3, <1>4, CopyServeIs
<1> DEFINE v == f[n]
           w == Copy!Loop!Serve(s)
<1>6. v \in V /\ w = [v EXCEPT !.loop.polled = <<>>, !.loop.serviced = FALSE,
                               !.loop.done = FALSE]
  BY <1>2, <1>5 DEF Reset
<1> HIDE DEF v, w
<1>7. v \in CopyWorlds(p) /\ CopyOrderly(v, x, s)
  BY <1>6 DEF V
<1>8. /\ v = [me |-> v.me, loop |-> v.loop, files |-> v.files, fate |-> v.fate]
      /\ v.loop \in Loops(CopyRuleNames, p)
  BY <1>7, CopyParts
<1> DEFINE loop == [v.loop EXCEPT !.polled = <<>>, !.serviced = FALSE, !.done = FALSE]
<1>9. w = [me |-> v.me, loop |-> loop, files |-> v.files, fate |-> v.fate]
  BY <1>6, <1>8
<1>10. loop.rules = v.loop.rules
  BY <1>8 DEF Loops
<1> HIDE DEF loop
<1>11. w.me = v.me /\ w.files = v.files /\ w.loop.rules = v.loop.rules
  BY <1>9, <1>10
<1> QED BY <1>7, <1>11 DEF CopyOrderly, CopyFlows, CopyLine, CopyEndings, CopyMoves, w

-----------------------------------------------------------------------------
\* What is known of the outbound stream after the sweep looked at a rule.
CopyLookedOut(s, r) ==
  LET b == s.me.outbound
  IN  /\ r = "read_stdin" => r \in s.loop.asked \/ b.closed \/ b.buffer # <<>>
      /\ r = "write_socket" =>
           \/ r \in s.loop.asked
           \/ b.buffer = <<>> /\ (~b.closed \/ s.me.outbound_shutdown)

\* Looking at one rule of the owner keeps the order.
LEMMA CopyVisitedInOrder ==
  ASSUME NEW p, NEW s \in CopyWorlds(p), NEW x \in Marks, NEW r \in CopyRuleNames,
         CopyFlows(s, x), CopyBooks(s, FALSE)
  PROVE  LET w == Copy!Loop!Visit(s, r)
         IN  /\ CopyFlows(w, x) /\ CopyMoves(s, w)
             /\ CopyLookedOut(w, r)
             /\ \A q : CopyLookedOut(s, q) => CopyLookedOut(w, q)
<1> DEFINE w == Copy!Loop!Visit(s, r)
<1>1. /\ Copy!Loop!IsOver(s, r) => w = Copy!Loop!Erased(Copy!CopyCancelled(s, r), r)
      /\ ~Copy!Loop!IsOver(s, r) /\ Copy!CopyInterested(s, r) => w = AsksToo(s, r)
      /\ ~Copy!Loop!IsOver(s, r) /\ ~Copy!CopyInterested(s, r) => w = s
  BY Zenon DEF Copy!Loop!Visit, AsksToo
<1> HIDE DEF w
<1>2. s.me.outbound.capacity \in Nat /\ Len(s.me.outbound.buffer) \in Nat
  <2>1. s.me.outbound \in Streams
    BY CopyParts
  <2> QED BY <2>1 DEF Streams, ByteStreams
<1>3. CASE Copy!Loop!IsOver(s, r)
  <2>1. r # "write_socket" /\ (r = "read_stdin" => s.files.input.eof)
    <3>1. r = "read_stdin" => Copy!CopyEof(s, r)
      BY <1>3 DEF Copy!Loop!IsOver, Copy!CopyClosed
    <3>2. r # "write_socket"
      BY <1>3 DEF Copy!Loop!IsOver, Copy!CopyClosed, Copy!CopyDirection
    <3> QED BY <3>1, <3>2, CopyRulesAre
  <2>2. r = "read_stdin" =>
          s.me.outbound.closed /\ s.files.input.ended /\ s.files.input.data = <<>>
    BY <2>1 DEF CopyFlows, CopyEndings
  <2>3. w = Copy!Loop!Erased(Copy!CopyCancelled(s, r), r)
    BY <1>1, <1>3
  <2>4. CopyFlows(w, x) /\ CopyMoves(s, w)
    BY <2>1, <2>2, <2>3, CopyDroppedInOrder
  <2>5. /\ w.me.outbound_shutdown = s.me.outbound_shutdown
        /\ Closes(w.me.outbound, s.me.outbound,
                  s.me.outbound.closed \/ r \in {"read_stdin", "write_socket"})
        /\ w.loop.asked = s.loop.asked
    BY <2>3, CopyDroppedDoes
  <2>6. w.me.outbound.closed = s.me.outbound.closed
    <3>1. s.me.outbound.closed \in BOOLEAN
      BY CopyParts DEF Streams, ByteStreams
    <3> QED BY <2>1, <2>2, <2>5, <3>1 DEF Closes
  <2>7. \A q : CopyLookedOut(s, q) => CopyLookedOut(w, q)
    BY <2>5, <2>6 DEF CopyLookedOut, Closes
  <2>8. CopyLookedOut(w, r)
    BY <2>1, <2>2, <2>6 DEF CopyLookedOut
  <2> QED BY <2>4, <2>7, <2>8 DEF w
<1>4. CASE ~Copy!Loop!IsOver(s, r) /\ Copy!CopyInterested(s, r)
  <2>1. /\ w.me = s.me /\ w.files = s.files /\ w.loop.rules = s.loop.rules
        /\ w.loop.asked = s.loop.asked \union {r}
    BY <1>1, <1>4, CopyAsksToo
  <2>2. CopyFlows(w, x)
    BY <2>1 DEF CopyFlows, CopyLine, CopyEndings
  <2>3. CopyMoves(s, w)
    BY <2>1, CopyMovesOn DEF CopyMoves
  <2>4. CopyLookedOut(w, r) /\ \A q : CopyLookedOut(s, q) => CopyLookedOut(w, q)
    BY <2>1 DEF CopyLookedOut
  <2> QED BY <2>2, <2>3, <2>4 DEF w
<1>5. CASE ~Copy!Loop!IsOver(s, r) /\ ~Copy!CopyInterested(s, r)
  <2>1. w = s
    BY <1>1, <1>5
  <2>2. CopyMoves(s, s)
    BY CopyMovesOn
  <2>3. r = "read_stdin" => s.me.outbound.closed \/ s.me.outbound.buffer # <<>>
    <3>1. SUFFICES ASSUME r = "read_stdin", ~s.me.outbound.closed
                   PROVE  s.me.outbound.buffer # <<>>
      OBVIOUS
    <3>2. ~Copy!MayRead(s, s.me.outbound)
      BY <1>5, <3>1, CopyRulesAre
    <3>3. ~(AvailableCapacity(s.me.outbound) > 0)
      BY <3>1, <3>2, CopyOperators DEF Copy!MayRead, CopyBooks
    <3>4. s.me.outbound.capacity > 0
      BY DEF CopyFlows, CopyEndings
    <3> QED BY <1>2, <3>3, <3>4 DEF AvailableCapacity
  <2>4. r = "write_socket" =>
          s.me.outbound.buffer = <<>> /\ (~s.me.outbound.closed \/ s.me.outbound_shutdown)
    <3>1. r = "write_socket" => ~Copy!MayWrite(s.me.outbound, s.me.outbound_shutdown)
      BY <1>5, CopyRulesAre
    <3> QED BY <3>1, CopyOperators DEF Copy!MayWrite, IsFinished
  <2>5. CopyLookedOut(s, r)
    BY <2>3, <2>4 DEF CopyLookedOut
  <2> QED BY <2>1, <2>2, <2>5 DEF w
<1> QED BY <1>3, <1>4, <1>5

\* Before poll() the owner's loop keeps the order; and when it asks for nothing,
\* all that was read was written.
LEMMA CopySweptInOrder ==
  ASSUME NEW p, NEW s \in CopyWorlds(p), NEW x \in Marks,
         CopyFlows(s, x), CopyBooks(s, FALSE)
  PROVE  LET w == Copy!Loop!Sweep(s)
         IN  /\ CopyFlows(w, x) /\ CopyMoves(s, w)
             /\ w.loop.asked = {} => IsFinished(w.me.outbound)
<1> DEFINE base == Unasked(s)
           V    == {v \in CopyWorlds(p) :
                      /\ CopyFlows(v, x) /\ CopyBooks(v, FALSE) /\ CopyAsked(v)
                      /\ CopyMoves(s, v)}
           L    == {l \in V \X CopyRuleNames : CopyLookedOut(l[1], l[2])}
<1>1. /\ s = [me |-> s.me, loop |-> s.loop, files |-> s.files, fate |-> s.fate]
      /\ s.loop \in Loops(CopyRuleNames, p) /\ s.loop.rules \in Seq(CopyRuleNames)
  BY CopyParts DEF Loops
<1>2. /\ base \in CopyWorlds(p)
      /\ base.me = s.me /\ base.files = s.files /\ base.fate = s.fate
      /\ base.loop.rules = s.loop.rules /\ base.loop.asked = {}
  <2> DEFINE loop == [s.loop EXCEPT !.asked = {}]
  <2>1. /\ loop \in Loops(CopyRuleNames, p)
        /\ loop.rules = s.loop.rules /\ loop.asked = {}
    BY <1>1 DEF Loops
  <2>2. base = [s EXCEPT !.loop.asked = {}]
    BY DEF Unasked
  <2> HIDE DEF base
  <2>3. base = [me |-> s.me, loop |-> loop, files |-> s.files, fate |-> s.fate]
    BY <1>1, <2>2
  <2> HIDE DEF loop
  <2>4. base \in CopyWorlds(p)
    BY <2>1, <2>3 DEF CopyWorlds
  <2> QED BY <2>1, <2>3, <2>4
<1>3. base \in V
  <2> HIDE DEF base
  <2>1. CopyBooks(base, FALSE) /\ CopyAsked(base)
    BY <1>2 DEF CopyBooks, CopyAsked
  <2>2. CopyFlows(base, x)
    BY <1>2 DEF CopyFlows, CopyLine, CopyEndings
  <2>3. CopyMoves(s, base)
    BY <1>2, CopyMovesOn DEF CopyMoves
  <2> QED BY <1>2, <2>1, <2>2, <2>3
<1>4. \A v \in V : \A r \in CopyRuleNames :
        /\ Copy!Loop!Visit(v, r) \in V
        /\ << Copy!Loop!Visit(v, r), r >> \in L
        /\ \A q \in CopyRuleNames : << v, q >> \in L => << Copy!Loop!Visit(v, r), q >> \in L
  <2> SUFFICES ASSUME NEW v \in V, NEW r \in CopyRuleNames
               PROVE  /\ Copy!Loop!Visit(v, r) \in V
                      /\ << Copy!Loop!Visit(v, r), r >> \in L
                      /\ \A q \in CopyRuleNames :
                           << v, q >> \in L => << Copy!Loop!Visit(v, r), q >> \in L
    BY Zenon
  <2>1. /\ v \in CopyWorlds(p) /\ CopyFlows(v, x) /\ CopyBooks(v, FALSE) /\ CopyAsked(v)
        /\ CopyMoves(s, v)
    OBVIOUS
  <2> DEFINE w == Copy!Loop!Visit(v, r)
  <2>2. w \in CopyWorlds(p) /\ CopyBooks(w, FALSE) /\ CopyAsked(w)
    BY <2>1, CopyVisited
  <2>3. /\ CopyFlows(w, x) /\ CopyMoves(v, w)
        /\ CopyLookedOut(w, r)
        /\ \A q : CopyLookedOut(v, q) => CopyLookedOut(w, q)
    BY <2>1, CopyVisitedInOrder
  <2> HIDE DEF w
  <2>4. CopyMoves(s, w)
    BY <2>1, <2>2, <2>3, CopyMovesOn
  <2>5. w \in V
    BY <2>2, <2>3, <2>4
  <2> HIDE DEF V
  <2> QED BY <2>3, <2>5 DEF w
<1>5. \A r \in CopyRuleNames : r \notin ToSet(s.loop.rules) => << base, r >> \in L
  <2> HIDE DEF base
  <2>1. \A r \in CopyRuleNames : r \notin ToSet(s.loop.rules) => CopyLookedOut(base, r)
    BY <1>2 DEF CopyBooks, CopyFlows, CopyEndings, CopyLookedOut, IsFinished
  <2> HIDE DEF V
  <2> QED BY <1>3, <2>1
<1> HIDE DEF base, V, L
<1>6. /\ Copy!Loop!Sweep(s) \in V
      /\ \A r \in CopyRuleNames : << Copy!Loop!Sweep(s), r >> \in L
  BY <1>1, <1>3, <1>4, <1>5, CopySweepLooks, Zenon DEF base
<1> DEFINE w == Copy!Loop!Sweep(s)
<1>7. CopyLookedOut(w, "read_stdin") /\ CopyLookedOut(w, "write_socket")
  BY <1>6 DEF L, CopyRuleNames
<1> HIDE DEF w
<1>8. w.loop.asked = {} => IsFinished(w.me.outbound)
  BY <1>7 DEF CopyLookedOut, IsFinished
<1> QED BY <1>6, <1>8 DEF V, w

\* What a hang-up means to the owner when poll() returned.
LEMMA CopyPollInOrder ==
  ASSUME NEW p, NEW s \in CopyWorlds(p)
  PROVE  CopyHups(Copy!Loop!Poll(s))
<1> DEFINE w == Copy!Loop!Poll(s)
           q == [r \in ToSet(s.loop.rules) |-> Copy!Loop!Revents(s, r)]
<1>1. w = [s EXCEPT !.loop.polled = q]
  BY LoopOperators, Zenon DEF Copy!Loop!Poll
<1>2. w.files = s.files /\ w.loop.asked = s.loop.asked
  BY CopyPollDoes
<1> HIDE DEF w
<1>3. /\ s = [me |-> s.me, loop |-> s.loop, files |-> s.files, fate |-> s.fate]
      /\ s.loop \in Loops(CopyRuleNames, p)
      /\ s.files.input \in Files /\ s.files.toTcp \in Files /\ s.files.toOwner \in Files
  BY CopyParts
<1>4. \A r \in DOMAIN q : q[r] = Copy!Loop!Revents(s, r)
  OBVIOUS
<1> HIDE DEF q
<1>5. w.loop.polled = q
  <2> DEFINE loop == [s.loop EXCEPT !.polled = q]
  <2>1. w = [me |-> s.me, loop |-> loop, files |-> s.files, fate |-> s.fate]
    BY <1>1, <1>3
  <2>2. loop.polled = q
    BY <1>3 DEF Loops
  <2> HIDE DEF loop
  <2> QED BY <2>1, <2>2
<1>6. ASSUME NEW r \in DOMAIN q
      PROVE  q[r] = Copy!CopyConditions(s, r)
                      \intersect (Copy!Loop!Events(s, r) \union {Hup, Err})
  BY <1>4, Zenon DEF Copy!Loop!Revents
<1>7. /\ LET c == Copy!CopyConditions(s, "read_stdin")
         IN  /\ Hup \in c => s.files.input.ended
             /\ Hup \in c /\ In \notin c => s.files.input.data = <<>>
      /\ Hup \in Copy!CopyConditions(s, "write_socket") => s.files.toTcp.ended
  <2>1. LET c == Copy!TerminalConditions(s.files.input) IN Hup \notin c
    BY DEF Copy!TerminalConditions
  <2>2. LET c == Copy!PipeConditions(s.files.input)
        IN  /\ Hup \in c => s.files.input.ended
            /\ Hup \in c /\ In \notin c => s.files.input.data = <<>>
    BY DEF Copy!PipeConditions
  <2>3. Hup \in Copy!CopyConditions(s, "write_socket") => s.files.toTcp.ended
    BY <1>3, CopyRulesAre, ConditionsAre
  <2> QED BY <2>1, <2>2, <2>3, CopyRulesAre
<1>8. "read_stdin" \in s.loop.asked => In \in Copy!Loop!Events(s, "read_stdin")
  BY DEF Copy!Loop!Events, Copy!CopyDirection
<1>9. /\ "read_stdin" \in DOMAIN q /\ Hup \in q["read_stdin"]
         /\ ~("read_stdin" \in DOMAIN q /\ In \in q["read_stdin"])
         /\ "read_stdin" \in s.loop.asked
         => s.files.input.ended /\ s.files.input.data = <<>>
      /\ "write_socket" \in DOMAIN q /\ Hup \in q["write_socket"] => s.files.toTcp.ended
  BY <1>6, <1>7, <1>8
<1> QED BY <1>2, <1>5, <1>9, Zenon DEF CopyHups, w

-----------------------------------------------------------------------------
(* The socket, whatever fails.                                              *)

\* What a step may do to what the remote side gave: nothing, end it, or add to it.
RemoteMoves(b, c) ==
  \/ c.total_pushed = b.total_pushed /\ (b.closed => c.closed)
  \/ ~b.closed /\ ~c.closed /\ c.total_pushed > b.total_pushed

\* What a step may do to the two streams of the peer.
TcpMoves(t, w) ==
  /\ w.outbound.total_pushed >= t.outbound.total_pushed
  /\ t.outbound.closed => w.outbound.closed
  /\ RemoteMoves(t.inbound, w.inbound)

\* Both streams of the peer are in order.
TcpOrdered(t) == Ordered(t.outbound) /\ Ordered(t.inbound)

\* A push takes the next bytes.
LEMMA TcpPushInOrder ==
  ASSUME NEW t \in Tcps, Ordered(t.outbound)
  PROVE  LET w == Socket!TcpPush(t)
         IN  Ordered(w.outbound) /\ w.outbound.total_pushed = t.outbound.total_pushed
<1> DEFINE w    == Socket!TcpPush(t)
           rst  == t.rst_sent \/ t.outbound.error
           rest == ReaderPop(t.outbound, 1)
           sent == [t EXCEPT !.in_flight = 1, !.rst_sent = rst]
<1>1. t.outbound \in Streams
  BY DEF Tcps
<1>2. Ordered(rest) /\ rest.total_pushed = t.outbound.total_pushed /\ rest \in Streams
  BY <1>1, PopInOrder, PopStream
<1>3. w = IF t.in_flight > 0 \/ t.fin_sent THEN t
          ELSE IF ~t.syn_sent THEN [sent EXCEPT !.syn_sent = TRUE]
          ELSE IF t.outbound.buffer # <<>> THEN [sent EXCEPT !.outbound = rest]
          ELSE IF t.outbound.closed THEN [sent EXCEPT !.fin_sent = TRUE]
          ELSE t
  BY SocketOperators, Zenon DEF Socket!TcpPush
<1>4. rst \in BOOLEAN
  BY <1>1 DEF Tcps, Streams, ByteStreams
<1> HIDE DEF rst, rest
<1>5. sent \in Tcps /\ sent.outbound = t.outbound
  BY <1>4 DEF Tcps
<1> HIDE DEF sent, w
<1>6. /\ [sent EXCEPT !.syn_sent = TRUE].outbound = t.outbound
      /\ [sent EXCEPT !.outbound = rest].outbound = rest
      /\ [sent EXCEPT !.fin_sent = TRUE].outbound = t.outbound
  BY <1>5 DEF Tcps
<1>7. w.outbound = t.outbound \/ w.outbound = rest
  BY <1>3, <1>6
<1> QED BY <1>2, <1>7 DEF w

\* A segment that is absorbed adds at most the next byte, or the end.
LEMMA AbsorbInOrder ==
  ASSUME NEW t \in Tcps, NEW segment \in Segments, TcpOrdered(t),
         segment = "byte" => ~t.inbound.closed
  PROVE  LET w == Socket!Absorb(t, segment)
         IN  /\ TcpOrdered(w) /\ RemoteMoves(t.inbound, w.inbound)
             /\ w.outbound.total_pushed = t.outbound.total_pushed
             /\ w.inbound.total_popped = t.inbound.total_popped
<1> DEFINE w == Socket!Absorb(t, segment)
<1>1. /\ t.outbound \in Streams /\ t.inbound \in Streams
      /\ Ordered(t.outbound) /\ Ordered(t.inbound)
  BY DEF Tcps, TcpOrdered
<1>2. CASE segment \in {"syn", "synack", "ack", "none", "other", "stale"}
  <2>1. \/ w = [t EXCEPT !.has_ackno = TRUE]
        \/ w = [t EXCEPT !.has_ackno = TRUE, !.in_flight = 0]
        \/ w = [t EXCEPT !.in_flight = 0]
        \/ w = t
    BY <1>2, AbsorbIs, Zenon
  <2> HIDE DEF w
  <2>2. w.outbound = t.outbound /\ w.inbound = t.inbound
    BY <2>1 DEF Tcps
  <2> QED BY <1>1, <2>2 DEF w, TcpOrdered, RemoteMoves
<1>3. CASE segment = "byte"
  <2> DEFINE data == << t.inbound.total_pushed + 1 >>
             b    == WriterPush(t.inbound, data)
  <2>1. data \in Seq(Byte) /\ InOrder(data, t.inbound.total_pushed)
    <3> DEFINE n == t.inbound.total_pushed
    <3>1. n \in Nat
      BY <1>1 DEF Streams, ByteStreams
    <3> HIDE DEF n
    <3>2. /\ << n + 1 >> \in Seq(Byte) /\ Len(<< n + 1 >>) = 1
          /\ \A i \in 1..1 : << n + 1 >>[i] = n + i
      BY <3>1 DEF Byte
    <3> QED BY <3>2 DEF InOrder, n
  <2>2. Least(AvailableCapacity(t.inbound), Len(data)) \in Nat
    BY <1>1 DEF Streams, ByteStreams, AvailableCapacity, Least
  <2> HIDE DEF data
  <2>3. /\ Ordered(b) /\ b.total_popped = t.inbound.total_popped
        /\ b.total_pushed = t.inbound.total_pushed
                              + Least(AvailableCapacity(t.inbound), Len(data))
    BY <1>1, <2>1, PushInOrder
  <2>4. b.closed = t.inbound.closed
    BY <1>1, <2>1, PushStream
  <2>5. w = [t EXCEPT !.inbound = b]
    BY <1>3, AbsorbIs, Zenon DEF data
  <2> HIDE DEF w, b
  <2>6. w.outbound = t.outbound /\ w.inbound = b
    BY <2>5 DEF Tcps
  <2>7. t.inbound.total_pushed \in Nat
    BY <1>1 DEF Streams, ByteStreams
  <2>8. RemoteMoves(t.inbound, b)
    BY <1>3, <2>2, <2>3, <2>4, <2>7 DEF RemoteMoves
  <2> QED BY <1>1, <2>3, <2>6, <2>8 DEF w, TcpOrdered
<1>4. CASE segment = "fin"
  <2> DEFINE b == WriterClose(t.inbound)
  <2>1. /\ Ordered(b) /\ b.total_pushed = t.inbound.total_pushed
        /\ b.total_popped = t.inbound.total_popped /\ b.closed
    BY <1>1, MarkInOrder, MarkStream
  <2>2. w = [t EXCEPT !.inbound = b]
    BY <1>4, AbsorbIs, Zenon
  <2> HIDE DEF w, b
  <2>3. w.outbound = t.outbound /\ w.inbound = b
    BY <2>2 DEF Tcps
  <2> QED BY <1>1, <2>1, <2>3 DEF w, TcpOrdered, RemoteMoves
<1>5. CASE segment = "reset"
  <2> DEFINE b == SetError(t.inbound)
             c == SetError(t.outbound)
  <2>1. /\ Ordered(b) /\ b.total_pushed = t.inbound.total_pushed
        /\ b.total_popped = t.inbound.total_popped /\ b.closed = t.inbound.closed
        /\ Ordered(c) /\ c.total_pushed = t.outbound.total_pushed
    BY <1>1, MarkInOrder, MarkStream
  <2>2. w = [t EXCEPT !.inbound = b, !.outbound = c]
    BY <1>5, AbsorbIs, Zenon
  <2> HIDE DEF w, b, c
  <2>3. w.outbound = c /\ w.inbound = b
    BY <2>2 DEF Tcps
  <2> QED BY <2>1, <2>3 DEF w, TcpOrdered, RemoteMoves
<1> QED BY <1>2, <1>3, <1>4, <1>5 DEF Segments

\* So does a segment that is received.
LEMMA TcpReceiveInOrder ==
  ASSUME NEW t \in Tcps, NEW segment \in Segments, TcpOrdered(t), FinIsLast(t),
         segment = "byte" => ~t.inbound.closed
  PROVE  LET w == Socket!TcpReceive(t, segment)
         IN  /\ TcpOrdered(w) /\ RemoteMoves(t.inbound, w.inbound)
             /\ w.outbound.total_pushed = t.outbound.total_pushed
             /\ w.inbound.total_popped = t.inbound.total_popped
<1> DEFINE a == Socket!Absorb(t, segment)
           b == Socket!TcpPush(a)
           w == Socket!TcpReceive(t, segment)
           l == b.linger /\ ~(b.inbound.closed /\ ~Socket!IsFinished(b.outbound))
<1>1. /\ TcpOrdered(a) /\ RemoteMoves(t.inbound, a.inbound)
      /\ a.outbound.total_pushed = t.outbound.total_pushed
      /\ a.inbound.total_popped = t.inbound.total_popped
  BY AbsorbInOrder
<1>2. a \in Tcps /\ Absorbed(t, segment, a)
  BY AbsorbDoes
<1>3. w = IF ~Socket!TcpActive(t) THEN t ELSE [b EXCEPT !.elapsed = FALSE, !.linger = l]
  BY Zenon DEF Socket!TcpReceive
<1> HIDE DEF a
<1>4. FinIsLast(a)
  BY <1>2 DEF Absorbed, FinIsLast, IsFinished
<1>5. b \in Tcps /\ b.inbound = a.inbound
  BY <1>2, <1>4, TcpPushDoes
<1>6. Ordered(b.outbound) /\ b.outbound.total_pushed = a.outbound.total_pushed
  BY <1>1, <1>2, TcpPushInOrder DEF TcpOrdered
<1> HIDE DEF b, w, l
<1>7. CASE ~Socket!TcpActive(t)
  BY <1>3, <1>7 DEF w, RemoteMoves
<1>8. CASE Socket!TcpActive(t)
  <2>1. w = [b EXCEPT !.elapsed = FALSE, !.linger = l]
    BY <1>3, <1>8
  <2>2. w.inbound = b.inbound /\ w.outbound = b.outbound
    BY <1>5, <2>1 DEF Tcps
  <2> QED BY <1>1, <1>5, <1>6, <2>2 DEF w, TcpOrdered
<1> QED BY <1>7, <1>8

\* The peer's streams and the pair of sockets around them, one after the other,
\* when the owner wrote `upto` bytes and read the first `from`.
SocketLine(s, upto, from) ==
  LET t == s.me.tcp
  IN  /\ TcpOrdered(t)
      /\ Carries(s.files.toTcp, t.outbound.total_pushed, upto)
      /\ Carries(s.files.toOwner, from, t.inbound.total_popped)
      /\ s.files.toTcp.eof => s.files.toTcp.data = <<>>
      /\ s.files.toOwner.eof => s.files.toOwner.data = <<>>

\* The first rule of the socket keeps the order.
LEMMA ReceiveInOrder ==
  ASSUME NEW p, NEW s \in SocketWorlds(p), SocketBooks(s), NEW upto, NEW from,
         SocketLine(s, upto, from),
         s.me.datagram = "byte" => ~s.me.tcp.inbound.closed
  PROVE  LET w == Socket!Receive(s)
         IN  SocketLine(w, upto, from) /\ TcpMoves(s.me.tcp, w.me.tcp)
<1> DEFINE w  == Socket!Receive(s)
           t  == s.me.tcp
           d  == s.me.datagram
           x  == IF d = "other" THEN t ELSE Socket!TcpReceive(t, d)
           me == [s.me EXCEPT !.tcp = x]
<1>1. /\ s = [me |-> s.me, loop |-> s.loop, files |-> s.files, fate |-> s.fate]
      /\ s.me \in Sockets /\ t \in Tcps /\ d \in Segments
  BY SocketParts
<1>2. w = [s EXCEPT !.me.tcp = x, !.loop.serviced = TRUE]
  BY Zenon DEF Socket!Receive
<1>3. FinIsLast(t) /\ TcpOrdered(t)
  BY DEF SocketBooks, FinIsLast, SocketLine
<1>4. /\ TcpOrdered(x) /\ RemoteMoves(t.inbound, x.inbound)
      /\ x.outbound.total_pushed = t.outbound.total_pushed
      /\ x.inbound.total_popped = t.inbound.total_popped
      /\ x.outbound.closed = t.outbound.closed
  <2>1. CASE d = "other"
    <3>1. x = t
      BY <2>1
    <3> HIDE DEF x
    <3> QED BY <1>3, <3>1 DEF RemoteMoves
  <2>2. CASE d # "other"
    <3>1. x = Socket!TcpReceive(t, d)
      BY <2>2
    <3>2. Awake(t)
      BY DEF SocketBooks
    <3> HIDE DEF x, t, d
    <3>3. d = "byte" => ~t.inbound.closed
      BY DEF t, d
    <3> QED BY <1>1, <1>3, <3>1, <3>2, <3>3, TcpReceiveInOrder, TcpReceiveDoes
  <2> QED BY <2>1, <2>2
<1> HIDE DEF x, w
<1>5. w.me = me /\ w.files = s.files
  <2>1. w = [me |-> me, loop |-> [s.loop EXCEPT !.serviced = TRUE],
             files |-> s.files, fate |-> s.fate]
    BY <1>1, <1>2, SocketRuleWorlds, Zenon
  <2> HIDE DEF me
  <2> QED BY <2>1
<1>6. me.tcp = x
  BY <1>1 DEF Sockets
<1> HIDE DEF me
<1>7. SocketLine(w, upto, from)
  BY <1>4, <1>5, <1>6 DEF SocketLine
<1>8. t.outbound.total_pushed \in Nat
  <2>1. t.outbound \in Streams
    BY <1>1 DEF Tcps
  <2> QED BY <2>1 DEF Streams, ByteStreams
<1>9. TcpMoves(t, x)
  BY <1>4, <1>8 DEF TcpMoves
<1> QED BY <1>5, <1>6, <1>7, <1>9 DEF w

\* So does the second, when there is room for a byte.
LEMMA PushBytesInOrder ==
  ASSUME NEW p, NEW s \in SocketWorlds(p), SocketBooks(s),
         NEW upto, NEW from, SocketLine(s, upto, from),
         AvailableCapacity(s.me.tcp.outbound) > 0, ~s.me.outbound_shutdown
  PROVE  LET w == Socket!PushBytes(s)
         IN  SocketLine(w, upto, from) /\ TcpMoves(s.me.tcp, w.me.tcp)
<1> DEFINE w  == Socket!PushBytes(s)
           t  == s.me.tcp
           f  == s.files.toTcp
           size   == AvailableCapacity(t.outbound)
           after  == AfterRead(f, size)
           stream == Copy!Filled(t.outbound, f)
           u  == [t EXCEPT !.outbound = stream]
           x  == Socket!TcpPush(u)
           c  == ReadCounts(f)
           shut == s.me.outbound_shutdown \/ after.eof
           me == [s.me EXCEPT !.tcp = x, !.outbound_shutdown = shut]
           files2 == [s.files EXCEPT !.toTcp = after]
<1>1. /\ s = [me |-> s.me, loop |-> s.loop, files |-> s.files, fate |-> s.fate]
      /\ s.me \in Sockets /\ t \in Tcps /\ f \in Files
      /\ s.files \in FileTables
  BY SocketParts
<1>2. w = [s EXCEPT !.me.tcp = x, !.me.outbound_shutdown = shut,
                    !.files.toTcp = after, !.loop.serviced = c]
  BY SocketOperators, CopyOperators, Zenon DEF Socket!PushBytes, Copy!Filled
<1>3. /\ t.outbound \in Streams /\ size > 0 /\ Ordered(t.outbound) /\ Ordered(t.inbound)
      /\ Carries(f, t.outbound.total_pushed, upto)
      /\ t.outbound.total_pushed \in Nat /\ size \in Nat
  <2>1. t.outbound \in Streams
    BY <1>1 DEF Tcps
  <2>2. \A b \in Streams : b.total_pushed \in Nat /\ AvailableCapacity(b) \in Nat
    BY DEF Streams, ByteStreams, AvailableCapacity
  <2>3. t.outbound.total_pushed \in Nat /\ size \in Nat
    BY <2>1, <2>2
  <2> QED BY <2>1, <2>3 DEF SocketLine, TcpOrdered
<1>4. ~t.fin_sent
  BY DEF SocketBooks, IsFinished
<1> HIDE DEF t, f
<1>5. /\ Ordered(stream) /\ stream.total_pushed >= t.outbound.total_pushed
      /\ Carries(after, stream.total_pushed, upto)
  BY <1>1, <1>3, FilledInOrder
<1>6. stream \in Streams /\ stream.closed = (t.outbound.closed \/ after.eof)
  BY <1>1, <1>3, StreamFilled
<1>7. after.eof = (f.eof \/ (f.data = <<>> /\ f.ended)) /\ (f.data = <<>> => after.data = <<>>)
  <2>1. /\ after.eof = (f.eof \/ (f.data = <<>> /\ f.ended))
        /\ after \in Files /\ Len(after.data) <= Len(f.data)
    BY <1>1, <1>3, ReadFile
  <2> HIDE DEF after
  <2>2. f.data = <<>> => after.data = <<>>
    <3>1. after.data \in Seq(Byte) /\ Len(after.data) \in Nat
      BY <2>1 DEF Files
    <3> SUFFICES ASSUME f.data = <<>> PROVE after.data = <<>>
      OBVIOUS
    <3>2. Len(f.data) = 0
      OBVIOUS
    <3>3. Len(after.data) = 0
      BY <2>1, <3>1, <3>2
    <3> QED BY <3>1, <3>3
  <2> QED BY <2>1, <2>2
<1> HIDE DEF stream, after, size
<1>8. u \in Tcps /\ u.outbound = stream /\ u.inbound = t.inbound /\ ~u.fin_sent
  BY <1>1, <1>4, <1>6 DEF Tcps
<1> HIDE DEF u
<1>9. /\ Ordered(x.outbound) /\ x.outbound.total_pushed = stream.total_pushed
      /\ x.inbound = t.inbound /\ x.outbound.closed = stream.closed
  <2>1. FinIsLast(u)
    BY <1>8 DEF FinIsLast
  <2> QED BY <1>5, <1>8, <2>1, TcpPushDoes, TcpPushInOrder
<1> HIDE DEF x, w, c, shut
<1>10. w.me = me /\ w.files = files2
  <2>1. w = [me |-> me, loop |-> [s.loop EXCEPT !.serviced = c],
             files |-> files2, fate |-> s.fate]
    BY <1>1, <1>2, SocketRuleWorlds, Zenon
  <2> HIDE DEF me, files2
  <2> QED BY <2>1
<1>11. me.tcp = x /\ files2.toTcp = after /\ files2.toOwner = s.files.toOwner
  BY <1>1 DEF Sockets, FileTables
<1> HIDE DEF me, files2
<1>12. /\ Carries(s.files.toOwner, from, t.inbound.total_popped)
       /\ s.files.toOwner.eof => s.files.toOwner.data = <<>>
       /\ f.eof => f.data = <<>>
  BY DEF SocketLine, f, t
<1>13. SocketLine(w, upto, from)
  BY <1>3, <1>5, <1>7, <1>9, <1>10, <1>11, <1>12 DEF SocketLine, TcpOrdered
<1>14. TcpMoves(t, x)
  BY <1>5, <1>6, <1>9 DEF TcpMoves, RemoteMoves
<1> QED BY <1>10, <1>11, <1>13, <1>14 DEF w, t

\* And so does the third.
LEMMA ReadInboundInOrder ==
  ASSUME NEW p, NEW s \in SocketWorlds(p), SocketBooks(s),
         NEW upto, NEW from \in Nat, SocketLine(s, upto, from)
  PROVE  LET w == Socket!ReadInbound(s)
         IN  SocketLine(w, upto, from) /\ TcpMoves(s.me.tcp, w.me.tcp)
<1> DEFINE w  == Socket!ReadInbound(s)
           t  == s.me.tcp
           f  == s.files.toOwner
           buffer == t.inbound.buffer
           b  == Copy!Drained(t.inbound, f)
           sent == AfterWrite(f, buffer)
           ends == IsFinished(b) \/ b.error
           g  == IF ends THEN Shutdown(sent) ELSE sent
           c  == ends \/ buffer # <<>>
           shut == s.me.inbound_shutdown \/ ends
           x  == [t EXCEPT !.inbound = b]
           me == [s.me EXCEPT !.tcp.inbound = b, !.inbound_shutdown = shut]
           files2 == [s.files EXCEPT !.toOwner = g]
<1>1. /\ s = [me |-> s.me, loop |-> s.loop, files |-> s.files, fate |-> s.fate]
      /\ s.me \in Sockets /\ t \in Tcps /\ f \in Files
      /\ s.files \in FileTables
  BY SocketParts
<1>2. w = IF WriteKills(f, buffer) THEN [s EXCEPT !.fate = "killed"]
          ELSE IF WriteThrows(f, buffer) THEN [s EXCEPT !.fate = "threw"]
          ELSE [s EXCEPT !.me.tcp.inbound = b, !.me.inbound_shutdown = shut,
                         !.files.toOwner = g, !.loop.serviced = c]
  BY SocketOperators, CopyOperators, Zenon DEF Socket!ReadInbound, Copy!Drained
<1>3. /\ t.inbound \in Streams /\ t.outbound \in Streams
      /\ Ordered(t.inbound) /\ Ordered(t.outbound)
      /\ Carries(f, from, t.inbound.total_popped)
      /\ Carries(s.files.toTcp, t.outbound.total_pushed, upto)
      /\ s.files.toTcp.eof => s.files.toTcp.data = <<>>
      /\ f.eof => f.data = <<>>
  <2>1. t.inbound \in Streams /\ t.outbound \in Streams
    BY <1>1 DEF Tcps
  <2> QED BY <2>1 DEF SocketLine, TcpOrdered
<1>4. t.outbound.total_pushed \in Nat
  BY <1>3 DEF Streams, ByteStreams
<1>5. f.eof => f.ended
  BY DEF SocketBooks, FilesInv
<1> HIDE DEF w
<1>6. CASE WriteKills(f, buffer) \/ WriteThrows(f, buffer)
  <2>1. w = [s EXCEPT !.fate = "killed"] \/ w = [s EXCEPT !.fate = "threw"]
    BY <1>2, <1>6
  <2>2. w.me = s.me /\ w.files = s.files
    BY <1>1, <2>1
  <2> QED BY <1>4, <2>2 DEF w, SocketLine, TcpMoves, RemoteMoves
<1>7. CASE ~WriteKills(f, buffer) /\ ~WriteThrows(f, buffer)
  <2>1. w = [s EXCEPT !.me.tcp.inbound = b, !.me.inbound_shutdown = shut,
                      !.files.toOwner = g, !.loop.serviced = c]
    BY <1>2, <1>7
  <2>2. /\ Ordered(b) /\ b.total_pushed = t.inbound.total_pushed
        /\ b.total_popped >= t.inbound.total_popped
        /\ Carries(sent, from, b.total_popped)
        /\ buffer = <<>> => sent.data = f.data
    BY <1>1, <1>3, DrainedInOrder
  <2>3. b.closed = t.inbound.closed /\ sent \in Files /\ sent.eof = f.eof
    BY <1>1, <1>3, StreamDrained
  <2>4. f.eof => buffer = <<>>
    BY <1>5, <1>7 DEF WriteKills
  <2> HIDE DEF b, sent, ends, buffer
  <2>5. g.data = sent.data /\ g.eof = sent.eof
    BY <2>3 DEF Shutdown, Files
  <2> HIDE DEF g, shut, c
  <2>6. w.me = me /\ w.files = files2
    <3>1. w = [me |-> me, loop |-> [s.loop EXCEPT !.serviced = c],
               files |-> files2, fate |-> s.fate]
      BY <1>1, <2>1, SocketRuleWorlds, Zenon
    <3> HIDE DEF me, files2
    <3> QED BY <3>1
  <2>7. x.inbound = b /\ x.outbound = t.outbound
    BY <1>1 DEF Tcps
  <2>8. me.tcp = x /\ files2.toOwner = g /\ files2.toTcp = s.files.toTcp
    BY <1>1 DEF Sockets, FileTables
  <2> HIDE DEF me, files2, x
  <2>9. Carries(g, from, b.total_popped) /\ (g.eof => g.data = <<>>)
    BY <1>3, <2>2, <2>3, <2>4, <2>5 DEF Carries
  <2>10. SocketLine(w, upto, from)
    BY <1>3, <2>2, <2>6, <2>7, <2>8, <2>9 DEF SocketLine, TcpOrdered
  <2>11. TcpMoves(t, x)
    BY <1>4, <2>2, <2>3, <2>7 DEF TcpMoves, RemoteMoves
  <2> QED BY <2>6, <2>8, <2>10, <2>11 DEF w
<1> QED BY <1>6, <1>7

\* The same streams and files.
SocketAlike(w, s) == w.me = s.me /\ w.files = s.files

\* A rule of the socket that is served does what its callback does.
LEMMA SocketFiredIs ==
  ASSUME NEW p, NEW s \in SocketWorlds(p), NEW r \in SocketRuleNames,
         SocketBooks(s), SocketAsked(s), SocketPolled(s),
         r \in DOMAIN s.loop.polled, Socket!Loop!Ready(s, r)
  PROVE  \E v \in SocketWorlds(p) :
           SocketAlike(v, s) /\ SocketBooks(v)
             /\ SocketAlike(Socket!Loop!Fired(s, r), Socket!SocketCallback(v, r))
<1> DEFINE v == [s EXCEPT !.loop.serviced = FALSE]
           a == Socket!SocketCallback(v, r)
           c == IF a.fate = "alive" /\ SocketSpins(a, r) THEN "threw" ELSE a.fate
           w == Socket!Loop!Fired(s, r)
<1>1. /\ v \in SocketWorlds(p)
      /\ v.me = s.me /\ v.files = s.files /\ v.fate = s.fate
      /\ v.loop.rules = s.loop.rules /\ v.loop.asked = s.loop.asked
      /\ v.loop.polled = s.loop.polled
  <2> DEFINE loop == [s.loop EXCEPT !.serviced = FALSE]
  <2>1. /\ s = [me |-> s.me, loop |-> s.loop, files |-> s.files, fate |-> s.fate]
        /\ s.loop \in Loops(SocketRuleNames, p)
    BY SocketParts
  <2>2. /\ loop \in Loops(SocketRuleNames, p) /\ loop.rules = s.loop.rules
        /\ loop.asked = s.loop.asked /\ loop.polled = s.loop.polled
    BY <2>1 DEF Loops
  <2>3. v = [s EXCEPT !.loop.serviced = FALSE]
    OBVIOUS
  <2> HIDE DEF v
  <2>4. v = [me |-> s.me, loop |-> loop, files |-> s.files, fate |-> s.fate]
    BY <2>1, <2>3
  <2> HIDE DEF loop
  <2>5. v \in SocketWorlds(p)
    BY <2>2, <2>4 DEF SocketWorlds
  <2> QED BY <2>2, <2>4, <2>5
<1>2. w = [a EXCEPT !.loop.done = TRUE, !.fate = c]
  <2>1. SocketSpins(a, r) <=>
          ~a.loop.serviced /\ ~Socket!SocketClosed(a, r) /\ Socket!SocketInterested(a, r)
    BY Zenon DEF SocketSpins, Socket!SocketClosed
  <2> QED BY <2>1, Zenon DEF Socket!Loop!Fired
<1> HIDE DEF v, w
<1>3. SocketBooks(v) /\ SocketAsked(v) /\ SocketPolled(v)
  BY <1>1 DEF SocketBooks, SocketAsked, SocketPolled, SocketFault
<1>4. /\ r \in v.loop.asked /\ r \in DOMAIN v.loop.polled
      /\ Socket!SocketDirection(r) \in v.loop.polled[r]
  BY <1>1 DEF Socket!Loop!Ready, Socket!Loop!Events
<1>5. a \in SocketWorlds(p)
  <2>1. CASE r = "receive"
    <3>1. v.me.datagram = "byte" => ~v.me.tcp.inbound.closed
      BY <1>3 DEF SocketPolled
    <3>2. a = Socket!Receive(v)
      BY <2>1, SocketRulesAre
    <3> HIDE DEF a
    <3> QED BY <1>1, <1>3, <2>1, <3>1, <3>2, ReceiveKeeps
  <2>2. CASE r = "push"
    <3>1. ~v.me.outbound_shutdown /\ ReadCounts(v.files.toTcp)
      BY <1>3, <1>4, <2>2 DEF SocketAsked, SocketPolled, Socket!SocketDirection
    <3>2. a = Socket!PushBytes(v)
      BY <2>2, SocketRulesAre
    <3> HIDE DEF a
    <3> QED BY <1>1, <1>3, <2>2, <3>1, <3>2, PushBytesKeeps
  <2>3. CASE r = "read_inbound"
    <3>1. /\ \/ v.me.tcp.inbound.buffer # <<>>
             \/ IsFinished(v.me.tcp.inbound) \/ v.me.tcp.inbound.error
          /\ Len(v.files.toOwner.data) < v.files.toOwner.room
      BY <1>3, <1>4, <2>3 DEF SocketAsked, SocketPolled, Socket!SocketDirection
    <3>2. a = Socket!ReadInbound(v)
      BY <2>3, SocketRulesAre
    <3> HIDE DEF a
    <3> QED BY <1>1, <1>3, <2>3, <3>1, <3>2, ReadInboundKeeps
  <2> QED BY <2>1, <2>2, <2>3 DEF SocketRuleNames
<1> HIDE DEF a, c
<1>6. a = [me |-> a.me, loop |-> a.loop, files |-> a.files, fate |-> a.fate]
  BY <1>5, SocketParts
<1>7. w.me = a.me /\ w.files = a.files
  BY <1>2, <1>6
<1>8. SocketAlike(v, s) /\ SocketAlike(w, a)
  BY <1>1, <1>7 DEF SocketAlike
<1> QED BY <1>1, <1>3, <1>8, Zenon DEF a, w

\* A rule of the socket that is served keeps the order.
LEMMA SocketFiredInOrder ==
  ASSUME NEW p, NEW s \in SocketWorlds(p), NEW r \in SocketRuleNames,
         SocketBooks(s), SocketAsked(s), SocketPolled(s),
         r \in DOMAIN s.loop.polled, Socket!Loop!Ready(s, r),
         NEW upto, NEW from \in Nat, SocketLine(s, upto, from)
  PROVE  LET w == Socket!Loop!Fired(s, r)
         IN  SocketLine(w, upto, from) /\ TcpMoves(s.me.tcp, w.me.tcp)
<1>1. PICK v \in SocketWorlds(p) :
        SocketAlike(v, s) /\ SocketBooks(v)
          /\ SocketAlike(Socket!Loop!Fired(s, r), Socket!SocketCallback(v, r))
  BY SocketFiredIs, Zenon
<1> DEFINE a == Socket!SocketCallback(v, r)
           w == Socket!Loop!Fired(s, r)
<1>2. v.me = s.me /\ v.files = s.files /\ SocketBooks(v)
  BY <1>1 DEF SocketAlike
<1>3. SocketLine(v, upto, from)
  BY <1>2 DEF SocketLine
<1>4. r \in s.loop.asked
  BY DEF Socket!Loop!Ready, Socket!Loop!Events
<1>5. SocketLine(a, upto, from) /\ TcpMoves(v.me.tcp, a.me.tcp)
  <2>1. CASE r = "receive"
    <3>1. v.me.datagram = "byte" => ~v.me.tcp.inbound.closed
      BY <1>2 DEF SocketPolled
    <3>2. a = Socket!Receive(v)
      BY <2>1, SocketRulesAre
    <3> HIDE DEF a
    <3> QED BY <1>2, <1>3, <3>1, <3>2, ReceiveInOrder
  <2>2. CASE r = "push"
    <3>1. AvailableCapacity(v.me.tcp.outbound) > 0 /\ ~v.me.outbound_shutdown
      BY <1>2, <1>4, <2>2 DEF SocketAsked
    <3>2. a = Socket!PushBytes(v)
      BY <2>2, SocketRulesAre
    <3> HIDE DEF a
    <3> QED BY <1>2, <1>3, <3>1, <3>2, PushBytesInOrder
  <2>3. CASE r = "read_inbound"
    <3>1. a = Socket!ReadInbound(v)
      BY <2>3, SocketRulesAre
    <3> HIDE DEF a
    <3> QED BY <1>2, <1>3, <3>1, ReadInboundInOrder
  <2> QED BY <2>1, <2>2, <2>3 DEF SocketRuleNames
<1> HIDE DEF a, w
<1>6. w.me = a.me /\ w.files = a.files
  BY <1>1 DEF SocketAlike, a, w
<1>7. SocketLine(w, upto, from)
  BY <1>5, <1>6 DEF SocketLine
<1> QED BY <1>2, <1>5, <1>6, <1>7 DEF w

\* What the order is while the socket's loop, which was s at first, attends to its
\* rules.
SocketOrderly(w, upto, from, s) ==
  /\ SocketLine(w, upto, from) /\ TcpMoves(s.me.tcp, w.me.tcp)
  /\ ~w.loop.done => w.me = s.me

\* Attending to one rule of the socket keeps the order.
LEMMA SocketAttendedInOrder ==
  ASSUME NEW p, NEW first, NEW s \in SocketWorlds(p), NEW upto, NEW from \in Nat,
         NEW fault \in BOOLEAN, NEW f, SocketServing(s, fault, f),
         SocketOrderly(s, upto, from, first),
         NEW r \in SocketRuleNames, r \in DOMAIN p
  PROVE  SocketOrderly(Socket!Loop!Attend(s, r), upto, from, first)
<1> DEFINE w == Socket!Loop!Attend(s, r)
<1>1. /\ s.loop.done => w = s
      /\ ~s.loop.done /\ Err \notin s.loop.polled[r] /\ Socket!Loop!HangsUp(s, r)
           => w = Socket!Loop!Erased(Socket!SocketCancelled(s, r), r)
      /\ ~s.loop.done /\ Err \notin s.loop.polled[r] /\ ~Socket!Loop!HangsUp(s, r)
           /\ Socket!Loop!Ready(s, r)
           => w = Socket!Loop!Fired(s, r)
      /\ ~s.loop.done /\ Err \notin s.loop.polled[r] /\ ~Socket!Loop!HangsUp(s, r)
           /\ ~Socket!Loop!Ready(s, r)
           => w = s
  BY Zenon DEF Socket!Loop!Attend
<1> HIDE DEF w
<1>2. s.loop.polled = p
  BY SocketParts
<1>3. CASE w = s
  BY <1>3 DEF w
<1>4. CASE ~s.loop.done
  <2>1. /\ SocketBooks(s) /\ SocketAsked(s) /\ SocketPolled(s)
        /\ SocketLine(s, upto, from) /\ TcpMoves(first.me.tcp, s.me.tcp)
        /\ s.me = first.me
    BY <1>4 DEF SocketServing, SocketOrderly
  <2>2. Err \notin s.loop.polled[r]
    BY <1>2, <2>1 DEF SocketPolled
  <2>3. CASE Socket!Loop!HangsUp(s, r)
    <3>1. r # "push"
      BY <1>2, <2>1, <2>3 DEF SocketPolled, Socket!Loop!HangsUp, Socket!Loop!Events,
         Socket!Loop!Ready, Socket!SocketDirection
    <3>2. Socket!SocketCancelled(s, r) = s
      BY <3>1, Zenon DEF Socket!SocketCancelled
    <3>3. w = Socket!Loop!Erased(s, r)
      BY <1>1, <1>4, <2>2, <2>3, <3>2
    <3>4. w \in SocketWorlds(p) /\ Without(w, s, r)
      BY <3>3, SocketErasedDoes
    <3> QED BY <2>1, <3>4 DEF SocketOrderly, SocketLine, Without, w
  <2>4. CASE ~Socket!Loop!HangsUp(s, r) /\ Socket!Loop!Ready(s, r)
    <3>1. w = Socket!Loop!Fired(s, r)
      BY <1>1, <1>4, <2>2, <2>4
    <3>2. SocketLine(w, upto, from) /\ TcpMoves(s.me.tcp, w.me.tcp)
      BY <1>2, <2>1, <2>4, <3>1, SocketFiredInOrder
    <3>3. w.loop.done
      <4>1. /\ w \in SocketWorlds(p)
            /\ SocketBooks(w) /\ SocketFrame(s.files, w.files) /\ w.loop.done
            /\ SocketFault(s) => SocketFault(w)
        BY <1>2, <2>1, <2>4, <3>1, SocketFired
      <4> QED BY <4>1
    <3> QED BY <2>1, <3>2, <3>3 DEF SocketOrderly, w
  <2>5. CASE ~Socket!Loop!HangsUp(s, r) /\ ~Socket!Loop!Ready(s, r)
    BY <1>1, <1>3, <1>4, <2>2, <2>5 DEF w
  <2> QED BY <2>3, <2>4, <2>5
<1> QED BY <1>1, <1>3, <1>4

\* A sequence whose elements are all in a smaller set.
LEMMA OfSmallerSet ==
  ASSUME NEW S, NEW T, NEW q \in Seq(S), \A i \in 1..Len(q) : q[i] \in T
  PROVE  q \in Seq(S \intersect T) /\ Len(q) \in Nat
OBVIOUS

\* After poll() the socket's loop keeps the order.
LEMMA SocketServedInOrder ==
  ASSUME NEW p, NEW s \in SocketWorlds(p),
         SocketBooks(s), SocketAsked(s), SocketPolled(s), ~s.loop.done,
         ToSet(s.loop.rules) \subseteq DOMAIN p,
         NEW upto, NEW from \in Nat, SocketLine(s, upto, from)
  PROVE  LET w == Socket!Loop!Serve(s)
         IN  SocketLine(w, upto, from) /\ TcpMoves(s.me.tcp, w.me.tcp)
<1> DEFINE R == SocketRuleNames \intersect DOMAIN p
           fault == SocketFault(s)
           V == {v \in SocketWorlds(p) :
                   SocketServing(v, fault, s.files) /\ SocketOrderly(v, upto, from, s)}
           n == Len(s.loop.rules)
<1>1. s.loop \in Loops(SocketRuleNames, p) /\ s.files \in FileTables /\ s.me.tcp \in Tcps
  BY SocketParts
<1>2. s.loop.rules \in Seq(R) /\ n \in Nat
  <2>1. s.loop.rules \in Seq(SocketRuleNames)
    BY <1>1 DEF Loops
  <2>2. \A i \in 1..Len(s.loop.rules) : s.loop.rules[i] \in DOMAIN p
    BY <2>1 DEF ToSet
  <2> QED BY <2>1, <2>2, OfSmallerSet
<1>3. fault \in BOOLEAN
  BY DEF SocketFault
<1>4. s \in V
  <2>1. SocketServing(s, fault, s.files)
    BY <1>1, SocketFrameStays DEF SocketServing
  <2>2. s.me.tcp.outbound.total_pushed \in Nat
    <3>1. s.me.tcp.outbound \in Streams
      BY <1>1 DEF Tcps
    <3> QED BY <3>1 DEF Streams, ByteStreams
  <2>3. TcpMoves(s.me.tcp, s.me.tcp)
    BY <2>2 DEF TcpMoves, RemoteMoves
  <2> QED BY <2>1, <2>3 DEF SocketOrderly
<1> HIDE DEF fault
<1>5. \A v \in V : \A r \in R : Socket!Loop!Attend(v, r) \in V
  <2> SUFFICES ASSUME NEW v \in V, NEW r \in R PROVE Socket!Loop!Attend(v, r) \in V
    BY Zenon
  <2>1. v \in SocketWorlds(p) /\ SocketServing(v, fault, s.files)
        /\ SocketOrderly(v, upto, from, s)
        /\ r \in SocketRuleNames /\ r \in DOMAIN p
    OBVIOUS
  <2>2. /\ Socket!Loop!Attend(v, r) \in SocketWorlds(p)
        /\ SocketServing(Socket!Loop!Attend(v, r), fault, s.files)
    BY <1>3, <2>1, SocketAttended
  <2>3. SocketOrderly(Socket!Loop!Attend(v, r), upto, from, s)
    BY <1>3, <2>1, SocketAttendedInOrder
  <2> QED BY <2>2, <2>3
<1> HIDE DEF V
<1>6. PICK f \in [0..Len(s.loop.rules) -> V] :
        /\ f[0] = s
        /\ \A i \in 1..Len(s.loop.rules) :
             f[i] = Socket!Loop!Attend(f[i - 1], s.loop.rules[i])
        /\ Socket!Loop!Serve(s) = Reset(f[Len(s.loop.rules)])
  BY <1>2, <1>4, <1>5, SocketServeIs
<1> DEFINE v == f[n]
           w == Socket!Loop!Serve(s)
<1>7. v \in V /\ w = Reset(v)
  BY <1>2, <1>6
<1> HIDE DEF v
<1>8. v \in SocketWorlds(p) /\ SocketLine(v, upto, from) /\ TcpMoves(s.me.tcp, v.me.tcp)
  BY <1>7 DEF V, SocketOrderly
<1>9. w = [v EXCEPT !.loop.polled = <<>>, !.loop.serviced = FALSE, !.loop.done = FALSE]
  BY <1>7 DEF Reset
<1> HIDE DEF w
<1>10. v = [me |-> v.me, loop |-> v.loop, files |-> v.files, fate |-> v.fate]
  BY <1>8, SocketParts
<1>11. w.me = v.me /\ w.files = v.files
  BY <1>9, <1>10
<1>12. SocketLine(w, upto, from)
  BY <1>8, <1>11 DEF SocketLine
<1> QED BY <1>8, <1>11, <1>12 DEF w

-----------------------------------------------------------------------------
(* The program, as long as nothing outside fails.                           *)

\* How far the bytes came.
Now ==
  [typed |-> typed, sent |-> socket.tcp.outbound.total_pushed,
   got |-> socket.tcp.inbound.total_popped, taken |-> taken]

\* From standard input to TCP, and from TCP to standard output, each byte is in one
\* place, in order, and what was closed was read to its end.
LineInv ==
  /\ CopyFlows(CopyWorld, Now)
  /\ TcpOrdered(socket.tcp)
  /\ copyTurn = "serve" => CopyHups(CopyWorld)
  /\ files.toTcp.ended \/ stage \in {"closing", "joining", "over"}
       => IsFinished(copy.outbound)

BytesInv == ProgramInv /\ taken \in Nat /\ (~Faulted => LineInv)

\* What a step may do to either direction: move bytes on, and end it; or take
\* bytes in at its beginning, or the end.
ForthMoves ==
  LET b == socket.tcp.outbound
  IN  \/ /\ typed' = typed /\ files'.input.ended = files.input.ended
         /\ b'.total_pushed >= b.total_pushed /\ (b.closed => b'.closed)
      \/ /\ ~files.input.ended /\ files'.input.ended = files.input.ended
         /\ typed' > typed /\ b' = b
      \/ files'.input.ended = TRUE /\ typed' = typed /\ b' = b

BackMoves ==
  LET b == socket.tcp.inbound
      c == copy.inbound
  IN  \/ /\ b' = b /\ c'.total_popped >= c.total_popped
         /\ files.output.closed => files'.output.closed
      \/ /\ RemoteMoves(b, b') /\ c' = c
         /\ files'.output.closed = files.output.closed

\* A step that keeps the order.
LineStep ==
  /\ Faulted => Faulted'
  /\ ~Faulted /\ ~Faulted' => LineInv' /\ ForthMoves /\ BackMoves

\* The streams of the program.
LEMMA StreamsAre ==
  ASSUME ProgramInv
  PROVE  /\ \A b \in {copy.outbound, copy.inbound, socket.tcp.outbound, socket.tcp.inbound} :
              /\ b \in Streams /\ b.total_pushed \in Nat /\ b.total_popped \in Nat
              /\ b.closed \in BOOLEAN /\ b.buffer \in Seq(Byte)
         /\ typed \in Nat /\ socket \in Sockets /\ socket.tcp \in Tcps
         /\ taken \in Nat => Now \in Marks
<1>1. /\ CopyWorld \in CopyWorlds(copyLoop.polled)
      /\ SocketWorld \in SocketWorlds(socketLoop.polled) /\ typed \in Nat
  BY DEF ProgramInv, OwnerInv, ThreadInv
<1>2. copy.outbound \in Streams /\ copy.inbound \in Streams
  BY <1>1, CopyParts, WorldsAre
<1>3. /\ socket \in Sockets /\ socket.tcp \in Tcps
      /\ socket.tcp.outbound \in Streams /\ socket.tcp.inbound \in Streams
  <2>1. socket \in Sockets /\ socket.tcp \in Tcps
    BY <1>1, SocketParts, WorldsAre
  <2> QED BY <2>1 DEF Tcps
<1>4. \A b \in Streams : /\ b.total_pushed \in Nat /\ b.total_popped \in Nat
                         /\ b.closed \in BOOLEAN /\ b.buffer \in Seq(Byte)
  BY DEF Streams, ByteStreams
<1>5. taken \in Nat => Now \in Marks
  BY <1>1, <1>3, <1>4 DEF Now, Marks
<1> QED BY <1>1, <1>2, <1>3, <1>4, <1>5

\* What others do to the files keeps the order of the owner.
LEMMA FlowsUndisturbed ==
  ASSUME NEW s, NEW w, NEW x, NEW y, CopyFlows(s, x),
         w.me = s.me, w.loop = s.loop,
         Carries(w.files.input, s.me.outbound.total_pushed, y.typed),
         Carries(w.files.toTcp, y.sent, s.me.outbound.total_popped),
         Carries(w.files.toOwner, s.me.inbound.total_pushed, y.got),
         Carries(w.files.output, y.taken, s.me.inbound.total_popped),
         w.files.input.eof => s.files.input.eof,
         s.files.input.ended => w.files.input = s.files.input,
         w.files.toTcp.eof => w.files.toTcp.data = <<>>,
         w.files.toOwner.eof => w.files.toOwner.data = <<>>,
         w.files.output.closed => s.files.output.closed,
         s.files.toOwner.eof => w.files.toOwner.eof
  PROVE  CopyFlows(w, y)
BY DEF CopyFlows, CopyLine, CopyEndings

\* ... and what was reported hung up to it stays true.
LEMMA HupsUndisturbed ==
  ASSUME NEW s, NEW w, CopyHups(s), w.loop = s.loop,
         s.files.input.ended => w.files.input = s.files.input,
         s.files.toTcp.ended => w.files.toTcp.ended
  PROVE  CopyHups(w)
BY DEF CopyHups

\* A step of neither loop, that moves bytes only at the ends of the program.
LEMMA FilesStepInOrder ==
  ASSUME ProgramInv, LineInv, copy' = copy, copyLoop' = copyLoop, copyTurn' = copyTurn,
         socket' = socket,
         Carries(files'.input, copy.outbound.total_pushed, typed'),
         files'.input.eof = files.input.eof,
         files.input.ended => files'.input = files.input,
         files'.toTcp.data = files.toTcp.data, files'.toTcp.eof = files.toTcp.eof,
         files.toTcp.ended => files'.toTcp.ended,
         files'.toOwner.data = files.toOwner.data, files'.toOwner.eof = files.toOwner.eof,
         Carries(files'.output, taken', copy.inbound.total_popped),
         files'.output.closed = files.output.closed,
         files'.toTcp.ended \/ stage' \in {"closing", "joining", "over"}
           => IsFinished(copy.outbound)
  PROVE  LineInv'
<1> DEFINE s == CopyWorld
           w == CopyWorld'
           x == Now
           y == Now'
<1>1. /\ w.me = copy /\ w.loop = copyLoop /\ w.files = files'
      /\ s.me = copy /\ s.loop = copyLoop /\ s.files = files
  BY DEF CopyWorld
<1>2. /\ y.typed = typed' /\ y.taken = taken' /\ y.sent = x.sent /\ y.got = x.got
  BY DEF Now
<1>3. CopyFlows(s, x) /\ (copyTurn = "serve" => CopyHups(s))
  BY DEF LineInv
<1> HIDE DEF s, w, x, y
<1>4. /\ Carries(w.files.toTcp, y.sent, s.me.outbound.total_popped)
      /\ Carries(w.files.toOwner, s.me.inbound.total_pushed, y.got)
      /\ w.files.toTcp.eof => w.files.toTcp.data = <<>>
      /\ w.files.toOwner.eof => w.files.toOwner.data = <<>>
  BY <1>1, <1>2, <1>3 DEF CopyFlows, CopyLine, CopyEndings, Carries
<1>5. CopyFlows(w, y)
  BY <1>1, <1>2, <1>3, <1>4, FlowsUndisturbed
<1>6. copyTurn' = "serve" => CopyHups(w)
  BY <1>1, <1>3, HupsUndisturbed
<1>7. TcpOrdered(socket.tcp)'
  BY DEF LineInv
<1> QED BY <1>5, <1>6, <1>7 DEF LineInv, w, y

\* What the order says of the files, and of the two ends.
LEMMA LineSays ==
  ASSUME LineInv
  PROVE  /\ Carries(files.input, copy.outbound.total_pushed, typed)
         /\ Carries(files.toTcp, socket.tcp.outbound.total_pushed, copy.outbound.total_popped)
         /\ Carries(files.toOwner, copy.inbound.total_pushed, socket.tcp.inbound.total_popped)
         /\ Carries(files.output, taken, copy.inbound.total_popped)
         /\ Ordered(copy.outbound) /\ Ordered(copy.inbound)
         /\ Ordered(socket.tcp.outbound) /\ Ordered(socket.tcp.inbound)
         /\ copy.outbound.closed => files.input.ended /\ files.input.data = <<>>
         /\ files.toTcp.eof => files.toTcp.data = <<>>
         /\ files.toOwner.eof => files.toOwner.data = <<>>
         /\ files.output.closed => IsFinished(copy.inbound) /\ files.toOwner.eof
<1>1. CopyLine(CopyWorld, Now) /\ CopyEndings(CopyWorld)
  BY DEF LineInv, CopyFlows
<1>2. /\ Now.typed = typed /\ Now.taken = taken
      /\ Now.sent = socket.tcp.outbound.total_pushed
      /\ Now.got = socket.tcp.inbound.total_popped
  BY DEF Now
<1>3. Ordered(socket.tcp.outbound) /\ Ordered(socket.tcp.inbound)
  BY DEF LineInv, TcpOrdered
<1> QED BY <1>1, <1>2, <1>3, WorldsAre DEF CopyLine, CopyEndings

\* Bytes stay where they are when nothing but the ends of the pair changes.
LEMMA StandsStill ==
  ASSUME ProgramInv, UNCHANGED << copy, socket, typed >>,
         files'.input = files.input, files'.output.closed = files.output.closed
  PROVE  ForthMoves /\ BackMoves
<1>1. /\ copy.inbound.total_popped \in Nat /\ socket.tcp.outbound.total_pushed \in Nat
  BY StreamsAre
<1> QED BY <1>1 DEF ForthMoves, BackMoves

\* Shutting the pair down keeps the order, after the last byte of the owner.
LEMMA PairShutInOrder ==
  ASSUME BytesInv, files' = PairShut, UNCHANGED << owner, peer, typed, taken >>,
         LineInv => IsFinished(copy.outbound) \/ Faulted
  PROVE  LineStep
<1>0. ProgramInv /\ (~Faulted => LineInv)
  BY DEF BytesInv
<1>1. /\ files'.input = files.input /\ files'.output = files.output
      /\ files'.toTcp.data = files.toTcp.data /\ files'.toTcp.eof = files.toTcp.eof
      /\ files'.toTcp.ended = TRUE
      /\ files'.toOwner.data = files.toOwner.data /\ files'.toOwner.eof = files.toOwner.eof
  <2> DEFINE a == Shutdown(files.toTcp)
             b == Shutdown(files.toOwner)
  <2>1. /\ a.data = files.toTcp.data /\ a.eof = files.toTcp.eof /\ a.ended = TRUE
        /\ b.data = files.toOwner.data /\ b.eof = files.toOwner.eof
    BY <1>0, FilesAre DEF Shutdown, Files
  <2>2. files' = [files EXCEPT !.toTcp = a, !.toOwner = b]
    BY DEF PairShut
  <2> HIDE DEF a, b
  <2>3. /\ files'.toTcp = a /\ files'.toOwner = b
        /\ files'.input = files.input /\ files'.output = files.output
    BY <1>0, <2>2, FilesAre
  <2> QED BY <2>1, <2>3
<1>2. UNCHANGED << copy, copyLoop, copyTurn, socket >>
  BY DEF owner, peer
<1>3. Faulted' <=> Faulted
  BY <1>1, <1>2 DEF Faulted
<1>4. ForthMoves /\ BackMoves
  BY <1>0, <1>1, <1>2, StandsStill
<1>5. LineInv /\ ~Faulted => LineInv'
  <2> SUFFICES ASSUME LineInv, ~Faulted PROVE LineInv'
    OBVIOUS
  <2> QED BY <1>0, <1>1, <1>2, LineSays, FilesStepInOrder
<1> QED BY <1>0, <1>3, <1>4, <1>5 DEF LineStep

\* wait_until_closed() keeps the order: the owner wrote its last byte before.
LEMMA WaitUntilClosedInOrder ==
  ASSUME BytesInv, WaitUntilClosed
  PROVE  LineStep
<1>1. /\ stage = "closing" /\ files' = PairShut
      /\ UNCHANGED << owner, peer, typed, taken >>
  BY DEF WaitUntilClosed, outside
<1>2. LineInv => IsFinished(copy.outbound)
  BY <1>1 DEF LineInv
<1> QED BY <1>1, <1>2, PairShutInOrder

\* So does the end of the thread: TCP has the last byte by then.
LEMMA FinishInOrder ==
  ASSUME BytesInv, Finish
  PROVE  LineStep
<1> DEFINE t == socket.tcp
<1>1. /\ socketTurn = "poll" /\ (Socket!Loop!NothingToPoll(SocketWorld) \/ abort)
      /\ files' = PairShut /\ UNCHANGED << owner, peer, typed, taken >>
  BY DEF Finish, CanFinish, outside
<1>2. ProgramInv
  BY DEF BytesInv
<1>3. /\ SocketIdle(SocketWorld) /\ SocketBooks(SocketWorld)
      /\ SocketWorld.loop.asked = {}
  BY <1>1, <1>2, WorldsAre DEF ProgramInv, ThreadInv, Socket!Loop!NothingToPoll
<1>4. ~Socket!TcpActive(t)
  BY <1>3, WorldsAre DEF SocketIdle
<1>5. /\ t.outbound.error => t.inbound.error
      /\ t.outbound.closed <=> files.toTcp.eof
      /\ files.toTcp.eof => files.toTcp.ended
  BY <1>3, WorldsAre DEF SocketBooks, FilesInv
<1>6. t.inbound.error \/ IsFinished(t.outbound)
  BY <1>4, <1>5, SocketOperators DEF Socket!TcpActive, Socket!SenderActive
<1>7. files.toTcp.ended \/ Faulted
  BY <1>5, <1>6 DEF IsFinished, Faulted
<1>8. LineInv => IsFinished(copy.outbound) \/ Faulted
  BY <1>7 DEF LineInv
<1> QED BY <1>1, <1>8, PairShutInOrder

\* And so does the owner that joined the thread.
LEMMA JoinInOrder ==
  ASSUME BytesInv, Join
  PROVE  LineStep
<1>1. /\ stage = "joining" /\ files' = files
      /\ UNCHANGED << owner, peer, typed, taken >>
  BY DEF Join, outside
<1>2. UNCHANGED << copy, copyLoop, copyTurn, socket >>
  BY <1>1 DEF owner, peer
<1>3. ProgramInv /\ (~Faulted => LineInv) /\ Faulted' = Faulted
  BY <1>1, <1>2 DEF BytesInv, Faulted
<1>4. ForthMoves /\ BackMoves
  BY <1>1, <1>2, <1>3, StandsStill
<1>5. LineInv => LineInv'
  <2> SUFFICES ASSUME LineInv PROVE LineInv'
    OBVIOUS
  <2>1. IsFinished(copy.outbound)
    BY <1>1 DEF LineInv
  <2> QED BY <1>1, <1>2, <1>3, <2>1, LineSays, FilesStepInOrder
<1> QED BY <1>3, <1>4, <1>5 DEF LineStep

\* A byte is typed after those before it.
LEMMA TypeInOrder ==
  ASSUME BytesInv, Type
  PROVE  LineStep
<1> DEFINE f == files.input
           x == Append(f.data, typed + 1)
           g == [f EXCEPT !.data = x]
<1>1. /\ ~f.ended /\ typed' = typed + 1
      /\ files' = [files EXCEPT !.input.data = x]
      /\ UNCHANGED << stage, owner, peer, taken >>
  BY DEF Type
<1>2. ProgramInv /\ (~Faulted => LineInv) /\ typed \in Nat
  BY StreamsAre DEF BytesInv
<1>3. /\ files = [terminal |-> files.terminal, input |-> f,
                  output |-> files.output, toTcp |-> files.toTcp,
                  toOwner |-> files.toOwner]
      /\ f \in Files
  BY <1>2, FilesAre
<1>4. f.data \in Seq(Byte) /\ Len(f.data) \in Nat
  BY <1>3 DEF Files
<1>5. g.data = x /\ g.eof = f.eof /\ g.ended = f.ended
  BY <1>3 DEF Files
<1> HIDE DEF x
<1>6. files' = [files EXCEPT !.input = g]
  BY <1>1, <1>3
<1> HIDE DEF g
<1>7. /\ files'.input = g /\ files'.output = files.output
      /\ files'.toTcp = files.toTcp /\ files'.toOwner = files.toOwner
  BY <1>3, <1>6
<1> HIDE DEF f
<1>8. UNCHANGED << copy, copyLoop, copyTurn, socket >>
  BY <1>1 DEF owner, peer
<1>9. Faulted' <=> Faulted
  BY <1>7, <1>8 DEF Faulted
<1>10. ASSUME LineInv PROVE LineInv'
  <2> DEFINE n == copy.outbound.total_pushed
  <2>1. Carries(f, n, typed) /\ n \in Nat
    BY <1>2, <1>10, LineSays, StreamsAre DEF f
  <2> HIDE DEF n
  <2>2. Len(x) = Len(f.data) + 1 /\ x[Len(f.data) + 1] = typed + 1
        /\ \A i \in 1..Len(f.data) : x[i] = f.data[i]
    BY <1>4 DEF x
  <2>3. typed' = n + Len(x)
    BY <1>1, <1>4, <2>1, <2>2 DEF Carries
  <2>4. InOrder(x, n)
    <3> SUFFICES ASSUME NEW i \in 1..Len(x) PROVE x[i] = n + i
      BY DEF InOrder
    <3>1. CASE i \in 1..Len(f.data)
      BY <2>1, <2>2, <3>1 DEF Carries, InOrder
    <3>2. CASE i = Len(f.data) + 1
      <4>1. typed = n + Len(f.data)
        BY <2>1 DEF Carries
      <4> QED BY <1>4, <2>1, <2>2, <3>2, <4>1
    <3> QED BY <1>4, <2>2, <3>1, <3>2
  <2>5. Carries(files'.input, n, typed')
    BY <1>5, <1>7, <2>3, <2>4 DEF Carries
  <2>6. Carries(files'.output, taken', copy.inbound.total_popped)
    BY <1>1, <1>7, <1>10, LineSays
  <2>7. files'.toTcp.ended \/ stage' \in {"closing", "joining", "over"}
          => IsFinished(copy.outbound)
    BY <1>1, <1>7, <1>10 DEF LineInv
  <2> QED BY <1>1, <1>2, <1>5, <1>7, <1>8, <1>10, <2>5, <2>6, <2>7, FilesStepInOrder DEF n, f
<1>11. ForthMoves
  <2>1. typed' > typed
    BY <1>1, <1>2
  <2> QED BY <1>1, <1>5, <1>7, <1>8, <2>1 DEF ForthMoves, f
<1>12. BackMoves
  <2>1. copy.inbound.total_popped \in Nat
    BY <1>2, StreamsAre
  <2> QED BY <1>7, <1>8, <2>1 DEF BackMoves
<1> QED BY <1>2, <1>9, <1>10, <1>11, <1>12 DEF LineStep

\* The end of standard input comes after its last byte.
LEMMA EndInputInOrder ==
  ASSUME BytesInv, EndInput
  PROVE  LineStep
<1> DEFINE f == files.input
           g == Shutdown(f)
<1>1. /\ ~f.ended /\ files' = [files EXCEPT !.input = g]
      /\ UNCHANGED << stage, owner, peer, typed, taken >>
  BY DEF EndInput, outside
<1>2. ProgramInv /\ (~Faulted => LineInv)
  BY DEF BytesInv
<1>3. /\ files = [terminal |-> files.terminal, input |-> f,
                  output |-> files.output, toTcp |-> files.toTcp,
                  toOwner |-> files.toOwner]
      /\ f \in Files
  BY <1>2, FilesAre
<1>4. g.data = f.data /\ g.eof = f.eof /\ g.ended = TRUE
  BY <1>3 DEF Shutdown, Files
<1> HIDE DEF g
<1>5. /\ files'.input = g /\ files'.output = files.output
      /\ files'.toTcp = files.toTcp /\ files'.toOwner = files.toOwner
  BY <1>1, <1>3
<1>6. UNCHANGED << copy, copyLoop, copyTurn, socket >>
  BY <1>1 DEF owner, peer
<1>7. Faulted' <=> Faulted
  BY <1>5, <1>6 DEF Faulted
<1>8. ASSUME LineInv PROVE LineInv'
  <2>1. Carries(files'.input, copy.outbound.total_pushed, typed')
    BY <1>1, <1>4, <1>5, <1>8, LineSays DEF Carries
  <2>2. Carries(files'.output, taken', copy.inbound.total_popped)
    BY <1>1, <1>5, <1>8, LineSays
  <2>3. files'.toTcp.ended \/ stage' \in {"closing", "joining", "over"}
          => IsFinished(copy.outbound)
    BY <1>1, <1>5, <1>8 DEF LineInv
  <2> HIDE DEF f
  <2> QED BY <1>1, <1>2, <1>4, <1>5, <1>6, <1>8, <2>1, <2>2, <2>3, FilesStepInOrder DEF f
<1>9. ForthMoves
  BY <1>1, <1>4, <1>5, <1>6 DEF ForthMoves
<1>10. BackMoves
  <2>1. copy.inbound.total_popped \in Nat
    BY <1>2, StreamsAre
  <2> QED BY <1>5, <1>6, <2>1 DEF BackMoves
<1> QED BY <1>2, <1>7, <1>8, <1>9, <1>10 DEF LineStep

\* The reader of standard output takes the first of the bytes that are there.
LEMMA TakeInOrder ==
  ASSUME BytesInv, Take
  PROVE  LineStep
<1> DEFINE f == files.output
           x == Tail(f.data)
           g == [f EXCEPT !.data = x]
<1>1. /\ f.data # <<>> /\ taken' = taken + 1
      /\ files' = [files EXCEPT !.output.data = x]
      /\ UNCHANGED << stage, owner, peer, typed >>
  BY DEF Take
<1>2. ProgramInv /\ (~Faulted => LineInv) /\ taken \in Nat
  BY DEF BytesInv
<1>3. /\ files = [terminal |-> files.terminal, input |-> files.input,
                  output |-> f, toTcp |-> files.toTcp, toOwner |-> files.toOwner]
      /\ f \in Files
  BY <1>2, FilesAre
<1>4. f.data \in Seq(Byte) /\ Len(f.data) \in Nat /\ Len(f.data) > 0
  BY <1>1, <1>3 DEF Files
<1>5. g.data = x /\ g.closed = f.closed /\ g.broken = f.broken
  BY <1>3 DEF Files
<1>6. /\ Len(x) = Len(f.data) - 1
      /\ \A i \in 1..(Len(f.data) - 1) : x[i] = f.data[i + 1]
  BY <1>4
<1> HIDE DEF x
<1>7. files' = [files EXCEPT !.output = g]
  BY <1>1, <1>3
<1> HIDE DEF g
<1>8. /\ files'.output = g /\ files'.input = files.input
      /\ files'.toTcp = files.toTcp /\ files'.toOwner = files.toOwner
  BY <1>3, <1>7
<1>9. UNCHANGED << copy, copyLoop, copyTurn, socket >>
  BY <1>1 DEF owner, peer
<1>10. Faulted' <=> Faulted
  BY <1>5, <1>8, <1>9 DEF Faulted
<1> HIDE DEF f
<1>11. ASSUME LineInv PROVE LineInv'
  <2> DEFINE n == copy.inbound.total_popped
  <2>1. Carries(f, taken, n)
    BY <1>11, LineSays DEF f
  <2> HIDE DEF n
  <2>2. n = taken' + Len(x)
    <3>1. n = taken + Len(f.data)
      BY <2>1 DEF Carries
    <3>2. \A k, l \in Nat : l > 0 => k + l = (k + 1) + (l - 1)
      OBVIOUS
    <3> QED BY <1>1, <1>2, <1>4, <1>6, <3>1, <3>2
  <2>3. InOrder(x, taken')
    <3> SUFFICES ASSUME NEW i \in 1..Len(x) PROVE x[i] = taken' + i
      BY DEF InOrder
    <3>1. i \in 1..(Len(f.data) - 1) /\ i + 1 \in 1..Len(f.data) /\ i \in Nat
      BY <1>4, <1>6
    <3>2. x[i] = taken + (i + 1)
      BY <1>6, <2>1, <3>1 DEF Carries, InOrder
    <3> QED BY <1>1, <1>2, <3>1, <3>2
  <2>4. Carries(files'.output, taken', n)
    BY <1>5, <1>8, <2>2, <2>3 DEF Carries
  <2>5. Carries(files'.input, copy.outbound.total_pushed, typed')
    BY <1>1, <1>8, <1>11, LineSays
  <2>6. files'.toTcp.ended \/ stage' \in {"closing", "joining", "over"}
          => IsFinished(copy.outbound)
    BY <1>1, <1>8, <1>11 DEF LineInv
  <2> QED BY <1>1, <1>2, <1>5, <1>8, <1>9, <1>11, <2>4, <2>5, <2>6, FilesStepInOrder DEF n, f
<1>12. ForthMoves /\ BackMoves
  BY <1>1, <1>2, <1>5, <1>8, <1>9, StandsStill DEF f
<1> QED BY <1>2, <1>10, <1>11, <1>12 DEF LineStep

\* A reader that leaves is a fault.
LEMMA BreakOutputInOrder ==
  ASSUME BytesInv, BreakOutput
  PROVE  LineStep
<1> DEFINE g == [files.output EXCEPT !.broken = TRUE]
<1>1. files' = [files EXCEPT !.output.broken = TRUE] /\ ProgramInv
  BY DEF BreakOutput, BytesInv
<1>2. /\ files = [terminal |-> files.terminal, input |-> files.input,
                  output |-> files.output, toTcp |-> files.toTcp, toOwner |-> files.toOwner]
      /\ files.output \in Files
  BY <1>1, FilesAre
<1>3. g.broken = TRUE
  BY <1>2 DEF Files
<1>4. files' = [files EXCEPT !.output = g]
  BY <1>1, <1>2
<1> HIDE DEF g
<1>5. files'.output.broken = TRUE
  BY <1>2, <1>3, <1>4
<1>6. Faulted'
  BY <1>5 DEF Faulted
<1> QED BY <1>6 DEF LineStep

\* poll() of the owner moves nothing.
LEMMA CopyPollKeepsOrder ==
  ASSUME BytesInv, CopyPoll
  PROVE  LineStep
<1> DEFINE w == Copy!Loop!Poll(CopyWorld)
<1>1. ProgramInv /\ (~Faulted => LineInv)
  BY DEF BytesInv
<1>2. CopyWorld \in CopyWorlds(copyLoop.polled)
  BY <1>1 DEF ProgramInv, OwnerInv
<1>3. /\ w \in CopyWorlds(w.loop.polled)
      /\ w.me = CopyWorld.me /\ w.files = CopyWorld.files /\ w.fate = CopyWorld.fate
      /\ w.loop.rules = CopyWorld.loop.rules
  BY <1>2, CopyPollDoes
<1>4. CopyHups(w)
  BY <1>2, CopyPollInOrder
<1>5. /\ copyTurn' = "serve" /\ copyLoop' = w.loop
      /\ UNCHANGED << stage, copy, peer, files, fate, typed, taken >>
  BY DEF CopyPoll, outside
<1> HIDE DEF w
<1>6. CopyWorld' = w
  BY <1>3, <1>5, WorldsAre, CopyParts DEF CopyWorld
<1>7. UNCHANGED << socket, Faulted, Now >>
  BY <1>5 DEF peer, Faulted, Now
<1>8. ASSUME LineInv PROVE LineInv'
  <2> DEFINE x == Now
  <2>1. CopyFlows(CopyWorld, x) /\ Now' = x
    BY <1>7, <1>8 DEF LineInv
  <2> HIDE DEF x
  <2>2. CopyFlows(w, x)
    BY <1>3, <2>1 DEF CopyFlows, CopyLine, CopyEndings
  <2>3. TcpOrdered(socket.tcp)'
    BY <1>7, <1>8 DEF LineInv
  <2>4. files'.toTcp.ended \/ stage' \in {"closing", "joining", "over"}
          => IsFinished(copy.outbound)'
    BY <1>5, <1>8 DEF LineInv
  <2> QED BY <1>4, <1>6, <2>1, <2>2, <2>3, <2>4 DEF LineInv
<1>9. ForthMoves /\ BackMoves
  BY <1>1, <1>5, <1>7, StandsStill
<1> QED BY <1>1, <1>7, <1>8, <1>9 DEF LineStep

\* Nor does poll() of the socket.
LEMMA SocketPollKeepsOrder ==
  ASSUME BytesInv,
         NEW datagram \in {"none"} \union Socket!Datagrams(socket.tcp), SocketPoll(datagram)
  PROVE  LineStep
<1> DEFINE me == [socket EXCEPT !.datagram = datagram]
<1>1. ProgramInv /\ (~Faulted => LineInv)
  BY DEF BytesInv
<1>2. /\ socket' = me /\ UNCHANGED << stage, owner, files, fate, typed, taken >>
  <2>1. socket' = Found(datagram).me /\ UNCHANGED << stage, owner, files, fate, typed, taken >>
    BY DEF SocketPoll, outside
  <2>2. Found(datagram) = [me |-> me, loop |-> socketLoop, files |-> files, fate |-> fate]
    BY DEF Found, SocketWorld
  <2> HIDE DEF me
  <2> QED BY <2>1, <2>2
<1>3. me.tcp = socket.tcp
  <2>1. socket \in Sockets
    BY <1>1, StreamsAre
  <2> QED BY <2>1 DEF Sockets
<1> HIDE DEF me
<1>4. UNCHANGED << copy, copyLoop, copyTurn, socket.tcp >>
  BY <1>2, <1>3 DEF owner
<1>5. UNCHANGED << CopyWorld, Now, Faulted >>
  BY <1>2, <1>4 DEF CopyWorld, Now, Faulted
<1>6. LineInv => LineInv'
  BY <1>2, <1>4, <1>5 DEF LineInv
<1>7. ForthMoves /\ BackMoves
  <2>1. copy.inbound.total_popped \in Nat /\ socket.tcp.outbound.total_pushed \in Nat
    BY <1>1, StreamsAre
  <2> QED BY <1>2, <1>4, <2>1 DEF ForthMoves, BackMoves
<1> QED BY <1>1, <1>5, <1>6, <1>7 DEF LineStep

\* What the owner does after poll() moves bytes on.
LEMMA CopyServeInOrder ==
  ASSUME BytesInv, CopyServe
  PROVE  LineStep
<1> DEFINE s == CopyWorld
           v == Copy!Loop!Serve(s)
           w == Copy!Loop!Sweep(v)
           x == Now
<1>1. ProgramInv /\ taken \in Nat /\ (~Faulted => LineInv)
  BY DEF BytesInv
<1>2. /\ stage = "copying" /\ copyTurn = "serve" /\ copyTurn' = "poll"
      /\ copy' = w.me /\ files' = w.files
      /\ stage' = IF w.loop.asked = {} THEN "closing" ELSE stage
      /\ copyLoop' = w.loop /\ fate' = w.fate
      /\ UNCHANGED << peer, typed, taken >>
  BY Zenon DEF CopyServe, Copy!Loop!NothingToPoll, outside
<1>3. /\ s \in CopyWorlds(copyLoop.polled) /\ ~s.loop.done
      /\ CopyBooks(s, Faulted) /\ CopyAsked(s) /\ CopyPolled(s)
      /\ ToSet(s.loop.rules) \subseteq DOMAIN copyLoop.polled
      /\ s.me = copy /\ s.files = files
  BY <1>1, <1>2, WorldsAre DEF ProgramInv, OwnerInv
<1>4. x \in Marks
  BY <1>1, StreamsAre
<1>5. UNCHANGED << socket, Now >>
  BY <1>2 DEF peer, Now
<1>6. ~Faulted => CopyFlows(s, x) /\ CopyHups(s) /\ TcpOrdered(socket.tcp)
  BY <1>1, <1>2 DEF LineInv
<1>7. Faulted \in BOOLEAN
  BY DEF Faulted
<1> HIDE DEF s, x
<1>8. /\ v \in CopyWorlds(<<>>) /\ ~v.loop.done
      /\ CopyBooks(v, Faulted) /\ CopyFrame(s.files, v.files)
  BY <1>3, <1>7, CopyServed
<1>9. /\ w \in CopyWorlds(<<>>) /\ CopyBooks(w, Faulted) /\ w.files = v.files
  BY <1>7, <1>8, CopySwept
<1>10. Faulted' <=> Faulted
  <2>1. files'.output.broken = files.output.broken
    BY <1>2, <1>3, <1>8, <1>9 DEF CopyFrame
  <2> QED BY <1>5, <2>1 DEF Faulted
<1>11. ASSUME ~Faulted PROVE LineInv' /\ ForthMoves /\ BackMoves
  <2>1. CopyBooks(s, FALSE) /\ CopyBooks(v, FALSE) /\ CopyBooks(w, FALSE)
    <3>1. Faulted = FALSE
      BY <1>7, <1>11
    <3> HIDE DEF v, w
    <3> QED BY <1>3, <1>8, <1>9, <3>1
  <2>2. CopyFlows(v, x) /\ CopyMoves(s, v)
    BY <1>3, <1>4, <1>6, <1>11, <2>1, CopyServedInOrder
  <2> HIDE DEF v
  <2>3. /\ CopyFlows(w, x) /\ CopyMoves(v, w)
        /\ w.loop.asked = {} => IsFinished(w.me.outbound)
    BY <1>4, <1>8, <2>1, <2>2, CopySweptInOrder
  <2> HIDE DEF w
  <2>4. CopyWorld' = w
    BY <1>2, <1>9, CopyParts DEF CopyWorld
  <2>5. CopyFlows(CopyWorld, Now)'
    BY <1>5, <2>3, <2>4 DEF x
  <2>6. w.files.toTcp.ended => IsFinished(w.me.outbound)
    BY <2>1 DEF CopyBooks
  <2>7. LineInv'
    <3>1. TcpOrdered(socket.tcp)'
      BY <1>5, <1>6, <1>11
    <3>2. files'.toTcp.ended \/ stage' \in {"closing", "joining", "over"}
            => IsFinished(copy.outbound)'
      BY <1>2, <2>3, <2>6
    <3> QED BY <1>2, <2>5, <3>1, <3>2 DEF LineInv
  <2>8. /\ copy.inbound.total_popped \in Nat /\ socket.tcp.outbound.total_pushed \in Nat
    BY <1>1, StreamsAre
  <2>9. /\ w.me.inbound.total_popped >= copy.inbound.total_popped
        /\ files.output.closed => w.files.output.closed
        /\ w.files.input.ended = files.input.ended
    <3>1. /\ s.me.inbound \in Streams /\ v.me.inbound \in Streams /\ w.me.inbound \in Streams
      BY <1>3, <1>8, <1>9, CopyParts
    <3>2. \A b \in Streams : b.total_popped \in Nat
      BY DEF Streams, ByteStreams
    <3>3. /\ s.me.inbound.total_popped \in Nat /\ v.me.inbound.total_popped \in Nat
          /\ w.me.inbound.total_popped \in Nat
      BY <3>1, <3>2
    <3>4. w.me.inbound.total_popped >= s.me.inbound.total_popped
      BY <2>2, <2>3, <3>3 DEF CopyMoves
    <3> QED BY <1>3, <2>2, <2>3, <3>4 DEF CopyMoves
  <2>10. ForthMoves
    BY <1>2, <1>5, <2>8, <2>9 DEF ForthMoves
  <2>11. BackMoves
    BY <1>2, <1>5, <2>9 DEF BackMoves
  <2> QED BY <2>7, <2>10, <2>11
<1> QED BY <1>10, <1>11 DEF LineStep

\* So does what the socket does in a turn.
LEMMA TurnInOrder ==
  ASSUME BytesInv, NEW w, TurnEnds(w), NEW p, w \in SocketWorlds(p),
         ~Faulted => SocketLine(w, copy.outbound.total_popped, copy.inbound.total_pushed),
         ~Faulted => TcpMoves(socket.tcp, w.me.tcp),
         SocketFrame(files, w.files),
         Faulted => SocketFault(w)
  PROVE  LineStep
<1> DEFINE me == [w.me EXCEPT !.datagram = "none"]
           x  == Now
           y  == Now'
<1>1. ProgramInv /\ (~Faulted => LineInv)
  BY DEF BytesInv
<1>2. /\ socket' = me /\ files' = w.files
      /\ UNCHANGED << owner, typed, taken >>
      /\ stage' \in {"closing", "joining", "over"} => stage \in {"closing", "joining", "over"}
  BY DEF TurnEnds, outside
<1>3. me.tcp = w.me.tcp
  <2>1. w.me \in Sockets
    BY SocketParts
  <2> QED BY <2>1 DEF Sockets
<1> HIDE DEF me
<1>4. socket'.tcp = w.me.tcp /\ UNCHANGED << copy, copyLoop, copyTurn >>
  BY <1>2, <1>3 DEF owner
<1>5. Faulted' <=> SocketFault(w)
  BY <1>2, <1>4 DEF Faulted, SocketFault
<1>6. /\ y.typed = x.typed /\ y.taken = x.taken
      /\ y.sent = w.me.tcp.outbound.total_pushed
      /\ y.got = w.me.tcp.inbound.total_popped
  BY <1>2, <1>4 DEF Now
<1>7. ASSUME LineInv, ~Faulted PROVE LineInv'
  <2> DEFINE s == CopyWorld
             v == CopyWorld'
  <2>1. /\ v.me = copy /\ v.loop = copyLoop /\ v.files = w.files
        /\ s.me = copy /\ s.loop = copyLoop /\ s.files = files
    BY <1>2, <1>4 DEF CopyWorld
  <2>2. CopyFlows(s, x) /\ (copyTurn = "serve" => CopyHups(s))
    BY <1>7 DEF LineInv
  <2> HIDE DEF s, v, x, y
  <2>3. /\ w.files.input = files.input /\ w.files.output = files.output
        /\ w.files.toTcp.ended = files.toTcp.ended
        /\ w.files.toOwner.eof = files.toOwner.eof
    BY DEF SocketFrame
  <2>4. /\ Carries(v.files.input, s.me.outbound.total_pushed, y.typed)
        /\ Carries(v.files.output, y.taken, s.me.inbound.total_popped)
    BY <1>6, <2>1, <2>2, <2>3 DEF CopyFlows, CopyLine
  <2>5. /\ Carries(v.files.toTcp, y.sent, s.me.outbound.total_popped)
        /\ Carries(v.files.toOwner, s.me.inbound.total_pushed, y.got)
        /\ v.files.toTcp.eof => v.files.toTcp.data = <<>>
        /\ v.files.toOwner.eof => v.files.toOwner.data = <<>>
        /\ TcpOrdered(w.me.tcp)
    BY <1>6, <1>7, <2>1 DEF SocketLine
  <2>6. CopyFlows(v, y)
    BY <2>1, <2>2, <2>3, <2>4, <2>5, FlowsUndisturbed
  <2>7. copyTurn' = "serve" => CopyHups(v)
    BY <1>4, <2>1, <2>2, <2>3, HupsUndisturbed
  <2>8. TcpOrdered(socket.tcp)'
    BY <1>4, <2>5
  <2>9. files'.toTcp.ended \/ stage' \in {"closing", "joining", "over"}
          => IsFinished(copy.outbound)'
    BY <1>2, <1>4, <1>7, <2>3 DEF LineInv
  <2> QED BY <2>6, <2>7, <2>8, <2>9 DEF LineInv, v, y
<1>8. files'.input = files.input /\ files'.output = files.output
  BY <1>2 DEF SocketFrame
<1>9. ~Faulted => ForthMoves
  BY <1>2, <1>4, <1>8 DEF ForthMoves, TcpMoves
<1>10. ~Faulted => BackMoves
  BY <1>4, <1>8 DEF BackMoves, TcpMoves
<1> QED BY <1>1, <1>5, <1>7, <1>9, <1>10 DEF LineStep

\* The socket's loop runs the rules it polled.
LEMMA SocketServeInOrder ==
  ASSUME BytesInv, SocketServe
  PROVE  LineStep
<1> DEFINE s == SocketWorld
           v == Socket!Loop!Serve(s)
           w == Socket!Loop!Sweep(v)
           upto == copy.outbound.total_popped
           from == copy.inbound.total_pushed
<1>1. ProgramInv /\ (~Faulted => LineInv)
  BY DEF BytesInv
<1>2. /\ s \in SocketWorlds(socketLoop.polled) /\ ~s.loop.done
      /\ SocketBooks(s) /\ SocketAsked(s) /\ SocketPolled(s)
      /\ ToSet(s.loop.rules) \subseteq DOMAIN socketLoop.polled
      /\ s.me = socket /\ s.files = files
      /\ SocketFault(s) <=> Faulted
  BY <1>1, WorldsAre DEF ProgramInv, ThreadInv, SocketServe
<1>3. TurnEnds(w)
  BY <1>1 DEF ProgramInv, SocketServe
<1>4. from \in Nat
  BY <1>1, StreamsAre
<1>5. ~Faulted => SocketLine(s, upto, from)
  BY <1>1, <1>2, LineSays DEF SocketLine, TcpOrdered
<1> HIDE DEF s, from, upto
<1>6. /\ v \in SocketWorlds(<<>>) /\ SocketBooks(v) /\ SocketFrame(s.files, v.files)
      /\ SocketFault(s) => SocketFault(v)
  BY <1>2, SocketServed
<1>7. ~Faulted => SocketLine(v, upto, from) /\ TcpMoves(s.me.tcp, v.me.tcp)
  BY <1>2, <1>4, <1>5, SocketServedInOrder
<1> HIDE DEF v
<1>8. w \in SocketWorlds(<<>>) /\ SocketSame(v, w)
  BY <1>6, SocketSwept
<1> HIDE DEF w
<1>9. w.me = v.me /\ w.files = v.files
  BY <1>8 DEF SocketSame
<1>10. ~Faulted => SocketLine(w, upto, from) /\ TcpMoves(socket.tcp, w.me.tcp)
  BY <1>2, <1>7, <1>9 DEF SocketLine
<1>11. SocketFrame(files, w.files) /\ (Faulted => SocketFault(w))
  BY <1>2, <1>6, <1>9 DEF SocketFault
<1> QED BY <1>3, <1>8, <1>10, <1>11, TurnInOrder DEF upto, from

\* Time that passes moves nothing.
LEMMA ElapseInOrder ==
  ASSUME BytesInv, Elapse
  PROVE  LineStep
<1> DEFINE s == [SocketWorld EXCEPT !.me = Elapsed]
           w == Socket!Loop!Sweep(s)
           t == [socket.tcp EXCEPT !.elapsed = TRUE]
           upto == copy.outbound.total_popped
           from == copy.inbound.total_pushed
<1>1. ProgramInv /\ (~Faulted => LineInv)
  BY DEF BytesInv
<1>2. SocketWorld \in SocketWorlds(socketLoop.polled) /\ SocketBooks(SocketWorld)
  BY <1>1 DEF ProgramInv, ThreadInv
<1>3. TurnEnds(w)
  BY DEF Elapse
<1>4. s = [me |-> Elapsed, loop |-> socketLoop, files |-> files, fate |-> fate]
  BY DEF SocketWorld
<1> HIDE DEF s
<1>5. /\ socket \in Sockets /\ socket.tcp \in Tcps
      /\ socket.tcp.outbound.total_pushed \in Nat
  BY <1>1, StreamsAre
<1>6. /\ t \in Tcps /\ t.inbound = socket.tcp.inbound /\ t.outbound = socket.tcp.outbound
      /\ t.fin_sent = socket.tcp.fin_sent /\ t.in_flight = socket.tcp.in_flight
  BY <1>5 DEF Tcps
<1>7. Elapsed = [socket EXCEPT !.tcp = t]
  BY <1>5 DEF Elapsed
<1> HIDE DEF t
<1>8. /\ Elapsed \in Sockets /\ Elapsed.tcp = t
      /\ Elapsed.outbound_shutdown = socket.outbound_shutdown
  BY <1>5, <1>6, <1>7 DEF Sockets
<1>9. s \in SocketWorlds(socketLoop.polled)
  BY <1>2, <1>4, <1>8, WorldsAre DEF SocketWorlds
<1>10. SocketFault(s) <=> Faulted
  BY <1>4, <1>6, <1>8 DEF SocketFault, Faulted
<1>11. /\ s.me.tcp = t /\ s.me.outbound_shutdown = SocketWorld.me.outbound_shutdown
       /\ s.files = files /\ s.loop = SocketWorld.loop /\ s.fate = SocketWorld.fate
  BY <1>4, <1>8, WorldsAre
<1>12. SocketBooks(s)
  BY <1>2, <1>6, <1>10, <1>11, WorldsAre DEF SocketBooks, Awake
<1>13. w \in SocketWorlds(socketLoop.polled) /\ SocketSame(s, w)
  BY <1>9, <1>12, SocketSwept
<1> HIDE DEF w
<1>14. w.me.tcp = t /\ w.files = files
  BY <1>11, <1>13 DEF SocketSame
<1>15. SocketFrame(files, w.files) /\ (Faulted => SocketFault(w))
  BY <1>1, <1>10, <1>11, <1>13, <1>14, FilesAre, SocketFrameStays DEF SocketFault, SocketSame
<1>16. ~Faulted => SocketLine(w, upto, from)
  BY <1>1, <1>6, <1>14, LineSays DEF SocketLine, TcpOrdered
<1>17. TcpMoves(socket.tcp, w.me.tcp)
  BY <1>5, <1>6, <1>14 DEF TcpMoves, RemoteMoves
<1> QED BY <1>3, <1>13, <1>15, <1>16, <1>17, TurnInOrder

\* New streams and files hold nothing.
LEMMA NewInOrder ==
  /\ \A cap \in Nat : LET b == NewByteStream(cap)
                      IN  Ordered(b) /\ b.total_pushed = 0 /\ b.total_popped = 0
  /\ \A room \in Nat : Carries(NewFile(room), 0, 0)
<1>1. ASSUME NEW q \in Seq(Byte), q = <<>> PROVE Len(q) = 0 /\ InOrder(q, 0)
  <2>1. Len(q) = 0 /\ 1..0 = {}
    BY <1>1
  <2> QED BY <2>1 DEF InOrder
<1>2. <<>> \in Seq(Byte)
  OBVIOUS
<1>3. Len(<<>>) = 0 /\ InOrder(<<>>, 0)
  BY <1>1, <1>2
<1> QED BY <1>3 DEF NewByteStream, NewFile, Ordered, Carries

\* The peer that the socket begins with took and gave nothing yet.
LEMMA SocketBeginsInOrder ==
  ASSUME Init
  PROVE  /\ TcpOrdered(socket.tcp)
         /\ socket.tcp.outbound.total_pushed = 0 /\ socket.tcp.inbound.total_popped = 0
<1> DEFINE t   == Socket!NewTcp
           x   == IF stage = "connecting" THEN Socket!TcpPush(t) ELSE t
           out == NewByteStream(send_capacity)
           in  == NewByteStream(recv_capacity)
           new == Socket!NewSocket
<1>1. t = [outbound |-> out, inbound |-> in,
           has_ackno |-> FALSE, syn_sent |-> FALSE, fin_sent |-> FALSE, in_flight |-> 0,
           linger |-> TRUE, elapsed |-> FALSE, rst_sent |-> FALSE]
  BY NewStreams, ProgramAssumption DEF Socket!NewTcp
<1>2. /\ out \in Streams /\ out.buffer = <<>> /\ ~out.closed
      /\ in \in Streams /\ Ordered(out) /\ Ordered(in)
      /\ out.total_pushed = 0 /\ in.total_popped = 0
  BY NewStreams, NewInOrder, ProgramAssumption
<1>3. /\ new = [tcp |-> t, inbound_shutdown |-> FALSE, outbound_shutdown |-> FALSE,
                datagram |-> "none"]
      /\ socket = [new EXCEPT !.tcp = IF stage = "connecting" THEN Socket!TcpPush(@) ELSE @]
  BY Zenon DEF Socket!NewSocket, Init, Opened, t
<1> HIDE DEF out, in, t, new
<1>4. t \in Tcps /\ FinIsLast(t) /\ TcpOrdered(t)
      /\ t.outbound.total_pushed = 0 /\ t.inbound.total_popped = 0
  BY <1>1, <1>2 DEF Tcps, FinIsLast, TcpOrdered
<1>5. /\ TcpOrdered(x)
      /\ x.outbound.total_pushed = 0 /\ x.inbound.total_popped = 0
  <2> DEFINE y == Socket!TcpPush(t)
  <2>1. Ordered(y.outbound) /\ y.outbound.total_pushed = t.outbound.total_pushed
    BY <1>4, TcpPushInOrder DEF TcpOrdered
  <2>2. y.inbound = t.inbound
    BY <1>4, TcpPushDoes
  <2> HIDE DEF y
  <2>3. TcpOrdered(y) /\ y.outbound.total_pushed = 0 /\ y.inbound.total_popped = 0
    BY <1>4, <2>1, <2>2 DEF TcpOrdered
  <2>4. x = y \/ x = t
    BY DEF y
  <2> HIDE DEF x
  <2> QED BY <1>4, <2>3, <2>4
<1>6. new.tcp = t
  BY <1>3
<1>7. socket = [new EXCEPT !.tcp = x]
  BY <1>3, <1>6
<1> HIDE DEF x
<1>8. socket.tcp = x
  BY <1>3, <1>7
<1> QED BY <1>5, <1>8

\* The order is kept at first, ...
LEMMA LineInvInit ==
  ASSUME Init
  PROVE  LineInv
<1> DEFINE f == NewFiles(FALSE)
           s == FirstCopy
           w == Copy!Loop!Sweep(s)
           x == [typed |-> 0, sent |-> 0, got |-> 0, taken |-> 0]
           out == NewByteStream(buffer_size)
<1>1. /\ s \in CopyWorlds(<<>>) /\ CopyBooks(s, FALSE)
      /\ s.me = copy /\ s.files = f
      /\ copy.outbound = out /\ copy.inbound = out
      /\ ToSet(s.loop.rules) = CopyRuleNames
      /\ copyLoop = w.loop
  BY FirstCopyIs
<1>2. x \in Marks /\ x.typed = 0 /\ x.sent = 0 /\ x.got = 0 /\ x.taken = 0
  BY DEF Marks
<1>3. Now = x
  BY SocketBeginsInOrder DEF Init, Now
<1>4. PICK terminal \in BOOLEAN : files = NewFiles(terminal)
  BY ProgramAssumption DEF Init
<1>5. ASSUME NEW b \in BOOLEAN
      PROVE  /\ NewFiles(b).input = NewFile(InputBytes)
             /\ NewFiles(b).output = NewFile(OutputRoom)
             /\ NewFiles(b).toTcp = NewFile(PairRoom)
             /\ NewFiles(b).toOwner = NewFile(PairRoom)
  BY DEF NewFiles
<1>6. /\ files.input = f.input /\ files.output = f.output
      /\ files.toTcp = f.toTcp /\ files.toOwner = f.toOwner
  BY <1>4, <1>5
<1>7. /\ Carries(f.input, 0, 0) /\ Carries(f.output, 0, 0)
      /\ Carries(f.toTcp, 0, 0) /\ Carries(f.toOwner, 0, 0)
      /\ ~f.input.eof /\ ~f.toTcp.eof /\ ~f.toOwner.eof /\ ~f.output.closed
      /\ ~f.toTcp.ended
  <2>1. /\ f.input = NewFile(InputBytes) /\ f.output = NewFile(OutputRoom)
        /\ f.toTcp = NewFile(PairRoom) /\ f.toOwner = NewFile(PairRoom)
    BY <1>5
  <2>2. ASSUME NEW room \in Nat
        PROVE  /\ Carries(NewFile(room), 0, 0)
               /\ ~NewFile(room).eof /\ ~NewFile(room).closed /\ ~NewFile(room).ended
    BY NewStreams, NewInOrder
  <2> HIDE DEF f
  <2> QED BY <2>1, <2>2, ProgramAssumption
<1>8. /\ Ordered(out) /\ out.total_pushed = 0 /\ out.total_popped = 0
      /\ out.capacity > 0 /\ ~out.closed
  BY NewStreams, NewInOrder, ProgramAssumption
<1> HIDE DEF out, x, f, s
<1>9. CopyLine(s, x)
  BY <1>1, <1>2, <1>7, <1>8 DEF CopyLine
<1>10. CopyEndings(s)
  BY <1>1, <1>7, <1>8 DEF CopyEndings, CopyRuleNames
<1>11. CopyFlows(s, x)
  BY <1>9, <1>10 DEF CopyFlows
<1>12. CopyFlows(w, x)
  BY <1>1, <1>2, <1>11, CopySweptInOrder
<1>13. w.files = f /\ w.me = copy
  <2>1. CopyOpen(s.files)
    BY <1>1, <1>7 DEF CopyOpen
  <2>2. w.files = s.files /\ (CopyOpen(s.files) => w.me = s.me /\ w.fate = s.fate)
    BY <1>1, CopySwept
  <2> QED BY <1>1, <2>1, <2>2
<1> HIDE DEF w
<1>14. CopyFlows(CopyWorld, Now)
  <2> DEFINE v == CopyWorld
  <2>1. /\ v.me = w.me /\ v.loop = w.loop
        /\ v.files.input = w.files.input /\ v.files.output = w.files.output
        /\ v.files.toTcp = w.files.toTcp /\ v.files.toOwner = w.files.toOwner
    BY <1>1, <1>6, <1>13, WorldsAre
  <2> HIDE DEF v
  <2>2. CopyFlows(v, x)
    BY <1>12, <2>1 DEF CopyFlows, CopyLine, CopyEndings
  <2> QED BY <1>3, <2>2 DEF v
<1>15. TcpOrdered(socket.tcp)
  BY SocketBeginsInOrder
<1>16. copyTurn # "serve" /\ ~files.toTcp.ended /\ stage \notin {"closing", "joining", "over"}
  BY <1>6, <1>7, ProgramAssumption DEF Init
<1> QED BY <1>14, <1>15, <1>16 DEF LineInv

\* ... and by every step, which moves bytes on or takes them in.
LEMMA LineNext ==
  ASSUME BytesInv, Next
  PROVE  LineStep
<1>1. CASE CopyPoll
  BY <1>1, CopyPollKeepsOrder
<1>2. CASE CopyServe
  BY <1>2, CopyServeInOrder
<1>3. CASE WaitUntilClosed
  BY <1>3, WaitUntilClosedInOrder
<1>4. CASE Join
  BY <1>4, JoinInOrder
<1>5. ASSUME NEW datagram \in {"none"} \union Socket!Datagrams(socket.tcp),
             SocketPoll(datagram)
      PROVE  LineStep
  BY <1>5, SocketPollKeepsOrder
<1>6. CASE SocketServe
  BY <1>6, SocketServeInOrder
<1>7. CASE Elapse
  BY <1>7, ElapseInOrder
<1>8. CASE Finish
  BY <1>8, FinishInOrder
<1>9. CASE Type
  BY <1>9, TypeInOrder
<1>10. CASE EndInput
  BY <1>10, EndInputInOrder
<1>11. CASE Take
  BY <1>11, TakeInOrder
<1>12. CASE BreakOutput
  BY <1>12, BreakOutputInOrder
<1> QED BY <1>1, <1>2, <1>3, <1>4, <1>5, <1>6, <1>7, <1>8, <1>9, <1>10, <1>11, <1>12
   DEF Next, OwnerStep, SocketStep

\* Only who reads standard output takes bytes from it.
LEMMA TakenIs ==
  ASSUME Next, taken \in Nat
  PROVE  taken' \in Nat
BY DEF Next, OwnerStep, SocketStep, CopyPoll, CopyServe, WaitUntilClosed, Join, SocketPoll,
   SocketServe, Elapse, TurnEnds, Finish, Type, EndInput, Take, BreakOutput, outside

\* Every step keeps the order, or something outside failed.
LEMMA BytesInvNext == BytesInv /\ [Next]_vars => BytesInv'
<1> SUFFICES ASSUME BytesInv, [Next]_vars PROVE BytesInv'
  OBVIOUS
<1>1. ProgramInv'
  BY ProgramInvNext DEF BytesInv
<1>2. CASE Next
  <2>1. LineStep /\ taken' \in Nat
    BY <1>2, LineNext, TakenIs DEF BytesInv
  <2> QED BY <1>1, <2>1 DEF BytesInv, LineStep
<1>3. CASE UNCHANGED vars
  <2>1. UNCHANGED << CopyWorld, Now, Faulted, socket, copyTurn, files, stage, copy, taken >>
    BY <1>3 DEF vars, owner, peer, outside, CopyWorld, Now, Faulted
  <2>2. LineInv => LineInv'
    BY <2>1 DEF LineInv
  <2> QED BY <1>1, <2>1, <2>2 DEF BytesInv
<1> QED BY <1>2, <1>3

\* The books, and the order of the bytes up to a fault, are kept always.
THEOREM BytesInOrder == Spec => []BytesInv
<1>1. Init => BytesInv
  <2> SUFFICES ASSUME Init PROVE BytesInv
    OBVIOUS
  <2>1. taken \in Nat
    BY DEF Init
  <2> QED BY <2>1, ProgramInvInit, LineInvInit DEF BytesInv
<1> QED BY <1>1, BytesInvNext, PTL DEF Spec

-----------------------------------------------------------------------------
(* The streams that the program implements.                                 *)

\* The first bytes, and what follows them.
LEMMA BytesFollow ==
  ASSUME NEW n \in Nat, NEW q \in Seq(Byte), InOrder(q, n)
  PROVE  Bytes(n) \o q = Bytes(n + Len(q))
<1> DEFINE p == Bytes(n)
           l == n + Len(q)
           r == Bytes(l)
<1>1. Len(q) \in Nat /\ l \in Nat
  OBVIOUS
<1>2. p \in Seq(Nat) /\ Len(p) = n /\ \A i \in 1..n : p[i] = i
  BY DEF Bytes
<1>3. r \in Seq(Nat) /\ Len(r) = l /\ \A i \in 1..l : r[i] = i
  BY <1>1 DEF Bytes
<1>4. q \in Seq(Nat)
  BY DEF Byte
<1> HIDE DEF p, r
<1>5. /\ p \o q \in Seq(Nat) /\ Len(p \o q) = n + Len(q)
      /\ \A i \in 1..(n + Len(q)) :
           (p \o q)[i] = IF i <= n THEN p[i] ELSE q[i - n]
  BY <1>2, <1>4, ConcatProperties
<1>6. ASSUME NEW i \in 1..l PROVE (p \o q)[i] = r[i]
  <2>1. CASE i <= n
    <3>1. i \in 1..n
      BY <1>1, <2>1
    <3> QED BY <1>2, <1>3, <1>5, <2>1, <3>1
  <2>2. CASE ~(i <= n)
    <3>1. i - n \in 1..Len(q)
      BY <1>1, <2>2
    <3>2. q[i - n] = n + (i - n)
      BY <3>1 DEF InOrder
    <3>3. (p \o q)[i] = q[i - n]
      BY <1>5, <2>2
    <3>4. r[i] = i
      BY <1>3
    <3>5. i \in Nat
      BY <1>1
    <3> QED BY <3>2, <3>3, <3>4, <3>5
  <2> QED BY <2>1, <2>2
<1> DEFINE b == p \o q
<1>7. b \in Seq(Nat) /\ Len(b) = l
  BY <1>5
<1> HIDE DEF b
<1>8. \A i \in 1..l : b[i] = r[i]
  BY <1>6 DEF b
<1> HIDE DEF l
<1>9. b = r
  BY <1>3, <1>7, <1>8
<1> QED BY <1>9 DEF b, p, r, l

\* The bytes are numbered from the first.
LEMMA BytesAre ==
  ASSUME NEW n \in Nat
  PROVE  Len(Bytes(n)) = n /\ Bytes(n) = [i \in 1..n |-> i]
BY DEF Bytes

\* What TCP took and still has are the first bytes of standard input, all of them
\* when its outbound stream is closed.
LEMMA ForthIs ==
  ASSUME BytesInv, ~Faulted
  PROVE  LET b == socket.tcp.outbound
         IN  /\ b.total_pushed \in Nat /\ typed \in Nat /\ b.closed \in BOOLEAN
             /\ Bytes(b.total_popped) \o b.buffer = Bytes(b.total_pushed)
             /\ b.total_pushed <= typed
             /\ b.closed => files.input.ended /\ b.total_pushed = typed
<1> DEFINE b == socket.tcp.outbound
           c == copy.outbound
<1>1. ProgramInv /\ LineInv
  BY DEF BytesInv
<1>2. /\ b \in Streams /\ b.total_pushed \in Nat /\ b.total_popped \in Nat
      /\ b.closed \in BOOLEAN /\ b.buffer \in Seq(Byte)
      /\ c.total_pushed \in Nat /\ c.total_popped \in Nat /\ c.buffer \in Seq(Byte)
      /\ typed \in Nat
  BY <1>1, StreamsAre
<1>3. /\ Carries(files.input, c.total_pushed, typed)
      /\ Carries(files.toTcp, b.total_pushed, c.total_popped)
      /\ Ordered(c) /\ Ordered(b)
      /\ c.closed => files.input.ended /\ files.input.data = <<>>
      /\ files.toTcp.eof => files.toTcp.data = <<>>
  BY <1>1, LineSays
<1>4. /\ b.closed <=> files.toTcp.eof
      /\ files.toTcp.eof => files.toTcp.ended
      /\ files.toTcp.ended => IsFinished(c)
  <2>1. SocketBooks(SocketWorld)
    BY <1>1 DEF ProgramInv, ThreadInv
  <2> QED BY <1>1, <2>1, WorldsAre DEF SocketBooks, FilesInv, LineInv
<1>5. files.input.data \in Seq(Byte) /\ files.toTcp.data \in Seq(Byte)
  BY <1>1, FilesAre DEF Files
<1> HIDE DEF b, c
<1>6. Bytes(b.total_popped) \o b.buffer = Bytes(b.total_pushed)
  BY <1>2, <1>3, BytesFollow DEF Ordered
<1> DEFINE x == Len(files.input.data)
           y == Len(files.toTcp.data)
           z == Len(c.buffer)
<1>7. /\ typed = c.total_pushed + x /\ c.total_pushed = c.total_popped + z
      /\ c.total_popped = b.total_pushed + y
  BY <1>3 DEF Carries, Ordered
<1>8. x \in Nat /\ y \in Nat /\ z \in Nat
  <2>1. \A q \in Seq(Byte) : Len(q) \in Nat
    OBVIOUS
  <2> QED BY <1>2, <1>5, <2>1, Zenon
<1>9. files.input.data = <<>> => x = 0
  OBVIOUS
<1>10. files.toTcp.data = <<>> => y = 0
  OBVIOUS
<1>11. c.buffer = <<>> => z = 0
  OBVIOUS
<1> HIDE DEF x, y, z
<1>12. b.total_pushed <= typed
  <2>1. \A n \in Nat : n <= ((n + y) + z) + x
    BY <1>8
  <2>2. typed = ((b.total_pushed + y) + z) + x
    BY <1>7
  <2> QED BY <1>2, <2>1, <2>2
<1>13. ASSUME b.closed PROVE files.input.ended /\ b.total_pushed = typed
  <2>1. /\ files.input.ended /\ files.input.data = <<>>
        /\ files.toTcp.data = <<>> /\ c.buffer = <<>>
    BY <1>3, <1>4, <1>13 DEF IsFinished
  <2> QED BY <1>2, <1>7, <1>8, <1>9, <1>10, <1>11, <2>1
<1> QED BY <1>2, <1>6, <1>12, <1>13 DEF b

\* What was printed and waits to be are the first bytes that TCP gave, all of them
\* when standard output is closed.
LEMMA BackIs ==
  ASSUME BytesInv, ~Faulted
  PROVE  LET b == socket.tcp.inbound
             n == copy.inbound.total_popped
         IN  /\ b.total_pushed \in Nat /\ n \in Nat /\ b.closed \in BOOLEAN
             /\ Bytes(taken) \o files.output.data = Bytes(n)
             /\ n <= b.total_pushed
             /\ files.output.closed => b.closed /\ n = b.total_pushed
<1> DEFINE b == socket.tcp.inbound
           c == copy.inbound
<1>1. ProgramInv /\ LineInv /\ taken \in Nat
  BY DEF BytesInv
<1>2. /\ b \in Streams /\ b.total_pushed \in Nat /\ b.total_popped \in Nat
      /\ b.closed \in BOOLEAN /\ b.buffer \in Seq(Byte)
      /\ c.total_pushed \in Nat /\ c.total_popped \in Nat /\ c.buffer \in Seq(Byte)
  BY <1>1, StreamsAre
<1>3. /\ Carries(files.output, taken, c.total_popped)
      /\ Carries(files.toOwner, c.total_pushed, b.total_popped)
      /\ Ordered(c) /\ Ordered(b)
      /\ files.toOwner.eof => files.toOwner.data = <<>>
      /\ files.output.closed => IsFinished(c) /\ files.toOwner.eof
  BY <1>1, LineSays
<1>4. /\ files.toOwner.eof => files.toOwner.ended
      /\ files.toOwner.ended => IsFinished(b)
  <2>1. SocketBooks(SocketWorld)
    BY <1>1 DEF ProgramInv, ThreadInv
  <2> QED BY <2>1, WorldsAre DEF SocketBooks, FilesInv
<1>5. files.output.data \in Seq(Byte) /\ files.toOwner.data \in Seq(Byte)
  BY <1>1, FilesAre DEF Files
<1> HIDE DEF b, c
<1>6. Bytes(taken) \o files.output.data = Bytes(c.total_popped)
  BY <1>1, <1>3, <1>5, BytesFollow DEF Carries
<1> DEFINE x == Len(b.buffer)
           y == Len(files.toOwner.data)
           z == Len(c.buffer)
<1>7. /\ b.total_pushed = b.total_popped + x /\ c.total_pushed = c.total_popped + z
      /\ b.total_popped = c.total_pushed + y
  BY <1>3 DEF Carries, Ordered
<1>8. x \in Nat /\ y \in Nat /\ z \in Nat
  <2>1. \A q \in Seq(Byte) : Len(q) \in Nat
    OBVIOUS
  <2> QED BY <1>2, <1>5, <2>1, Zenon
<1>9. b.buffer = <<>> => x = 0
  OBVIOUS
<1>10. files.toOwner.data = <<>> => y = 0
  OBVIOUS
<1>11. c.buffer = <<>> => z = 0
  OBVIOUS
<1> HIDE DEF x, y, z
<1>12. c.total_popped <= b.total_pushed
  <2>1. \A n \in Nat : n <= ((n + z) + y) + x
    BY <1>8
  <2>2. b.total_pushed = ((c.total_popped + z) + y) + x
    BY <1>7
  <2> QED BY <1>2, <2>1, <2>2
<1>13. ASSUME files.output.closed PROVE b.closed /\ c.total_popped = b.total_pushed
  <2>1. b.closed /\ b.buffer = <<>> /\ files.toOwner.data = <<>> /\ c.buffer = <<>>
    BY <1>3, <1>4, <1>13 DEF IsFinished
  <2> QED BY <1>2, <1>7, <1>8, <1>9, <1>10, <1>11, <2>1
<1> QED BY <1>2, <1>6, <1>12, <1>13 DEF b, c

\* The same as predicates of a state.
ForthHolds ==
  LET b == socket.tcp.outbound
  IN  /\ b.total_pushed \in Nat /\ typed \in Nat /\ b.closed \in BOOLEAN
      /\ Bytes(b.total_popped) \o b.buffer = Bytes(b.total_pushed)
      /\ b.total_pushed <= typed
      /\ b.closed => files.input.ended /\ b.total_pushed = typed

BackHolds ==
  LET b == socket.tcp.inbound
      n == copy.inbound.total_popped
  IN  /\ b.total_pushed \in Nat /\ n \in Nat /\ b.closed \in BOOLEAN
      /\ Bytes(taken) \o files.output.data = Bytes(n)
      /\ n <= b.total_pushed
      /\ files.output.closed => b.closed /\ n = b.total_pushed

\* They hold in every state up to a fault.
LEMMA BothHold == BytesInv /\ ~Faulted => ForthHolds /\ BackHolds
BY ForthIs, BackIs DEF ForthHolds, BackHolds

\* A step that moves bytes on from standard input to TCP is one of the stream.
LEMMA ForthSteps ==
  ASSUME ForthHolds, ForthHolds', ForthMoves
  PROVE  [Forth!StreamNext]_(Forth!streamVars)
<1> DEFINE b == socket.tcp.outbound
           n == b.total_pushed
           m == n'
           d == Bytes(b.total_popped) \o b.buffer
           e == d'
<1>1. /\ n \in Nat /\ typed \in Nat /\ b.closed \in BOOLEAN
      /\ d = Bytes(n) /\ n <= typed
      /\ b.closed => files.input.ended /\ n = typed
  BY DEF ForthHolds
<1>2. /\ m \in Nat /\ typed' \in Nat /\ b'.closed \in BOOLEAN
      /\ e = Bytes(m) /\ m <= typed'
      /\ b'.closed => files'.input.ended /\ m = typed'
  BY DEF ForthHolds
<1>3. /\ Len(d) = n /\ Len(e) = m /\ e = [i \in 1..m |-> i]
  BY <1>1, <1>2, BytesAre
<1>4. \/ /\ typed' = typed /\ files'.input.ended = files.input.ended
         /\ m >= n /\ (b.closed => b'.closed)
      \/ /\ ~files.input.ended /\ files'.input.ended = files.input.ended
         /\ typed' > typed /\ b' = b
      \/ files'.input.ended = TRUE /\ typed' = typed /\ b' = b
  BY DEF ForthMoves
<1>5. b' = b => b'.closed = b.closed /\ e = d
  OBVIOUS
<1> DEFINE Stands == /\ typed' = typed /\ files'.input.ended = files.input.ended
                     /\ e = d /\ b'.closed = b.closed
<1>0. Stands => UNCHANGED Forth!streamVars
  BY DEF Forth!streamVars
<1> HIDE DEF d, e, n, m
<1>6. CASE /\ typed' = typed /\ files'.input.ended = files.input.ended
           /\ m >= n /\ (b.closed => b'.closed)
  <2>1. CASE b.closed
    <3>1. b'.closed /\ m = n
      BY <1>1, <1>2, <1>6, <2>1
    <3>2. Stands
      BY <1>1, <1>2, <1>6, <2>1, <3>1
    <3> QED BY <1>0, <3>2
  <2>2. CASE ~b.closed
    <3>1. /\ Len(e) >= Len(d) /\ Len(e) <= typed /\ e = [i \in 1..Len(e) |-> i]
          /\ b'.closed => files.input.ended /\ Len(e) = typed
      BY <1>2, <1>3, <1>6
    <3>2. Forth!DeliverBytes
      BY <1>6, <2>2, <3>1 DEF Forth!DeliverBytes, d, e
    <3> QED BY <3>2 DEF Forth!StreamNext
  <2> QED BY <2>1, <2>2
<1>7. CASE /\ ~files.input.ended /\ files'.input.ended = files.input.ended
           /\ typed' > typed /\ b' = b
  <2>1. Forth!WriteBytes
    BY <1>2, <1>5, <1>7 DEF Forth!WriteBytes, d, e
  <2> QED BY <2>1 DEF Forth!StreamNext
<1>8. CASE files'.input.ended = TRUE /\ typed' = typed /\ b' = b
  <2>1. Forth!EndStream
    BY <1>5, <1>8 DEF Forth!EndStream, d, e
  <2> QED BY <2>1 DEF Forth!StreamNext
<1> QED BY <1>4, <1>6, <1>7, <1>8

\* A step that moves bytes on from TCP to standard output is one of the stream.
LEMMA BackSteps ==
  ASSUME BackHolds, BackHolds', BackMoves
  PROVE  [Back!StreamNext]_(Back!streamVars)
<1> DEFINE b == socket.tcp.inbound
           n == copy.inbound.total_popped
           m == n'
           d == Bytes(taken) \o files.output.data
           e == d'
           w == b.total_pushed
           v == w'
           f == files.output.closed
           g == f'
<1>1. /\ w \in Nat /\ n \in Nat /\ b.closed \in BOOLEAN
      /\ d = Bytes(n) /\ n <= w
      /\ f => b.closed /\ n = w
  BY DEF BackHolds
<1>2. /\ v \in Nat /\ m \in Nat /\ b'.closed \in BOOLEAN
      /\ e = Bytes(m) /\ m <= v
      /\ g => b'.closed /\ m = v
  BY DEF BackHolds
<1>3. /\ Len(d) = n /\ Len(e) = m /\ e = [i \in 1..m |-> i]
  BY <1>1, <1>2, BytesAre
<1>4. \/ /\ b' = b /\ m >= n
         /\ f => g
      \/ /\ RemoteMoves(b, b') /\ copy'.inbound = copy.inbound
         /\ g = f
  BY DEF BackMoves
<1>5. b' = b => b'.closed = b.closed /\ v = w
  OBVIOUS
<1>6. copy'.inbound = copy.inbound => e = d
  <2>1. copy'.inbound = copy.inbound => m = n
    OBVIOUS
  <2> HIDE DEF e, d, m, n
  <2> QED BY <1>1, <1>2, <2>1
<1>7. RemoteMoves(b, b') => \/ v = w /\ (b.closed => b'.closed)
                            \/ ~b.closed /\ ~b'.closed /\ v > w
  BY DEF RemoteMoves
<1> DEFINE Stands == v = w /\ b'.closed = b.closed /\ e = d /\ g = f
<1>0. Stands => UNCHANGED Back!streamVars
  BY DEF Back!streamVars
<1> HIDE DEF d, e, n, m, w, v, f, g
<1>8. CASE /\ b' = b /\ m >= n
           /\ f => g
  <2>1. CASE f
    <3>1. g /\ m = n
      BY <1>1, <1>2, <1>5, <1>8, <2>1
    <3>2. Stands
      BY <1>1, <1>2, <1>5, <1>8, <2>1, <3>1
    <3> QED BY <1>0, <3>2
  <2>2. CASE ~f
    <3>1. /\ Len(e) >= Len(d) /\ Len(e) <= w /\ e = [i \in 1..Len(e) |-> i]
          /\ g => b.closed /\ Len(e) = w
          /\ v = w /\ b'.closed = b.closed
      BY <1>2, <1>3, <1>5, <1>8
    <3>2. Back!DeliverBytes
      BY <2>2, <3>1 DEF Back!DeliverBytes, d, e, f, g, w, v
    <3> QED BY <3>2 DEF Back!StreamNext
  <2> QED BY <2>1, <2>2
<1>9. CASE /\ RemoteMoves(b, b') /\ copy'.inbound = copy.inbound
            /\ g = f
  <2>1. CASE v = w /\ (b.closed => b'.closed)
    <3>1. CASE b'.closed
      <4>1. Back!EndStream
        BY <1>2, <1>6, <1>9, <2>1, <3>1 DEF Back!EndStream, d, e, f, g, w, v
      <4> QED BY <4>1 DEF Back!StreamNext
    <3>2. CASE ~b'.closed
      <4>1. Stands
        BY <1>1, <1>2, <1>6, <1>9, <2>1, <3>2
      <4> QED BY <1>0, <4>1
    <3> QED BY <3>1, <3>2
  <2>2. CASE ~b.closed /\ ~b'.closed /\ v > w
    <3>1. Back!WriteBytes
      BY <1>1, <1>2, <1>6, <1>9, <2>2 DEF Back!WriteBytes, d, e, f, g, w, v
    <3> QED BY <3>1 DEF Back!StreamNext
  <2> QED BY <1>7, <1>9, <2>1, <2>2
<1> QED BY <1>4, <1>8, <1>9

\* A step of the program is one of both streams, or something outside fails.
LEMMA StepsAreSteps ==
  ASSUME BytesInv, ForthHolds \/ Faulted, BackHolds \/ Faulted,
         ForthHolds' \/ Faulted', BackHolds' \/ Faulted', [Next]_vars
  PROVE  /\ [Faulted' \/ Forth!StreamNext]_(Forth!streamVars)
         /\ [Faulted' \/ Back!StreamNext]_(Back!streamVars)
<1>1. CASE UNCHANGED vars
  BY <1>1 DEF vars, owner, peer, outside, Forth!streamVars, Back!streamVars
<1>2. CASE Next /\ Faulted'
  BY <1>2
<1>3. CASE Next /\ ~Faulted'
  <2>1. LineStep
    BY <1>3, LineNext
  <2>2. ~Faulted /\ ForthMoves /\ BackMoves
    BY <1>3, <2>1 DEF LineStep
  <2>3. /\ [Forth!StreamNext]_(Forth!streamVars)
        /\ [Back!StreamNext]_(Back!streamVars)
    BY <1>3, <2>2, ForthSteps, BackSteps
  <2> QED BY <2>3
<1> QED BY <1>1, <1>2, <1>3

\* What is typed reaches TCP: up to a fault the program is a reliable stream from
\* standard input to the outbound stream of the socket, whatever is partly
\* written, hung up or read late between the two threads.
THEOREM InputIsSentAlways == Spec => InputIsSent
<1>1. BytesInv => (ForthHolds \/ Faulted) /\ (BackHolds \/ Faulted)
  BY BothHold
<1>2. BytesInv /\ BytesInv' /\ [Next]_vars
        => [Faulted' \/ Forth!StreamNext]_(Forth!streamVars)
  <2>1. BytesInv' => (ForthHolds' \/ Faulted') /\ (BackHolds' \/ Faulted')
    BY <1>1, PTL
  <2> QED BY <1>1, <2>1, StepsAreSteps
<1> QED BY <1>2, BytesInOrder, PTL DEF Spec, InputIsSent

\* What the remote peer sent is printed: up to a fault the program is a reliable
\* stream from the inbound stream of TCP to standard output, closed after the last
\* byte.
THEOREM RemoteIsPrintedAlways == Spec => RemoteIsPrinted
<1>1. BytesInv => (ForthHolds \/ Faulted) /\ (BackHolds \/ Faulted)
  BY BothHold
<1>2. BytesInv /\ BytesInv' /\ [Next]_vars
        => [Faulted' \/ Back!StreamNext]_(Back!streamVars)
  <2>1. BytesInv' => (ForthHolds' \/ Faulted') /\ (BackHolds' \/ Faulted')
    BY <1>1, PTL
  <2> QED BY <1>1, <2>1, StepsAreSteps
<1> QED BY <1>2, BytesInOrder, PTL DEF Spec, RemoteIsPrinted
=============================================================================
