------------------------------ MODULE Program -------------------------------
(* main() of src/apps/tcp_ipv4.cc with its two threads.  The owner opens a  *)
(* TCPMinnowSocket, copies standard input into it and what comes out of it  *)
(* to standard output, and waits until it is closed; the thread of the      *)
(* socket runs its event loop.  They share a pair of AF_UNIX sockets.  Each *)
(* event loop takes two steps a turn, one that polls and one that serves,   *)
(* looks for what is over, and asks again: what happens between the end of  *)
(* a callback and the next poll() reads nothing that another thread writes. *)
EXTENDS FileDescriptor, SequencesExt

CONSTANTS
  buffer_size, send_capacity, recv_capacity, RemoteBytes,
  PairRoom,      \* what the kernel buffers for each end of the pair
  OutputRoom,    \* and for standard output
  InputBytes,    \* bound: bytes on standard input
  Openings,      \* what the owner calls: "connecting", "listening"
  Terminals,     \* whether standard input is a terminal
  Breaks         \* whether the reader of standard output may leave

\* Sizes are numbers; the owner reads and copies at least a byte at a time.
ASSUME ProgramAssumption ==
  /\ kReadBufferSize \in Nat \ {0} /\ buffer_size \in Nat \ {0}
  /\ send_capacity \in Nat /\ recv_capacity \in Nat
  /\ PairRoom \in Nat /\ OutputRoom \in Nat
  /\ RemoteBytes \in Nat /\ InputBytes \in Nat
  /\ Openings \subseteq {"connecting", "listening"} /\ Terminals \subseteq BOOLEAN

Copy == INSTANCE StreamCopy
Socket == INSTANCE MinnowSocket

VARIABLES
  stage,        \* of the owner: "connecting" or "listening", "copying", "closing",
                \* "joining", "over"
  thread,       \* of the socket: "none", "running", "ended"
  abort,        \* _abort
  copy,         \* what bidirectional_stream_copy() owns,
  copyLoop,     \* its event loop,
  copyTurn,     \* and where the loop is: "poll" or "serve"
  socket,       \* what the socket's thread owns
  socketLoop,
  socketTurn,
  files,        \* standard input and output, the two directions of the pair
  fate,         \* of the program: "alive", "killed" by a signal, or it "threw"
  typed,        \* how many bytes came to standard input,
  taken         \* and left standard output

owner == << copy, copyLoop, copyTurn >>
peer == << socket, socketLoop, socketTurn >>
outside == << typed, taken >>
vars == << stage, thread, abort, owner, peer, files, fate, outside >>

CopyWorld == [me |-> copy, loop |-> copyLoop, files |-> files, fate |-> fate]
SocketWorld == [me |-> socket, loop |-> socketLoop, files |-> files, fate |-> fate]

NewFiles(terminal) ==
  [terminal |-> terminal,
   input |-> NewFile(InputBytes), output |-> NewFile(OutputRoom),
   toTcp |-> NewFile(PairRoom), toOwner |-> NewFile(PairRoom)]

Swept(sweep(_), me, loop) ==
  sweep([me |-> me, loop |-> loop, files |-> NewFiles(FALSE), fate |-> "alive"]).loop

\* connect() pushes the SYN before its loop starts.
Opened(opening) ==
  [Socket!NewSocket EXCEPT
     !.tcp = IF opening = "connecting" THEN Socket!TcpPush(@) ELSE @]

Init ==
  /\ stage \in Openings /\ thread = "none" /\ abort = FALSE
  /\ copy = Copy!NewCopy
  /\ copyLoop = Swept(Copy!Loop!Sweep, copy, Copy!Loop!NewLoop(Copy!CopyRules))
  /\ socket = Opened(stage)
  /\ socketLoop = Swept(Socket!Loop!Sweep, socket, Socket!Loop!NewLoop(Socket!SocketRules))
  /\ copyTurn = "poll" /\ socketTurn = "poll"
  /\ files \in {NewFiles(terminal) : terminal \in Terminals}
  /\ fate = "alive" /\ typed = 0 /\ taken = 0

-----------------------------------------------------------------------------
(* The owner.                                                               *)

CanCopyPoll ==
  /\ fate = "alive" /\ stage = "copying" /\ copyTurn = "poll"
  /\ Copy!Loop!Wakes(CopyWorld)

CopyPoll ==
  /\ CanCopyPoll
  /\ copyTurn' = "serve" /\ copyLoop' = Copy!Loop!Poll(CopyWorld).loop
  /\ UNCHANGED << stage, thread, abort, copy, peer, files, fate, outside >>

CopyServe ==
  LET after == Copy!Loop!Sweep(Copy!Loop!Serve(CopyWorld))
  IN  /\ fate = "alive" /\ stage = "copying" /\ copyTurn = "serve"
      /\ copyTurn' = "poll" /\ copy' = after.me /\ copyLoop' = after.loop
      /\ files' = after.files /\ fate' = after.fate
      /\ stage' = IF Copy!Loop!NothingToPoll(after) THEN "closing" ELSE stage
      /\ UNCHANGED << thread, abort, peer, outside >>

\* Mutant of PairShut: SHUT_RD.
PairShutRead == [files EXCEPT !.toOwner = Shutdown(@)]

\* shutdown( SHUT_RDWR ) of the owner's end, by either thread.
PairShut == [files EXCEPT !.toTcp = Shutdown(@), !.toOwner = Shutdown(@)]

\* wait_until_closed()
WaitUntilClosed ==
  /\ fate = "alive" /\ stage = "closing"
  /\ files' = PairShut /\ stage' = "joining"
  /\ UNCHANGED << thread, abort, owner, peer, fate, outside >>

\* ~TCPMinnowSocket() when the owner did not wait.
Destroy ==
  /\ fate = "alive" /\ stage \in {"copying", "closing"} /\ copyTurn = "poll"
  /\ abort' = TRUE /\ stage' = "joining"
  /\ UNCHANGED << thread, owner, peer, files, fate, outside >>

Join ==
  /\ fate = "alive" /\ stage = "joining" /\ thread = "ended"
  /\ stage' = "over"
  /\ UNCHANGED << thread, abort, owner, peer, files, fate, outside >>

-----------------------------------------------------------------------------
(* _tcp_loop(), first on the owner's thread and then on the socket's.       *)

\* connect() and listen_and_accept() loop while this holds.
StillOpening(t) ==
  CASE stage = "connecting" -> t.in_flight = 1
    [] stage = "listening"  -> ~t.has_ackno \/ t.in_flight > 0

\* The end of a turn: the loop goes on, or the thread starts.
TurnEnds(after) ==
  LET opened == /\ thread = "none"
                /\ (~StillOpening(after.me.tcp) \/ Socket!Loop!NothingToPoll(after))
  IN  /\ socketTurn' = "poll" /\ socketLoop' = after.loop
      /\ socket' = [after.me EXCEPT !.datagram = "none"]
      /\ files' = after.files /\ fate' = after.fate
      /\ stage' = IF opened THEN "copying" ELSE stage
      /\ thread' = IF opened THEN "running" ELSE thread
      /\ UNCHANGED << abort, owner, outside >>

Polling ==
  /\ fate = "alive" /\ thread # "ended"
  /\ socketTurn = "poll" /\ ~Socket!Loop!NothingToPoll(SocketWorld)

\* The datagram that poll() finds in the TUN device, if any.
Found(datagram) == [SocketWorld EXCEPT !.me.datagram = datagram]

CanSocketPoll(datagram) ==
  /\ Polling
  /\ datagram # "none" =>
       "receive" \in socketLoop.asked /\ datagram \in Socket!Datagrams(socket.tcp)
  /\ Socket!Loop!Wakes(Found(datagram))

SocketPoll(datagram) ==
  /\ CanSocketPoll(datagram)
  /\ socketTurn' = "serve" /\ socket' = Found(datagram).me
  /\ socketLoop' = Socket!Loop!Poll(Found(datagram)).loop
  /\ UNCHANGED << stage, thread, abort, owner, files, fate, outside >>

SocketServe ==
  LET served == Socket!Loop!Serve(SocketWorld)
  IN  /\ fate = "alive" /\ thread # "ended" /\ socketTurn = "serve"
      /\ TurnEnds(IF abort THEN served ELSE Socket!Loop!Sweep(served))

\* poll() times out and tick() finds that nothing was heard for the linger time.
\* (The time matters only when nothing else keeps the peer active.)
CanElapse ==
  /\ Polling /\ ~abort /\ ~Socket!Loop!Wakes(SocketWorld)
  /\ ~Socket!SenderActive(socket.tcp) /\ ~Socket!ReceiverActive(socket.tcp)
  /\ ~socket.tcp.elapsed

Elapsed == [socket EXCEPT !.tcp.elapsed = TRUE]

Elapse == CanElapse /\ TurnEnds(Socket!Loop!Sweep([SocketWorld EXCEPT !.me = Elapsed]))

\* The end of _tcp_main(), when nothing is left to poll or _abort is seen.
CanFinish ==
  /\ fate = "alive" /\ thread = "running" /\ socketTurn = "poll"
  /\ Socket!Loop!NothingToPoll(SocketWorld) \/ abort

Finish ==
  /\ CanFinish
  /\ files' = PairShut /\ thread' = "ended"
  /\ UNCHANGED << stage, abort, owner, peer, fate, outside >>

-----------------------------------------------------------------------------
(* Standard input and output.                                               *)

Type ==
  /\ typed < InputBytes /\ ~files.input.ended
  /\ typed' = typed + 1
  /\ files' = [files EXCEPT !.input.data = Append(@, typed + 1)]
  /\ UNCHANGED << stage, thread, abort, owner, peer, fate, taken >>

EndInput ==
  /\ ~files.input.ended
  /\ files' = [files EXCEPT !.input = Shutdown(@)]
  /\ UNCHANGED << stage, thread, abort, owner, peer, fate, outside >>

Take ==
  /\ files.output.data # <<>> /\ ~files.output.broken
  /\ taken' = taken + 1
  /\ files' = [files EXCEPT !.output.data = Tail(@)]
  /\ UNCHANGED << stage, thread, abort, owner, peer, fate, typed >>

BreakOutput ==
  /\ Breaks /\ ~files.output.broken /\ ~files.output.closed
  /\ files' = [files EXCEPT !.output.broken = TRUE]
  /\ UNCHANGED << stage, thread, abort, owner, peer, fate, outside >>

SocketStep ==
  \/ \E datagram \in {"none"} \union Socket!Datagrams(socket.tcp) : SocketPoll(datagram)
  \/ SocketServe
  \/ Elapse
  \/ Finish

OwnerStep == CopyPoll \/ CopyServe \/ WaitUntilClosed \/ Join

Next == OwnerStep \/ SocketStep \/ Type \/ EndInput \/ Take \/ BreakOutput

\* A step of Next that finds this datagram, or none.
Finds(datagram) ==
  CanSocketPoll(datagram) /\ socketTurn' = "serve" /\ socket' = Found(datagram).me

\* The threads run, and so does who reads standard output.  The network does not
\* flood the TUN device, it brings acknowledgments in the end (TCPLiveness), and
\* it is silent for the linger time at last.  Each conjunct names an action by
\* the variable that no other action changes so.
Fairness ==
  /\ WF_copyTurn(CanCopyPoll /\ copyTurn' = "serve")
  /\ WF_copyTurn(fate = "alive" /\ copyTurn = "serve" /\ stage = "copying" /\ copyTurn' = "poll")
  /\ WF_stage(fate = "alive" /\ stage = "closing" /\ stage' = "joining")
  /\ WF_stage(fate = "alive" /\ stage = "joining" /\ thread = "ended" /\ stage' = "over")
  /\ WF_socketTurn(fate = "alive" /\ socketTurn = "serve" /\ socketTurn' = "poll")
  /\ WF_thread(CanFinish /\ thread' = "ended")
  /\ WF_taken(files.output.data # <<>> /\ ~files.output.broken /\ taken' = taken + 1)
  /\ SF_socketTurn(Finds("none"))
  /\ SF_socketTurn(Finds("ack"))
  /\ SF_socketTurn(Finds("synack"))
  /\ SF_socket(CanElapse /\ socket' = Elapsed)

Spec == Init /\ [][Next]_vars
FairSpec == Spec /\ Fairness

\* An owner that may let go of the socket at any time.
AbruptSpec == Init /\ [][Next \/ Destroy]_vars

-----------------------------------------------------------------------------
\* What the outside may do to the program: reset its connection, stop reading.
Faulted == socket.tcp.inbound.error \/ files.output.broken

Over == stage = "over" \/ fate # "alive"

Bytes(n) == [i \in 1..n |-> i]

Forth == INSTANCE ReliableStream WITH
  written <- typed,
  ended <- files.input.ended,
  delivered <- Bytes(socket.tcp.outbound.total_popped) \o socket.tcp.outbound.buffer,
  finished <- socket.tcp.outbound.closed

Back == INSTANCE ReliableStream WITH
  written <- socket.tcp.inbound.total_pushed,
  ended <- socket.tcp.inbound.closed,
  delivered <- Bytes(taken) \o files.output.data,
  finished <- files.output.closed

\* Up to a fault, the two threads and the six buffers between them are a reliable
\* stream from standard input to TCP: hang-ups, ends of files, partial writes and
\* full buffers lose and reorder nothing, and the end comes after the last byte ...
InputIsSent == [][Faulted' \/ Forth!StreamNext]_(Forth!streamVars)

\* ... and from TCP to standard output, which is closed only after the last byte.
RemoteIsPrinted == [][Faulted' \/ Back!StreamNext]_(Back!streamVars)

\* No lost wake-up: what waits in the outbound stream of TCP, or the end of it,
\* also one that a cancelled rule closed, has something in flight before it, or
\* the connection was reset.
NothingIsStranded ==
  LET t == socket.tcp
  IN  t.outbound.buffer # <<>> \/ (t.outbound.closed /\ ~t.fin_sent)
        => t.in_flight > 0 \/ t.inbound.error

\* No thread writes to the other after that one shut the pair down (SIGPIPE), none
\* waits busily, no write finds no room, as long as nothing outside fails.
NobodyDies == fate # "alive" => Faulted

\* The output broke after the poll() at which the owner found the end to write to
\* it, so it was closed and the failure not seen, and standard input is open.
BreaksUnnoticed ==
  /\ files.output.broken /\ files.output.closed
  /\ ~files.input.ended /\ ~socket.tcp.inbound.error

\* Each thread waits for room that only the other could make: after the output
\* failed the owner does not read, and after a reset the socket's thread does not.
BothWaitForRoom ==
  /\ socket.tcp.inbound.error /\ files.output.broken
  /\ \A f \in {files.toTcp, files.toOwner} : Len(f.data) = f.room

\* Nothing is left to copy: both sources ended, or the remote one did and nobody
\* reads the output, or the connection was reset.  Once it is so, it stays so.
NothingToCopy ==
  \/ socket.tcp.inbound.closed /\ (files.input.ended \/ files.output.broken)
  \/ socket.tcp.inbound.error

\* The two loops never wait for one another for ever: when nothing is left to copy
\* the program ends.  It may only stay, for good, in one of the two states above.
ProgramEnds ==
  <>[](NothingToCopy => Over \/ BreaksUnnoticed \/ BothWaitForRoom)

\* wait_until_closed() returns when it is called on a socket that reached its end
\* of file, as the note on it asks.
WaitReturns ==
  stage = "joining" /\ files.toOwner.eof ~> Over

\* "When a connected socket is destructed, it will send a RST"
DestroyedSendsReset ==
  abort /\ stage = "over" /\ Socket!TcpActive(socket.tcp) => socket.tcp.rst_sent
=============================================================================
