# A specification of the minnow TCP/IP stack

TLA+ modules, model-checking runs and proofs about the user-space TCP/IP stack
of this repository.  Paths below are relative to the repository (`src/` is its
sources directory, `util/` its utilities, `apps/` its programs).

## 1. The system

| component | state | operations | talks to |
|---|---|---|---|
| ByteStream (`src/byte_stream.cc`) | buffer, two counters, closed, error | push, close, peek, pop | owned by sender, reassembler |
| Wrap32 (`src/wrapping_integers.cc`) | none | wrap, unwrap | used by sender, receiver |
| Reassembler (`src/reassembler.cc`) | map of chunks, next index, end of stream | insert | writes a ByteStream |
| TCPReceiver (`src/tcp_receiver.cc`) | peer's ISN | receive, send | feeds a Reassembler |
| TCPSender (`src/tcp_sender.cc`) | queue of unacknowledged segments, next number, window, timer | push, receive, tick | reads a ByteStream |
| TCPPeer (`util/tcp_peer.hh`) | lingering and its clock | push, receive, tick, active | joins sender and receiver |
| TCPMinnowSocket (`util/tcp_minnow_socket_impl.hh`) | event loop, thread, socket pair | connect, listen_and_accept, wait_until_closed | runs a TCPPeer |
| LossyFdAdapter (`util/lossy_fd_adapter.hh`) | random engine | read, write, each may drop | wraps a datagram adapter |
| TCPOverIPv4Adapter (`util/tcp_over_ip.cc`) | configuration, listening flag | wrap, unwrap | datagrams of the socket |
| EventLoop (`util/eventloop.cc`) | rules on descriptors | wait_next_event | calls back the socket |
| NetworkInterface (`src/network_interface.cc`) | ARP cache, retry timers, waiting datagrams | send_datagram, recv_frame, tick | frames on a port |
| Router (`src/router.cc`) | routing table, interfaces | add_route, route | NetworkInterfaces |
| BidirectionalStreamCopy (`apps/bidirectional_stream_copy.cc`) | two streams, event loop | copy loop | stdin/stdout and a socket |
| FileDescriptor, Socket (`util/file_descriptor.cc`, `util/socket.cc`) | end-of-file and closed flags, counters | read, write, shutdown, close | the kernel's pipes and socket pairs |
| Parser, checksum, headers (`util/parser.cc`, `util/checksum.hh`, `util/ipv4_header.cc`, `util/tcp_segment.cc`) | what is left of a list of buffers | parse, serialize | adapter |
| tcp_ipv4 (`apps/tcp_ipv4.cc`) | none | open, copy, wait | a TCPMinnowSocket and the copy loop |

A connection is two TCPPeers.  Each is run by one thread: its event loop calls
`receive` for a datagram, `push` for bytes of the application, pops bytes to the
application, and calls `tick` after each turn.  There is no shared memory
between the two ends: what is concurrent there is the interleaving of the two
loops with a network that loses, duplicates and reorders, and with the clock.
Within one end there are two threads, that of the socket and its owner, each with
an event loop.  They share a pair of connected AF_UNIX sockets, the flag `_abort`
and, through `shutdown()`, the state of the owner's descriptor.

What is hard, and what has to be right about it:

* **Sender bookkeeping.**  Segments, numbers in flight, timer, backoff and window
  are seven fields that every method updates separately.  They must agree after
  any mix of acknowledgments (also bogus ones), zero windows, timeouts, resets.
* **Reassembly.**  Chunks overlap in any way and the reader moves the capacity
  limit.  No byte may be lost, doubled or out of place, nothing that could be
  written held back, and the stream closed exactly at its end.
* **Numbers.**  32-bit numbers are recovered from the nearest checkpoint; zero and
  half the range are the edges.  The stream index underflows below the first byte.
* **The connection.**  Data and FIN are delivered reliably whatever the network
  does; an end that finishes must not strand the other; nothing waits for ever.
* **Flow control.**  The receiver never announces that its window reopened; only
  the sender's probe finds out.
* **The network layer.**  Three maps of an interface agree on what is known, asked
  for and waited for, whatever answers come; a datagram goes out once, in order, to a
  fresh address.  The longest prefix wins; routes in a circle must not keep a datagram
  alive.
* **Around TCP.**  Between standard input and TCP lie three buffers and two event
  loops whose rules are cancelled by ends of files and hang-ups.  Bytes must come
  through in order and before the end of file, no thread may write where the other
  has shut down, and `wait_until_closed` must return.
* **On the wire.**  What an adapter reads must be what its peer wrote: not a datagram
  that was damaged, not one of another connection, not the padding of a link; and
  what is sound must not be thrown away.

`PROJECT.json` has the hazards one by one, each with its line.

## 2. Plan

Modules, in the order in which they are written; those marked * exist.

1. `ByteStream`*, `WrappingIntegers`*: the data types, as operators on a record.
2. `TCPSender`* and `TCPSenderSystem`*: the sender against an arbitrary peer;
   `TCPSenderLoops`*: its loops, compared with their closed forms.
3. `TCPSenderProofs`*: the invariants of the sender for all parameters.
4. `Reassembler`*, `ReassemblerSystem`*, `ReassemblerLoops`*, and the abstract
   `ReassemblySpec`*, which the reassembler implements.
5. `TCPReceiver`*, `TCPPeer`*, `TCPConnection`*: two peers over a network, an
   implementation of the abstract `ReliableStream`* in each direction;
   `TCPLiveness`*: the same over a network that loses.
6. `NetworkInterface`* and `InterfaceSystem`*: an interface on an arbitrary Ethernet,
   an implementation of the abstract `DatagramDelivery`*; `InterfaceProofs`*.
   `Router`*, `RoutingTable`*, and `Internet`*: routers and hosts on segments.
7. `FileDescriptor`*, `EventLoop`*, `MinnowSocket`* and `StreamCopy`*: descriptors,
   rules, hang-ups and cancellation; `Program`* composes them into `tcp_ipv4` with its
   two threads, an implementation of `ReliableStream` on both sides of TCP; `ProgramProofs`*.
8. `Parser`*, `IPv4`*, `TCPSegment`*, `TCPOverIPv4Adapter`* and `AdapterSystem`*: from
   messages to octets and back, and the filter of the adapter.
9. `Basics`*, `BasicLemmas`*, `TransportLemmas`*: lemmas about sequences, maps, numbers and the operators;
   `ReassemblerProofs`*: the reassembler implements its specification;
   `ConnectionProofs`*: two peers are a reliable stream in each direction;
   `InternetProofs`*: only the addressee gets a datagram, nothing duplicates it,
   datagrams keep their order across the network, and the longest prefix wins.
10. Left to TLC: the parts named under "Only model-checked" in section 5.

## 3. Modules and code

Every definition that stands for code is listed under "map" in `PROJECT.json`
with the lines it stands for.

**ByteStream.**  A stream is a record with the members of the class.  `Writer` and
`Reader` methods are operators from record to record, because the code has three
owners of a stream.  Bytes are values of any set: the instances use the position
of a byte in the stream, so that a byte out of place is visible.

**WrappingIntegers.**  `MOD` stands for 2^32.  The sender and the receiver use `Wrap`
and `Unwrap`; part I of `TransportLemmas` is about the two functions themselves.

**TCPSender.**  One record, one operator for each method, and, for methods that take
`transmit`, a second operator for the messages they transmit, in order.  The `while`
of `fill_window` is replaced by what it computes: room, payload, number of
segments, FIN.  `TCPSenderLoops` has the loop as it is written, and the one of `receive`, a
turn at a time; the run `sender` checks that they agree with the closed forms in all
reachable states, and `LoopsAreTheClosedForms` proves it.  `ReassemblerLoops` does the same
for the merges and the flush of the reassembler (`InsertIsTheLoops`).  A loop is a function
from the number of turns to where it is, with a bound on its turns that the proofs justify:
none is left.  `debug` output is left out.

**TCPSenderSystem.**  Variables: the sender, the messages of the last call, all
messages ever transmitted.  Actions: the public methods (`CallPush`, `CallReceive`,
`CallTick`) and what an application can do to the stream.  `CallReceive` takes any
message whatever, including acknowledgments of numbers never sent.

**Reassembler, ReassemblerSystem, ReassemblySpec.**  `pending` is a function from
indices to chunks, like the map of the code.  The order of trims, merges, flush and
close, and each early return, is that of `insert`.  The system inserts any substring
of one stream, at any time, any number of times; the reader pops.

**TCPReceiver, TCPPeer.**  Operators again.  A `Message` has the two halves of the
code's `TCPMessage`; serialization merges their two RST flags into one bit, so the
model does too.  The peer's two clock values appear as their difference.

**TCPConnection.**  Variables: the peer of each end and the messages the network
holds for it.  One action for each rule of the event loop, for the first push of
`connect` and for the tick; each includes all that the callback does, the final
`push` too.  In the code the tick follows each event in the same turn of the loop; it
is an action of its own here since the time passed in a turn may be zero.
`Close` is the end of file of the local socket.  After the peer is inactive only
the reading of remaining bytes goes on, so the specification may stop: the runs of
this module set CHECK_DEADLOCK FALSE for that reason.  No peer of this module resets its
stream: what its properties and those of `TCPLiveness` say of the end of a connection
(`FinishIsClean`, `CloseIsSeen`) they say of one without a reset.  Resets are sent to a
sender in `TCPSenderSystem` and to a program in `Program`.

**TCPLiveness.**  The same actions over a network that holds one message for each
end, with loss as an action (a drop by the `LossyFdAdapter`, or on the way: the two
cannot be told apart) and fairness.

**NetworkInterface, InterfaceSystem, DatagramDelivery.**  One record with the maps of
the class; methods are operators, and what they transmit is a second one, as for the
sender.  `Put` is what assigning to a map does.  The retries of a tick are in any
order, since they follow an `unordered_map`.  The system's actions are the public
methods: datagrams for any next hop, and any frame whatever (from honest or confused
neighbours, for us or not, of unknown type).  A datagram is its number.  Histories
remember what each datagram was for, how long it has waited, when an address was last
asked for and who was heard of: against them, and not against the maps, the properties
are stated.  `DatagramDelivery` says only what a network may rely on.

**Router, RoutingTable.**  `Route` goes through what has arrived in the order of the two
loops; `BestMatch` is the scan of the table, with its tie-break.  `RoutingTable` adds
any routes and compares the scan with agreement bit by bit, without masks.

**Internet.**  The network of `tests/router.cc`: hosts with a gateway, routers,
segments that carry frames in order to all other interfaces.  What the test lacks is
added: frames are lost, clocks run, routes come while datagrams are under way, and all
in any order.  Hardware addresses are the names of the interfaces.  A host is an end of the
network: no gateway and no route leads through it (`RoutesAssumption`).  In the test
`default_router` and `hs_router` are made as hosts and take what is for others; they stand
for what lies beyond, and are routers in the sense of the model.

**FileDescriptor.**  One direction of a pipe or of the pair of sockets: the bytes the
kernel holds and its room, whether the writing side ended and the reading side broke,
and the flags that `FDWrapper` keeps.  `read`, `write`, `shutdown` and `close` with
their early returns and exceptions; what `poll` says is the kernel's part.  The counts
of reads and writes matter only as "did the callback touch its descriptor", so that is
what the model keeps (`serviced`).  Nothing in the repository ignores SIGPIPE: a write
where nobody reads kills the program.

**EventLoop.**  `wait_next_event` is split where another thread can act: `Sweep`, what it
does before `poll` (cancel rules that are over, ask those that are interested), `Poll`,
and `Serve`, the walk through the results up to the first callback.  The rules' functions
are parameters, so that one module serves both loops of the program.

**StreamCopy, MinnowSocket.**  The four rules of `bidirectional_stream_copy` and the three
of `_initialize_TCP`, each callback, interest, cancellation and error function an
operator.  Of the TCPPeer, `MinnowSocket` keeps the streams and what decides `active()`,
with a window of one number and segments named for their effect ("syn", "ack", "byte",
"fin", "reset", "stale", "other"): that the real peer has these effects over any network
is the matter of `TCPConnection` and `TCPLiveness`.

**Program.**  `main` of `tcp_ipv4.cc`.  `stage` is where the owner is, `thread` the life of
the thread of the socket; `connect` and `listen_and_accept` run the loop on the owner's
thread until `StillOpening` ends, as in the code.  A turn of a loop is two steps, one
that polls and one that serves and sweeps: between the end of a callback and the next
`poll` nothing is read that the other thread writes.  `Destroy` is the destructor of a
socket whose owner did not wait (`AbruptSpec` only).  Standard input, standard output and
the remote side act at any time; the remote side may reset and the reader of standard
output may leave.

**Parser, IPv4, TCPSegment, TCPOverIPv4Adapter.**  Octets.  A `Parser` is a list of
buffers and how much of the first is skipped; 32-bit numbers are two words because
TLC's integers have 32 bits and a sign.  Headers are tables of widths and
the records that `parse` makes of them.  The adapter keeps its configuration and whether
it listens.  `ReadInto` is `read` into several buffers, which is how a datagram comes from
the TUN device (header, header, rest), so that payloads cross buffers.

**AdapterSystem.**  One datagram at a time on the way between hosts, one of which listens.
The network loses it, brings it to anyone and to several, flips one of its bits or pads it.

## 4. Runs

| run | question | instance |
|---|---|---|
| sender | do the sender's books agree under any peer, and are the closed forms those of the loops? | MOD 8, up to 4 bytes, segments of 2, windows 0, 1 and 4, two counted timeouts |
| reassembler | does `insert` keep the promise of its comment, and do its closed forms equal its loops? | 8 bytes, capacity 7: up to three chunks with gaps |
| flow | data through a window that opens and closes, several segments in flight | two one-byte segments and the FIN in a window of two that fills up, one side closes, one timeout in a row; the network keeps everything |
| liveness | both directions at once up to the end of both streams and of the lingering: does the connection end cleanly, and does everything eventually happen? | two bytes one way and one the other through windows of one, both sides open and close, linger time of one tick; the network loses and forgets |
| stale_window | does the sender stay within the advertised window? No. | four bytes, window of two |
| interface | do the maps agree, and do datagrams go out once, in order, to fresh addresses? | two neighbours, two hardware addresses that they exchange, two datagrams; retry of two, expiry of three units of time |
| longest_prefix | is the scan longest-prefix match? | all tables of up to three routes, addresses of three bits, all addresses |
| internet | does each datagram go once, in order, to its addressee only? | two hosts, two routers in a chain, two datagrams of one host, frames lost, time passing, routes being added |
| internet_ends | does every datagram leave the network, and does it get there if nothing is lost? | same network, two datagrams of either host: to each other, to an address that is routed in a circle; lifetimes of two and three hops; no frame lost |
| adapters | is what an adapter reads what its peer wrote? | a listener and three clients, one pair with the same port and one with the same address; opening, odd and even data, carries, an end, a reset; every octet damaged in one bit, padding of two |
| program | does `tcp_ipv4` lose, reorder, die or hang? | buffers of one byte (two for what TCP received), two bytes each way, connecting and listening, a reset or a broken output at any time |
| abandoned | does the destructor reset the connection? No. | one byte each way, no faults |

The runs `stale_window` and `abandoned` state what the repository says and find it
violated; `PROJECT.json` quotes the lines under "findings".

*Bounds.*  Numbers in an instance stay small because the code compares numbers only
within half the modulus; `Isn` is chosen close to `MOD` so that numbers wrap while a
connection is alive.  `MaxStream`/`MaxBytes` bound what applications write: four
bytes in segments of two make two segments in one push, full or partial, and an
acknowledgment falls inside one.  `Closers` are the sides whose application ends its
stream.  `MaxRetx` bounds consecutive timeouts: two are enough for a doubled timeout
to be reset and doubled again, and one for a segment to be there twice.  `UINT64_MAX` is 99, larger than any index, so
that "before the first byte" stays distinct.  `LingerTime` is one tick instead of
ten timeouts: what matters is that it ends after the timeouts that can occur in an
instance.  With `Keeps` the network of TCPConnection never forgets a message: any
message may arrive at any time, any number of times, or never.  Without it (run
`liveness`) it holds one message for each end, which the next one
replaces: a smaller world, in which more bytes and more timeouts fit.

In `interface` time has a grain of half a retry; the expiry is odd so that entries run
out between retries.  `MaxReceived` bounds what the owner leaves in the queue.  In
`Internet` both are one tick long, the shortest in which each can race the other;
`WireCapacity` bounds a segment, and more frames than that are lost, so no step is
held up by the bound (in `internet_ends`, where a loss would show, it is never
reached).  Lifetimes of three are enough for two routers, two are not.  The runs of
`Internet` with an end (`internet`, `internet_ends`) and the routing table, which
is full at some time, set CHECK_DEADLOCK FALSE.

In `program` every buffer holds one byte, so that each of them is full and empty while
others are not; two bytes make a partial write, since what TCP received may hold two and
the pair takes one.  `kReadBufferSize` is larger than all buffers, as it is larger than
the rest of a datagram in the code.  The input is a pipe; a terminal or file, which is
ready at its end instead of hung up, is the instance of `abandoned`.  The owner stops when
it is done, so CHECK_DEADLOCK is FALSE there; `ProgramEnds` says when it must.
In `adapters` a bit of every octet is flipped, one for each place, and the reserved bit of
the fragment field besides: the header keeps no field for it, so that the checksum, which
is taken over what was kept, does not notice it, and nothing depends on it (`Harmless`).

*Fairness in `Program`.*  Both threads run (weak fairness of polls that would return, of
serving, of waiting and joining, of the end of the thread), and who reads standard output
does so until he leaves.  The network does not flood the TUN device: `poll` also finds no
datagram infinitely often, for rule 1 comes before the others in the list and one rule is
served in each call.  What is in flight is acknowledged in the end (`TCPLiveness` shows
it for a network that loses, not for ever) and when both streams are over the linger time
passes at last.  Nothing is assumed of who types, and nothing of resets and broken pipes.

*What `program` excuses.*  `InputIsSent`, `RemoteIsPrinted` and `NobodyDies` hold up to a
fault from outside: a reset or a broken output.  After one, bytes may be lost by design,
and the program may die of SIGPIPE: rule 3 shuts its side after a partial write when the
inbound stream has an error, and writes again; and the thread that ends shuts the pair
between the owner's `poll` and its write.

*When `program` ends.*  `ProgramEnds` says that when nothing is left to copy, because both
sources ended, or the remote one did and the output broke, or the connection was reset, the
program is over in the end.  Having nothing to copy and being over both last, so the
property is a `<>[]`, which TLC checks in less time than the same with `~>`.  Two states are
excused, each only to those who stay in it for good.  `BreaksUnnoticed`: the output breaks
after the last `poll` before the owner closes it, the failure is never reported, and the
program waits for standard input to end although nobody reads what it prints; there was no
reset.  `BothWaitForRoom`: after a reset and a broken output, in either order, both
directions of the pair are full, and neither thread reads the one that it would have to.
Without either of them TLC finds a counterexample.  In particular a reset ends the program
at any other time, also when its output was closed and its input is still open.

*Fairness in `Internet`.*  The owner of a router calls `route`, a segment carries its
first frame, and hosts take what arrived, each if it can for ever.  In the run
`internet_ends` no frame is lost and no clock runs (`Faulty` FALSE), so that a circle
can end only because of the TTL and every question is answered.  What lost frames,
expired addresses and repeated questions do is the matter of `internet`.

*Fairness in `TCPLiveness`.*  `connect` is executed when called; an application
that has bytes to read reads them; the event loop of an active peer keeps ticking
until a running timer fires; a direction of the network that is offered messages
again and again delivers some, and some with data among them.  The code ticks at
least every 10 ms (`TCP_TICK_MS`) and the loss rate of the adapter is a
probability below one, independent for each datagram.  No fairness is assumed for
writing or closing.

## 5. Proofs

What is proved about the operators of one record is in a module of lemmas, so that it can
be used for a component alone and for the connection: `TransportLemmas` (I. Wrap32,
II. ByteStream, III. TCPSender, IV. Reassembler), above `BasicLemmas` (parts of sequences, least
and greatest numbers, recursion, powers, maps, selections from a sequence).  A module of proofs then has the invariant of a system, one step for
each of its actions, and the theorems.

`TCPSenderProofs` proves for `TCPSenderSystem`, for every modulus, initial number,
payload size, timeout, capacity, set of windows and set of ticks:

| theorem | what holds always |
|---|---|
| `SenderInvariant` | the inductive invariant |
| `TypeCorrect` | `TypeOK`: no unsigned counter goes below zero, the stream accounts for its bytes |
| `DequeIsContiguous` | outstanding segments are consecutive, not empty, and end at `next_seqno_` |
| `DequeIsUnacked` | they are exactly what the peer has not acknowledged, `bytes_in_flight_` is their size |
| `TimerCorrect` | the timer runs exactly while something is outstanding |
| `FinCorrect` | the FIN has the number after the last byte of a closed, drained stream |
| `WindowRespected` | new segments stay in the window in force, and there are none after the FIN |
| `WireHonest` | every segment ever transmitted says the bytes, SYN and FIN that belong to its number |
| `RetransmissionNeeded` | what a timeout sends again begins with the first number not acknowledged |
| `BackoffCorrect` | the timeout is the initial one, doubled for each counted retransmission |
| `LoopsAreTheClosedForms` | the loops of `fill_window` and `receive` do what the closed forms say |

*Assumptions.*  Those of the modules on their constants: `ModAssumption` (`MOD` is a
positive even number), `SenderAssumption` (payload size and initial timeout are
positive) and `SystemAssumption` (types).  TLC evaluates them in each run.  Peers are
arbitrary: no message is assumed to be honest.

*The argument.*  None of the properties is inductive alone.  That the deque is what is
unacknowledged needs that it is contiguous (what `receive` pops is a prefix whose
sizes add up to the distance between two starts, `StartsIncrease`); that it stays
contiguous when `push` appends needs that it ends at `next_seqno_`; that the FIN is
last needs that `next_seqno_` counts SYN, popped bytes and FIN, which needs that the
stream accounts for its bytes.  `Consistent` is the conjunction, and it is a
predicate on one sender record, so that each method has a lemma of its own: `push`
(`PushKeepsConsistent`), `receive` (`ReceiveKeepsConsistent`, from lemmas on the
acknowledgment, the window and the reset), `tick` (`TickKeepsConsistent`), and the
application's calls.  Under `push` lie the arithmetic of rounding up
(`PiecesCover`), the shape of each segment (`SegmentShape`) and that each ends where
the next starts (`SegmentsJoin`).  Under `receive` lies that the loop of `pop_front`
stops at the first segment not fully acknowledged (`FullyAckedStops`, with the least
number principle instead of an induction).  `NextPreserves` combines them.

What was transmitted is honest because the deque is: `Honest` adds to the books that each
outstanding segment `Says` the stream at its start.  `Says` is also what a segment keeps
saying later, when the sender has gone on (`Follows`): its FIN, if any, is still at
`next_seqno_`.  Without the clause that ties the FIN to the end of the stream a
segment could stay honest while the sender sends bytes after it, and the receiver's side
of the connection could not be proved.

The loop of `fill_window` makes one segment in each turn, the closed form all of them.  A turn
makes the first segment of the closed form (`TurnIsFirstSegment`), and what is left is a sender for
which the closed form is the rest (`RestOfPush`, `RestOfSegments`), so that `push` of
what is left is `push` of the whole (`TurnKeepsPush`).  Each turn but the last takes a number of
the window, so that the turns suffice (`TurnStaysInLoop`), and one more, which finds the window
full or nothing to say, changes nothing (`LastTurn`, `FillWindowIsPush`).  For `pop_front` each turn
is one segment further in the closed form (`PopTurnPops`, `PopAckedIsAcknowledge`).

`InterfaceProofs` proves for `InterfaceSystem`, for all sets of addresses, timeouts and
ticks, and any number of datagrams:

| theorem | what holds always |
|---|---|
| `InterfaceInvariant` | the inductive invariant |
| `InterfaceTypes` | `TypeOK`: in particular no cached address has run out |
| `MapsAlwaysAgree` | a queue exists exactly while its address is asked for and not known |
| `NothingEverWaitsLong` | no datagram waits as long as a retry takes |
| `RequestsSpaced` | an address is asked for again only `ARP_RETRY_MS` later, or after an answer |
| `AddressesFresh` | a datagram goes to the address heard last for its next hop, and lately |
| `InOrderDelivery` | the interface implements `DatagramDelivery` |

The assumptions are `ARPAssumption` (both times are positive) and
`InterfaceAssumption`.  That nothing waits long is not inductive: a tick compares the
timer of an address with the limit, not the ages of what waits for it.  `AgesAgree`
says that nothing is older than the timer under which it waits, and that needs the
agreement of the maps, by which a new queue gets a new timer (`SendKeepsConsistent`), a
learned address loses both (`LearnKeepsConsistent`), and a timer that runs out is never
without its queue (`TickKeepsConsistent`).

The last three are about what was transmitted, and need that the history variables
remember what the interface knows (`Remembers`): what waits in a queue was meant for its
address, an entry of the cache is as old as the last news of it, a timer is as old as the
last request.  Each method preserves it (`SendKeepsMemory`, `LearnKeepsMemory`,
`TickKeepsMemory`), and `SendTransmits`, `RecvTransmits` and `TickTransmits` say which
datagrams and which requests are among the frames it transmits.  That is a selection from a
sequence: the provers know nothing of `SelectSeq`, so `Basics` writes it as a recursive
function, and `BasicLemmas` proves what it needs of it, beginning with the fact that a
function may be defined by a first value and a step (`Recursion`).

`InternetProofs` proves for `Internet`, for any segments, interfaces, hosts, routers, tables,
times and bounds, and whether frames are lost or not:

| theorem | what holds always |
|---|---|
| `OnlyTheAddresseeHasIt` | a host is given only what is addressed to it |
| `OneCopyAtMost` | of each datagram there is at most one copy: waiting, in flight, queued or received |
| `InOrderAlways` | a host receives what another one sent it in the order in which it was sent, once all routes are there |

*Assumptions.*  `InternetAssumption` (interfaces have distinct IP addresses; none is
connected twice to a segment or twice to a router, and those of hosts are not those of
routers), `RoutesAssumption` (routes lead to interfaces of their router, and none
through a host) and, for the order only, `OwnersAssumption` (no two routers share an
interface: `tests/router.cc:173-195` makes each one as it adds it).  Nothing is assumed of
the way routes lead: they may be any, send in circles or lead nowhere, and for the first two
theorems they may change at any time.

*Who gets it.*  What a host has in its queue came in a frame for its hardware address, which
another interface chose.  So `NetworkInv` goes back to where the choice was made: each
interface is `Sound`, which is that it has learned only true addresses (`Truthful`) and keeps a
datagram under the address of its next hop (`Sorted`), which for a host's address is its
destination (`For`); and a frame on a segment is for the interface that has that address,
or an ARP message that does not lie.  No part is inductive without the others: an interface
stays truthful because the frames are, and those are because of what other
interfaces know.  `SendIsSound`, `LearnIsSound`, `RecvIsSound`, `TickIsSound` and `RouteIsSound`
are the methods, and the steps of the network follow.

*How often.*  `OnceInv` says it of ids instead of places: no sequence has an id twice
(`Apart`), and no two sequences have one in common (`NicOnce` of the maps of one interface,
`NicsOnce` of all of them, `WiresOnce` of all segments, `Once` of all that), so that the sum over
places becomes sets that do not meet.  The lemma for each method is one and the same
formula, `Moves`: what the interface has afterwards, and what it transmits, is apart and was
there before, or came with the call.  `RouteMoves` goes along what has arrived: what is still to be
forwarded is not yet anywhere (`EmptiedMoves`, `ForwardMoves`).  `OthersMoveOn` is a broadcast:
every interface on the segment sees the frame, and it is because hardware addresses are
different that one takes the datagram.  `MoveOn` puts interfaces and segments together again.

*In what order.*  The TTL counts the hops that a datagram has gone (`Hops`), and once all routes
are there the hops determine the place: an address belongs to one interface, an interface
to one router, and a table has one best route (`LeadsToOne`, `GoesOneWay`), also on a path that
goes in circles.  So of two datagrams that one host sent another, the later one never has
gone further (`NotBehind`), and where both have gone as far they are at the same interface,
the earlier one ahead.  `InLine` says that for the whole network: it has five stages, what hosts
took, what is in queues, on segments, about to be transmitted, and what waits for an ARP reply.
A datagram at an earlier stage that is older has gone a hop more than one behind it
(`Stages`), and so has one further on in the same sequence (`Rows`); and each is where its path
leads (`Placed`).  Inductive it is only with two facts that no property asks for: nothing waits
for an address that is known (`Quiet`), or what is sent directly would overtake what waits,
and nothing goes on from a host (`HostIsLast`), or one that came back in a circle could be
taken after a later one.  Each step moves datagrams one stage on (`StagedLast`,
`StagedCarried`, `StagedTaken`, `StagedArrived`), a router takes all that arrived and makes
each a hop older (`ForwardedComesLast`), and what is launched has gone no hop
(`LaunchKeepsLine`).  Losses take datagrams away and disturb nothing (`StagedFewer`).

Part IV of `InternetProofs` proves for `RoutingTable`, for every width of addresses and every table:

| theorem | what holds always |
|---|---|
| `LongestPrefixTaken` | the match is the longest prefix that agrees with the address in each of its bits, the oldest of equals |

`Covers` compares two quotients, as the code compares two shifted numbers, and the property
compares bits.  `MaskedNext` says that a prefix is the prefix without its last bit, and that
bit; with it `CoversIsAgrees` goes from no bits to all.  `MatchIsBest` goes along the table in the
same way.  Powers of two are a recursive function (`Basics`), since `^` means nothing to
the provers; so is the loop over the table.

`TransportLemmas` proves of `Wrap32`, for every even `MOD` (`ModAssumption`):

| theorem | what holds |
|---|---|
| `UnwrapInvertsWrap` | a number that one side wraps is recovered by the other if its checkpoint is less than half a turn away, for every initial number |
| `UnwrapIsNearest` | the result is not negative, has the given wrapped form, and no other such number is nearer to the checkpoint |

The argument is by turns: a number is `MOD` times its turns and a rest (`Turns`), the rest
is unique (`RestIsUnique`), the offset that the code computes is the rest of the number
(`OffsetOfWrap`), and the candidate is in the turn of the checkpoint (`Candidate`), so it is
at most one turn away from what is looked for (`OneTurnAtMost`).  Near zero the code
may be more than half a turn off, and then nothing is nearer: the case `beyond`.

`ReassemblerProofs` proves for `ReassemblerSystem`, for every capacity and length of the
stream (below `UINT64_MAX`) and all substrings, in any order and with any overlap:

| theorem | what holds always |
|---|---|
| `ReassemblerInvariant` | the inductive invariant |
| `BytesAlwaysInPlace` | every byte written or stored is the one of the stream at its index |
| `PendingAlwaysMerged` | chunks are not empty, touch neither each other nor the output, and fit in the window |
| `InsertIsTheLoops` | the merge and flush loops of `insert` leave what its closed forms say |
| `PromiseIsKept` | the reassembler implements `ReassemblySpec` |

The invariant, `Assembled`, is again a predicate on one record, with the length of the stream
as a parameter, since the receiver of a connection is sent a stream that still grows
(`LongerStream`).  The heart is `StoreMergedKeeps`: to merge a chunk with its neighbours
looks only at the predecessor and at the chunks that start inside, and it is
because the chunks were apart before (the part of the invariant that no property needs)
that nothing else can touch it.  `Has` says which bytes are known, and each
step of `insert` has a lemma that says what it adds: exactly what was offered inside the
window, neither less nor more.  The refinement mapping takes `known` to `Has`.

That the loops are the closed forms goes by what a map covers.  Two maps of merged chunks
that cover the same indices are the same map (`CoverageDecides`).  The invariant of the merge
loop (`Merging`) says that the chunk at hand and what is left in the map cover what was stored and
what arrived, and that no chunk already passed touches the one at hand; the merge with the chunk before
establishes it (`MergingStarts`), a turn keeps it and erases a chunk
(`MergeTurnKeeps`), so that there are no more turns than chunks (`LoopMerges`), and when none is
left to merge the map is merged again (`MergedIsStored`).  Flushing takes one turn,
since a second chunk that starts where the first ends would have been merged with it
(`FlushLoopIsFlush`).

`ConnectionProofs` proves for `TCPConnection`, for every payload size, capacity of the
streams, timeout, linger time, initial numbers and bounds on what is written, with and
without a memory of the network (`Keeps`), under `NumbersDoNotWrap`:

| theorem | what holds always |
|---|---|
| `ConnectionInvariant` | the inductive invariant |
| `AcksAreTrue` | what one side takes for acknowledged was assembled by the other, and that was sent |
| `NoLostWakeUp` | a sender with bytes or an end to send has something in flight |
| `OneLingers` | one of the two peers lingers |
| `DoneIsDone` | a peer that is inactive has sent and received everything |
| `ForthImplements`, `BackImplements` | each direction implements `ReliableStream` |

*The argument.*  The invariant has, for each end, `Sound` (the books of its sender, `Honest`,
and `Awake`), and for each direction `Link` between a sender and the receiver it
sends to: the receiver has assembled a prefix of what the sender popped, it has seen the end
only after the FIN, and the sender's `receiver_ackno` is at most what the receiver
`Heard`.  These alone are not inductive, since a message may arrive at any time.  So the
invariant also speaks of every message on the way: its segment `Carries` the sender's stream
at its number, and its acknowledgment `Reports` a number that the receiver went through.
Both stay true when their sender and receiver go on (`CarriesLater`, `ReportsLater`), and
no message is ever false, however late.

When a segment arrives (`ReceiverStep`) the receiver unwraps its number with the
count of its output as the checkpoint; the true number is less than half a turn away, so
`UnwrapInvertsWrap` says that it is recovered (`MessageBrings`), and
`InsertKeeps` does the rest.  When an acknowledgment arrives (`AckIsTrue`) it is the same the
other way.  A step of one end is good for both (`NextIsGood`, `GoodStepPreserves`): it leaves
the link from the other end, and what is on the way, true.  From the links follow
the properties: an inactive peer has nothing in flight, so that its last number was
acknowledged, so that it was `Heard`, so that the other side closed its stream
(`InvariantClean`).  That someone lingers is a part of
the invariant: a peer stops only before it sends its own FIN, and then the inbound stream of
the other end has not ended, so that the other end has not stopped (`OneStillLingers`).

*Assumptions.*  `ConnectionAssumption` (two peers; capacities, times and limits are numbers)
and, as a hypothesis of each theorem, `NumbersDoNotWrap`: a side writes less than half of the
number space in the life of the connection.  It is needed because the network of this module
keeps messages for ever, which no network does: with four numbers and four bytes TLC finds
that an old segment is taken for a new one and breaks `AckedIsAssembled`.  In the code the
hypothesis is 2^31 bytes in each direction, or a lifetime of datagrams shorter than half a
turn of the numbers.  The runs `flow` and `liveness` satisfy it.

`ProgramProofs` proves for `Program`, for any sizes of buffers, of the streams of TCP and of
the pair of sockets, any bounds on what comes in, with the owner connecting or
listening, and whether or not there are resets and broken outputs:

| theorem | what holds always |
|---|---|
| `BooksInOrder` | the inductive invariant |
| `NobodyDiesAlways` | no SIGPIPE, no exception of a write or of the busy-wait check, unless there was a reset or a broken output |
| `NothingStrandedAlways` | what TCP still has to send, bytes or its end, has something in flight before it |
| `BytesInOrder` | the inductive invariant about the order of the bytes, until something outside fails |
| `InputIsSentAlways` | up to a fault the program is a `ReliableStream` from standard input to the outbound stream of TCP |
| `RemoteIsPrintedAlways` | up to a fault it is one from the inbound stream of TCP to standard output |

*Assumptions.*  `ProgramAssumption`: sizes are numbers, those that the owner reads and
copies with are positive.

*The argument.*  `ProgramInv` has a part for each thread, `OwnerInv` and `ThreadInv`, and each
part speaks only of what its thread owns and of the four ends of the shared pair.  Neither
property is inductive.  The owner would be killed if it wrote when the thread had shut the
pair, so `CopyBooks` and `SocketBooks` say who has ended what and when: the pair is ended
towards TCP only after the owner's rule 2 has read its stream to the end, and towards the
owner only when the inbound stream is finished, or something failed.  A rule serves what an
earlier `poll` returned, while the other thread has gone on and earlier rules in the list
have changed streams and ends.  So for the time between the two there are `CopyAsked`
and `SocketAsked`, what the interest of a rule still means, and `CopyPolled` and
`SocketPolled`, what an event still means: a descriptor that could be written to still has
room, one that could be read still has something that counts, and it is a fault if
one was reported in error.  `RoomStays`, `CopyStillPolled` and `SocketStillPolled` show that
no step of the other thread, or of who types and reads, takes that away (`FilesStepKeeps` is the
formula for all of those).  `SocketIdle` is what the busy-wait check would find.
A rule that is cancelled takes its end of the pair with it.  Therefore the books also say
which rules are left: the owner keeps those that read and print what TCP received until the
inbound stream is closed, the thread keeps the one that reads datagrams for ever.

Each callback has a lemma that says what it does to streams and files (`ReadStdinDoes`,
`WriteSocketDoes`, `TcpPushDoes`, ...) and one that says that it keeps the books
(`ReadStdinKeeps`, ...).  A loop over the rules is a recursive function, and each turn is
good for the next: `CopySwept` and `SocketSwept` go along the list when the loop looks for
what is over and asks for interest, `CopyServed` and `SocketServed` when it serves.  The
rules that are erased meanwhile are taken out of a list that the loop is not going
along.  `CopyPollKeeps`, `CopyServeKeeps`, `SocketPollKeeps`, `SocketServeKeeps` and those of the
other actions are the steps, and `ProgramInvNext` combines them.

*The order of the bytes.*  `InputIsSent` and `RemoteIsPrinted` say of every step that it is one of
`ReliableStream`, which needs to know what is in the buffers on the way.  In `LineInv`, the line
from standard input to TCP (the input, the owner's stream, the pair, the socket's stream) and
the one back are cut into pieces that each hold the bytes after those that went on
(`Ordered` for a stream, `Carries` for a file), and the counters of neighbours agree
(`CopyLine`).  The end travels in the same way: what a piece of the line passes on as its end
it passes on after its last byte, and the piece before it is finished (`CopyEndings`).
The end is where rules are cancelled: a hang-up of standard input that comes with bytes,
or one that the thread causes when it leaves, must not drop what is still to be read.
`CopyHups` says what a hang-up means that an earlier `poll` returned.  After a reset or a broken
output this is false, since cancelled rules then drop bytes; so `BytesInv` claims it of the
states without a fault, and each step keeps it or is a fault.  `LineNext` combines the
actions: none does more than move bytes on, in one of the two directions, or take in
bytes at the beginning (`ForthMoves`, `BackMoves`).  `BytesFollow` joins the pieces, and
`ForthSteps` and `BackSteps` show that such a move is a step of the stream.

*Only model-checked.*  What stays with TLC: the adapters, folds over octets (`ReadIsWritten`,
`PeerIsHeard`, and `OneConversation`, since it is the checksum that keeps a damaged
address or port out), which need an induction over data; the steps
of `TCPLiveness`, whose timeouts are cut off with a power; liveness, which these provers
do not reach, and ENABLED.

## 6. Not modelled

* The octets of Ethernet and ARP headers: `NetworkInterface` works on their fields.
  IP options and fragments, which the code does not support.
* Sockets of the kernel (`bind`, `connect`, `accept`, datagrams, options), address
  resolution, opening a TUN device: one system call each.  `webget` and `tcp_native` use
  only those; `ip_raw` is a stub.  The command line of `tcp_ipv4`.
* Rules of the event loop without a descriptor and `RuleHandle::cancel`: nothing in the
  repository uses them.  The exceptions for calls in the wrong order (`connect` twice).
* The race on the counters of a descriptor between the thread's `shutdown` and the owner:
  it needs steps smaller than a callback (see "hazards").
* The maximum of retransmission attempts in `tcp_config.hh`: no code reads it.
* The queue of frames of an interface without a port (`maybe_send`): nothing makes such an interface or calls it.
