-------------------------- MODULE ConnectionProofs --------------------------
(* Proofs about TCPConnection: what two TCPPeers keep between them while    *)
(* the network loses, duplicates and reorders what they send.               *)
EXTENDS TCPConnection, TransportLemmas

-----------------------------------------------------------------------------
(* The inductive invariant.                                                 *)

\* Bytes (or a FIN) that wait have something in flight before them.
Awake(s) ==
  s.syn_sent /\ (s.input.buffer # <<>> \/ (s.input.closed /\ ~s.fin_sent))
    => s.bytes_in_flight > 0

\* A sender that is about to push.
Ready(s) ==
  /\ Consistent(s) /\ Honest(s) /\ Quiet(s)
  /\ ~s.input.error
  /\ s.input.closed => s.syn_sent

\* A sender by itself, between two calls.
Sound(s) == Ready(s) /\ Awake(s)

\* The numbers that the receiver r has, counted from its sender's SYN.
Heard(r) == IF r.isn = NoAckno THEN 0 ELSE AckAbs(r)

\* The sender s and the receiver r that it sends to.
Link(s, r) ==
  /\ r = [reassembler |-> r.reassembler, isn |-> r.isn]
  /\ Assembled(r.reassembler, s.input.total_popped, RecvCapacity)
  /\ r.reassembler.last_seen => s.fin_sent
  /\ ~r.reassembler.output.error
  /\ r.isn \in {NoAckno, s.isn}
  /\ r.isn # NoAckno => s.syn_sent
  /\ s.receiver_ackno <= Heard(r)

\* A message that the sender s can have sent.
Carries(s, m) ==
  /\ m \in Messages /\ ~m.RST
  /\ \E start \in 0..s.next_seqno : Says(s, m, start)

\* A message that the receiver r can have sent: its ackno is one of those it
\* went through.
Reports(r, m) ==
  /\ m.window_size \in Nat /\ ~m.RST
  /\ \/ m.ackno = NoAckno
     \/ r.isn # NoAckno /\ \E a \in 1..AckAbs(r) : m.ackno = Wrap(a, r.isn)

\* A peer by itself: it stops lingering only at the end of the inbound stream.
Shape(p) ==
  /\ DOMAIN p = {"sender", "receiver", "linger", "since_last_receipt"}
  /\ p.linger \in BOOLEAN
  /\ ~p.linger => Inbound(p).closed

\* Half of the connection: what p says, and what comes to it from q.
HalfHolds(p, q, to_p) ==
  /\ Shape(p)
  /\ Sound(p.sender)
  /\ Link(p.sender, q.receiver)
  /\ \A m \in to_p : Carries(q.sender, m.sender) /\ Reports(q.receiver, m.receiver)

Invariant ==
  /\ peer = [p \in Peers |-> peer[p]]
  /\ network = [p \in Peers |-> network[p]]
  /\ \A p \in Peers :
       /\ HalfHolds(peer[p], peer[Other(p)], network[p])
       /\ peer[p].sender.isn = Isn[p]
       /\ peer[p].sender.input.total_pushed <= MaxBytes[p]
  /\ SomeoneLingers

\* No sequence number comes again in the life of the connection, so that a
\* message that is held up for ever is never mistaken for another.
NumbersDoNotWrap ==
  \A p \in Peers : MaxBytes[p] + 2 < Half /\ MaxBytes[p] + 2 <= UINT64_MAX
-----------------------------------------------------------------------------
(* What a call of the sender changes.                                       *)

\* The sender went on from s to t: it only sent more, and it sends nothing
\* after its FIN.
Advances(s, t) ==
  /\ Follows(s, t)
  /\ t.input.total_popped \in Nat /\ t.input.total_popped >= s.input.total_popped
  /\ s.fin_sent => t.input.total_popped = s.input.total_popped
  /\ s.syn_sent => t.syn_sent

\* The parts of a sound sender and their types.
LEMMA SenderTypes ==
  ASSUME NEW s, Consistent(s)
  PROVE  /\ s \in Senders /\ s.input \in ByteStreams /\ StreamOk(s.input)
         /\ s.next_seqno \in Nat /\ s.receiver_ackno \in Nat /\ s.bytes_in_flight \in Nat
         /\ s.syn_sent \in BOOLEAN /\ s.fin_sent \in BOOLEAN /\ s.isn \in 0..(MOD - 1)
         /\ s.input.total_popped \in Nat /\ s.input.total_pushed \in Nat
         /\ s.input.closed \in BOOLEAN /\ s.input.error \in BOOLEAN
         /\ Len(s.input.buffer) \in Nat
         /\ s.input.total_pushed = s.input.total_popped + Len(s.input.buffer)
         /\ s.next_seqno = (IF s.syn_sent THEN 1 ELSE 0) + s.input.total_popped
                             + (IF s.fin_sent THEN 1 ELSE 0)
         /\ s.fin_sent => /\ s.syn_sent /\ s.input.closed
                          /\ s.input.total_pushed = s.input.total_popped
<1>1. /\ s \in Senders /\ StreamOk(s.input) /\ NumbersAddUp(s)
  BY DEF Consistent
<1>2. /\ s.input \in ByteStreams
      /\ s.next_seqno \in Nat /\ s.receiver_ackno \in Nat /\ s.bytes_in_flight \in Nat
      /\ s.syn_sent \in BOOLEAN /\ s.fin_sent \in BOOLEAN /\ s.isn \in 0..(MOD - 1)
  BY <1>1 DEF Senders
<1>3. /\ s.input.total_popped \in Nat /\ s.input.total_pushed \in Nat
      /\ s.input.closed \in BOOLEAN /\ s.input.error \in BOOLEAN
      /\ s.input.buffer \in Seq(Byte) /\ Len(s.input.buffer) \in Nat
  BY <1>2 DEF ByteStreams
<1>4. s.input.total_pushed = s.input.total_popped + Len(s.input.buffer)
  BY <1>1 DEF StreamOk
<1>5. s.fin_sent => /\ s.syn_sent /\ s.input.closed
                    /\ s.input.total_pushed = s.input.total_popped
  <2>1. s.fin_sent => s.syn_sent /\ s.input.closed /\ s.input.buffer = <<>>
    BY <1>1 DEF NumbersAddUp, IsFinished
  <2>2. s.input.buffer = <<>> => Len(s.input.buffer) = 0
    OBVIOUS
  <2> QED BY <1>3, <1>4, <2>1, <2>2
<1>6. s.next_seqno = (IF s.syn_sent THEN 1 ELSE 0) + s.input.total_popped
                       + (IF s.fin_sent THEN 1 ELSE 0)
  BY <1>1 DEF NumbersAddUp
<1> QED BY <1>1, <1>2, <1>3, <1>4, <1>5, <1>6

\* push() wakes the sender: what still waits has a full window before it.
LEMMA PushAwakes ==
  ASSUME NEW s, Consistent(s)
  PROVE  Awake(Push(s))
<1> DEFINE t == Push(s)
           waiting == Len(s.input.buffer) - PayloadTotal(s)
<1>1. /\ s \in Senders /\ s.input \in ByteStreams /\ StreamOk(s.input)
      /\ s.bytes_in_flight \in Nat /\ s.syn_sent \in BOOLEAN /\ s.fin_sent \in BOOLEAN
      /\ s.receiver_window \in Nat /\ s.input.closed \in BOOLEAN
      /\ s.input.buffer \in Seq(Byte) /\ Len(s.input.buffer) \in Nat
      /\ s.fin_sent => s.input.buffer = <<>>
  BY SenderTypes DEF Senders, ByteStreams, Consistent, NumbersAddUp, IsFinished
<1>2. /\ Room(s) \in Nat /\ SynSpace(s) \in {0, 1} /\ PayloadTotal(s) \in Nat
      /\ PayloadTotal(s) <= Len(s.input.buffer)
      /\ SendsFin(s) \in BOOLEAN /\ Filled(s) \in Nat
      /\ Room(s) = 0 => ~SendsFin(s)
  BY <1>1, FilledFits
<1>3. /\ t.bytes_in_flight = s.bytes_in_flight + Filled(s)
      /\ t.fin_sent <=> s.fin_sent \/ SendsFin(s)
      /\ t.input = ReaderPop(s.input, PayloadTotal(s))
  BY <1>1 DEF Push, Senders
<1>4. /\ t.input.closed = s.input.closed
      /\ PayloadTotal(s) = Len(s.input.buffer) => t.input.buffer = <<>>
  BY <1>1, <1>2, <1>3, PopAccounts
<1> HIDE DEF t, waiting
<1>5. CASE t.bytes_in_flight > 0
  BY <1>5 DEF Awake, t
<1>6. CASE ~(t.bytes_in_flight > 0)
  <2>1. s.bytes_in_flight = 0 /\ Filled(s) = 0
    BY <1>1, <1>2, <1>3, <1>6
  <2>2. CASE s.fin_sent
    <3>1. PayloadTotal(s) = Len(s.input.buffer)
      BY <1>1, <1>2, <2>2
    <3> QED BY <1>3, <1>4, <2>2, <3>1 DEF Awake, t
  <2>3. CASE ~s.fin_sent
    <3>1. Room(s) > 0
      BY <1>1, <2>1, <2>3 DEF Room
    <3>2. SynSpace(s) = 0 /\ PayloadTotal(s) = 0 /\ ~SendsFin(s)
      BY <1>2, <2>1, <3>1 DEF Filled
    <3>3. PayloadTotal(s) = Len(s.input.buffer)
      BY <1>1, <1>2, <3>1, <3>2 DEF PayloadTotal, Least
    <3>4. ~s.input.closed
      BY <1>2, <3>1, <3>2, <3>3 DEF SendsFin
    <3> QED BY <1>3, <1>4, <3>3, <3>4 DEF Awake, t
  <2> QED BY <2>2, <2>3
<1> QED BY <1>5, <1>6 DEF t

\* push(): the sender stays sound and goes on.
LEMMA PushGoesOn ==
  ASSUME NEW s, Ready(s)
  PROVE  /\ Sound(Push(s)) /\ Advances(s, Push(s))
         /\ Push(s).receiver_ackno = s.receiver_ackno
         /\ Push(s).input.total_pushed = s.input.total_pushed
         /\ Push(s).input.closed = s.input.closed
<1> DEFINE t == Push(s)
<1>0. /\ Consistent(s) /\ Honest(s) /\ Quiet(s) /\ ~s.input.error
      /\ s.input.closed => s.syn_sent
  BY DEF Ready
<1>1. /\ s \in Senders /\ s.input \in ByteStreams /\ StreamOk(s.input)
      /\ s.input.total_popped \in Nat /\ s.syn_sent \in BOOLEAN /\ s.fin_sent \in BOOLEAN
      /\ Len(s.input.buffer) \in Nat
      /\ s.input.total_pushed = s.input.total_popped + Len(s.input.buffer)
      /\ s.fin_sent => s.input.total_pushed = s.input.total_popped
  BY <1>0, SenderTypes
<1>2. /\ PayloadTotal(s) \in Nat /\ PayloadTotal(s) <= Len(s.input.buffer)
  BY <1>1, FilledFits
<1>3. /\ t.input = ReaderPop(s.input, PayloadTotal(s))
      /\ t.receiver_ackno = s.receiver_ackno
      /\ s.syn_sent => t.syn_sent
  BY <1>1 DEF Push, Senders
<1>4. /\ t.input.total_popped = s.input.total_popped + PayloadTotal(s)
      /\ t.input.total_pushed = s.input.total_pushed
      /\ t.input.closed = s.input.closed /\ t.input.error = s.input.error
  BY <1>1, <1>2, <1>3, PopAccounts
<1>5. Consistent(t) /\ Honest(t) /\ Awake(t) /\ Quiet(t) /\ Follows(s, t)
  BY <1>0, <1>1, PushKeepsConsistent, PushKeepsHonest, PushAwakes, PushIsQuiet, PushFollows
<1> HIDE DEF t
<1>6. Sound(t)
  BY <1>0, <1>3, <1>4, <1>5 DEF Sound, Ready
<1>7. Advances(s, t)
  <2>1. /\ t.input.total_popped \in Nat /\ t.input.total_popped >= s.input.total_popped
        /\ s.fin_sent => PayloadTotal(s) = 0
    <3>1. s.fin_sent => Len(s.input.buffer) = 0
      BY <1>1
    <3>2. \A a, n \in Nat : a + n \in Nat /\ a + n >= a
      BY ONLY TRUE
    <3> QED BY <1>1, <1>2, <1>4, <3>1, <3>2
  <2>2. s.fin_sent => t.input.total_popped = s.input.total_popped
    BY <1>1, <1>4, <2>1
  <2> QED BY <1>3, <1>4, <1>5, <2>1, <2>2 DEF Advances
<1> QED BY <1>3, <1>4, <1>6, <1>7 DEF t

\* A sender whose books are those of s, but for what waits to be sent and what
\* is acknowledged.
SameBooks(s, u) ==
  /\ u.isn = s.isn /\ u.next_seqno = s.next_seqno
  /\ u.syn_sent = s.syn_sent /\ u.fin_sent = s.fin_sent
  /\ u.input.total_popped = s.input.total_popped
  /\ u.input.error = s.input.error

\* The steps of the sender in a connection: a change of what waits or is
\* acknowledged, and a push.
LEMMA ChangeAndPush ==
  ASSUME NEW s, Sound(s), NEW u, Consistent(u), Honest(u), Quiet(u), SameBooks(s, u),
         u.input.closed => u.syn_sent
  PROVE  /\ Ready(u) /\ Sound(Push(u)) /\ Advances(s, Push(u))
         /\ Push(u).receiver_ackno = u.receiver_ackno
         /\ Push(u).input.total_pushed = u.input.total_pushed
         /\ Push(u).input.closed = u.input.closed
<1>1. Ready(u)
  BY DEF SameBooks, Sound, Ready
<1>2. /\ Sound(Push(u)) /\ Advances(u, Push(u))
      /\ Push(u).receiver_ackno = u.receiver_ackno
      /\ Push(u).input.total_pushed = u.input.total_pushed
      /\ Push(u).input.closed = u.input.closed
  BY <1>1, PushGoesOn
<1>3. Advances(s, Push(u))
  BY <1>2 DEF Advances, SameBooks, Follows
<1> QED BY <1>1, <1>2, <1>3

\* The application writes the next bytes.
LEMMA WriteGoesOn ==
  ASSUME NEW s, Sound(s), ~s.input.closed, NEW n \in Nat, n <= AvailableCapacity(s.input),
         NEW u, u = [s EXCEPT !.input =
                       WriterPush(s.input, Substring(s.input.total_pushed, n))]
  PROVE  /\ Ready(u) /\ Sound(Push(u)) /\ Advances(s, Push(u))
         /\ Push(u).receiver_ackno = s.receiver_ackno
         /\ Push(u).input.total_pushed = s.input.total_pushed + n
         /\ Push(u).input.closed = s.input.closed
<1> DEFINE b == WriterPush(s.input, Substring(s.input.total_pushed, n))
<1>1. /\ Consistent(s) /\ Honest(s) /\ s \in Senders
      /\ s.input \in ByteStreams /\ StreamOk(s.input) /\ s.input.total_pushed \in Nat
      /\ s.input.buffer = Substring(s.input.total_popped, Len(s.input.buffer))
  BY SenderTypes DEF Sound, Ready, Honest
<1>2. n = Least(AvailableCapacity(s.input), n)
  <2>1. AvailableCapacity(s.input) \in Int
    BY <1>1 DEF AvailableCapacity, ByteStreams
  <2>2. \A a \in Int : n <= a => n = Least(a, n)
    BY ONLY n \in Nat DEF Least
  <2> QED BY <2>1, <2>2
<1>3. /\ b.total_pushed = s.input.total_pushed + n
      /\ b.total_popped = s.input.total_popped
      /\ b.closed = s.input.closed /\ b.error = s.input.error
  BY <1>1, <1>2, PushAppends
<1>4. Consistent(u) /\ Honest(u)
  <2>1. Substring(s.input.total_pushed, n) \in Seq(Byte)
    BY <1>1, SubstringBytes
  <2> QED BY <1>1, <2>1, WriteKeepsConsistent, WriteKeepsHonest, Zenon
<1> HIDE DEF b
<1>5. /\ u.input = b /\ u.isn = s.isn /\ u.next_seqno = s.next_seqno
      /\ u.syn_sent = s.syn_sent /\ u.fin_sent = s.fin_sent
      /\ u.receiver_ackno = s.receiver_ackno /\ u.outstanding = s.outstanding
  BY <1>1 DEF Senders, b
<1>6. SameBooks(s, u) /\ Quiet(u) /\ (u.input.closed => u.syn_sent)
  BY <1>3, <1>5 DEF SameBooks, Quiet, Sound, Ready
<1>7. /\ Ready(u) /\ Sound(Push(u)) /\ Advances(s, Push(u))
      /\ Push(u).receiver_ackno = u.receiver_ackno
      /\ Push(u).input.total_pushed = u.input.total_pushed
      /\ Push(u).input.closed = u.input.closed
  BY <1>4, <1>6, ChangeAndPush
<1> QED BY <1>3, <1>5, <1>7

\* The application ends its stream.
LEMMA CloseGoesOn ==
  ASSUME NEW s, Sound(s), s.syn_sent,
         NEW u, u = [s EXCEPT !.input = WriterClose(s.input)]
  PROVE  /\ Ready(u) /\ Sound(Push(u)) /\ Advances(s, Push(u))
         /\ Push(u).receiver_ackno = s.receiver_ackno
         /\ Push(u).input.total_pushed = s.input.total_pushed
         /\ Push(u).input.closed = TRUE
<1> DEFINE b == WriterClose(s.input)
<1>1. /\ Consistent(s) /\ Honest(s) /\ s \in Senders
      /\ s.input \in ByteStreams /\ s.input.error \in BOOLEAN
  BY SenderTypes DEF Sound, Ready
<1>2. /\ b = [s.input EXCEPT !.closed = TRUE, !.error = s.input.error]
      /\ b.total_pushed = s.input.total_pushed
      /\ b.total_popped = s.input.total_popped
      /\ b.closed = TRUE /\ b.error = s.input.error
  BY <1>1 DEF WriterClose, ByteStreams
<1> HIDE DEF b
<1>3. u = [s EXCEPT !.input = [s.input EXCEPT !.closed = TRUE, !.error = s.input.error]]
  BY <1>2, Zenon DEF b
<1>4. Consistent(u) /\ Honest(u)
  <2>1. ASSUME NEW closed \in BOOLEAN, NEW error \in BOOLEAN, s.input.closed => closed
        PROVE  LET v == [s EXCEPT !.input = [s.input EXCEPT !.closed = closed,
                                                            !.error = error]]
               IN  Consistent(v) /\ Honest(v)
    BY <1>1, <2>1, MarkKeepsConsistent, MarkKeepsHonest, Zenon
  <2> QED BY <1>1, <1>3, <2>1, Zenon
<1>5. /\ u.input = b /\ u.isn = s.isn /\ u.next_seqno = s.next_seqno
      /\ u.syn_sent = s.syn_sent /\ u.fin_sent = s.fin_sent
      /\ u.receiver_ackno = s.receiver_ackno /\ u.outstanding = s.outstanding
  BY <1>1 DEF Senders, b
<1>6. SameBooks(s, u) /\ Quiet(u) /\ (u.input.closed => u.syn_sent)
  BY <1>2, <1>5 DEF SameBooks, Quiet, Sound, Ready
<1>7. /\ Ready(u) /\ Sound(Push(u)) /\ Advances(s, Push(u))
      /\ Push(u).receiver_ackno = u.receiver_ackno
      /\ Push(u).input.total_pushed = u.input.total_pushed
      /\ Push(u).input.closed = u.input.closed
  BY <1>4, <1>6, ChangeAndPush
<1> QED BY <1>2, <1>5, <1>7

\* Time passes.
LEMMA TickGoesOn ==
  ASSUME NEW s, Sound(s), NEW ms \in Nat
  PROVE  /\ Sound(SenderTick(s, ms)) /\ Advances(s, SenderTick(s, ms))
         /\ SenderTick(s, ms).receiver_ackno = s.receiver_ackno
         /\ SenderTick(s, ms).input = s.input
<1> DEFINE t == SenderTick(s, ms)
<1>1. /\ Consistent(s) /\ Honest(s) /\ s \in Senders
      /\ s.input.total_popped \in Nat /\ s.next_seqno \in Nat
  BY SenderTypes DEF Sound, Ready
<1>2. /\ t.isn = s.isn /\ t.next_seqno = s.next_seqno /\ t.input = s.input
      /\ t.syn_sent = s.syn_sent /\ t.fin_sent = s.fin_sent
      /\ t.receiver_ackno = s.receiver_ackno
      /\ t.bytes_in_flight = s.bytes_in_flight
  BY <1>1, TickLeaves
<1>3. Consistent(t) /\ Honest(t) /\ Quiet(t)
  BY <1>1, TickKeepsConsistent, TickKeepsHonest, TickIsQuiet DEF Sound, Ready
<1> HIDE DEF t
<1>4. Awake(t)
  BY <1>2 DEF Awake, Sound, Ready
<1>5. Sound(t)
  BY <1>2, <1>3, <1>4 DEF Sound, Ready
<1>6. \A n \in Nat : n >= n
  OBVIOUS
<1>7. Advances(s, t)
  BY <1>1, <1>2, <1>6 DEF Advances, Follows
<1> QED BY <1>2, <1>5, <1>7 DEF t

\* A message from the peer, which has no RST, arrives, and the sender pushes.
LEMMA ReceiveGoesOn ==
  ASSUME NEW s, Sound(s), NEW m, ~m.RST, m.window_size \in Nat,
         m.ackno \in 0..(MOD - 1) \union {NoAckno},
         NEW u, u = SenderReceive(s, m)
  PROVE  /\ Ready(u)
         /\ Sound(Push(u)) /\ Advances(s, Push(u))
         /\ u.next_seqno = s.next_seqno /\ u.syn_sent = s.syn_sent /\ u.isn = s.isn
         /\ Push(u).input.total_pushed = s.input.total_pushed
         /\ Push(u).input.closed = s.input.closed
         /\ \/ Push(u).receiver_ackno = s.receiver_ackno
            \/ /\ AcksNewData(s, m.ackno)
               /\ Push(u).receiver_ackno = Unwrap(m.ackno, s.isn, s.receiver_ackno)
<1>1. Consistent(s) /\ Honest(s) /\ s \in Senders /\ (s.input.closed => s.syn_sent)
  BY DEF Sound, Ready, Consistent
<1>2. Consistent(u) /\ Honest(u) /\ Quiet(u)
  BY <1>1, ReceiveKeepsConsistent, ReceiveKeepsHonest, ReceiveIsQuiet DEF Sound, Ready
<1>3. /\ u.isn = s.isn /\ u.next_seqno = s.next_seqno
      /\ u.syn_sent = s.syn_sent /\ u.fin_sent = s.fin_sent
      /\ u.input = s.input
      /\ \/ u.receiver_ackno = s.receiver_ackno
         \/ /\ AcksNewData(s, m.ackno)
            /\ u.receiver_ackno = Unwrap(m.ackno, s.isn, s.receiver_ackno)
  BY <1>1, ReceiveLeaves
<1>4. SameBooks(s, u) /\ (u.input.closed => u.syn_sent)
  BY <1>1, <1>3 DEF SameBooks, Sound, Ready
<1>5. /\ Ready(u) /\ Sound(Push(u)) /\ Advances(s, Push(u))
      /\ Push(u).receiver_ackno = u.receiver_ackno
      /\ Push(u).input.total_pushed = u.input.total_pushed
      /\ Push(u).input.closed = u.input.closed
  BY <1>2, <1>4, ChangeAndPush
<1> QED BY <1>3, <1>5

-----------------------------------------------------------------------------
(* What a sender transmits.                                                 *)

\* What could be said once still can when the sender went on.
LEMMA CarriesLater ==
  ASSUME NEW s, Consistent(s), NEW t, Consistent(t), Follows(s, t),
         NEW m, Carries(s, m)
  PROVE  Carries(t, m)
<1>1. s \in Senders /\ t \in Senders /\ s.next_seqno \in Nat /\ t.next_seqno \in Nat
  BY SenderTypes
<1>2. PICK start \in 0..s.next_seqno : Says(s, m, start)
  BY DEF Carries
<1>3. start \in 0..t.next_seqno /\ start \in Nat
  BY <1>1 DEF Follows
<1>4. Says(t, m, start)
  BY <1>1, <1>2, <1>3, SaysLater DEF Carries
<1> QED BY <1>3, <1>4 DEF Carries

\* push() transmits what the sender may say.
LEMMA PushCarries ==
  ASSUME NEW s, Ready(s)
  PROVE  /\ PushTransmits(s) \in Seq(Messages)
         /\ \A i \in 1..Len(PushTransmits(s)) : Carries(Push(s), PushTransmits(s)[i])
<1>0. Consistent(s) /\ Honest(s) /\ Quiet(s) /\ ~s.input.error
  BY DEF Ready
<1>1. PushTransmits(s) \in Seq(Messages)
  BY <1>0, TransmissionsTyped, 0 \in Nat
<1>2. ASSUME NEW i \in 1..Len(PushTransmits(s))
      PROVE  Carries(Push(s), PushTransmits(s)[i])
  <2>1. PushTransmits(s)[i] \in Messages
    BY <1>1
  <2>2. ~PushTransmits(s)[i].RST
    BY <1>0, PushIsQuiet
  <2>3. \E start \in 0..Push(s).next_seqno : Says(Push(s), PushTransmits(s)[i], start)
    BY <1>0, PushSays
  <2> QED BY <2>1, <2>2, <2>3 DEF Carries
<1> QED BY <1>1, <1>2

\* tick() transmits what the sender may say.
LEMMA TickCarries ==
  ASSUME NEW s, Sound(s), NEW ms \in Nat
  PROVE  /\ TickTransmits(s, ms) \in Seq(Messages)
         /\ \A i \in 1..Len(TickTransmits(s, ms)) :
              Carries(SenderTick(s, ms), TickTransmits(s, ms)[i])
<1>1. Consistent(s) /\ Honest(s) /\ Quiet(s) /\ ~s.input.error
  BY DEF Sound, Ready
<1>2. TickTransmits(s, ms) \in Seq(Messages)
  BY <1>1, TransmissionsTyped
<1>3. ASSUME NEW i \in 1..Len(TickTransmits(s, ms))
      PROVE  Carries(SenderTick(s, ms), TickTransmits(s, ms)[i])
  <2>1. TickTransmits(s, ms)[i] \in Messages
    BY <1>2
  <2>2. ~TickTransmits(s, ms)[i].RST
    BY <1>1, TickIsQuiet
  <2>3. \E start \in 0..SenderTick(s, ms).next_seqno :
          Says(SenderTick(s, ms), TickTransmits(s, ms)[i], start)
    BY <1>1, TickSays
  <2> QED BY <2>1, <2>2, <2>3 DEF Carries
<1> QED BY <1>2, <1>3

\* A sender that sent nothing pushes its SYN, so an empty message that answers
\* instead of a push has a number above the SYN's.
LEMMA EmptyCarries ==
  ASSUME NEW s, Ready(s), Len(PushTransmits(s)) = 0
  PROVE  EmptyMessage(s) \in Messages /\ Carries(Push(s), EmptyMessage(s))
<1> DEFINE m == EmptyMessage(s)
<1>0. Consistent(s) /\ Honest(s) /\ ~s.input.error
  BY DEF Ready
<1>1. /\ s \in Senders /\ s.next_seqno \in Nat /\ s.bytes_in_flight \in Nat
      /\ s.syn_sent \in BOOLEAN /\ s.fin_sent \in BOOLEAN
      /\ s.input.total_popped \in Nat /\ s.input.error \in BOOLEAN
      /\ s.next_seqno = (IF s.syn_sent THEN 1 ELSE 0) + s.input.total_popped
                          + (IF s.fin_sent THEN 1 ELSE 0)
  BY <1>0, SenderTypes
<1>2. SegmentCount(s) = 0
  <2>1. SegmentCount(s) \in Nat
    BY <1>1, DataOfSegments
  <2>2. DOMAIN PushTransmits(s) = 1..SegmentCount(s)
    BY DEF PushTransmits, NewSegments
  <2>3. Len(PushTransmits(s)) = SegmentCount(s)
    <3>1. PushTransmits(s) \in Seq(Messages)
      BY <1>0, TransmissionsTyped, 0 \in Nat
    <3>2. DOMAIN PushTransmits(s) = 1..Len(PushTransmits(s)) /\ Len(PushTransmits(s)) \in Nat
      BY <3>1
    <3> HIDE DEF PushTransmits
    <3>3. \A a, b \in Nat : 1..a = 1..b => a = b
      BY ONLY TRUE
    <3> QED BY <2>1, <2>2, <3>2, <3>3
  <2> QED BY <2>3
<1>3. s.next_seqno > 0
  <2>1. SUFFICES ASSUME s.next_seqno = 0 PROVE FALSE
    BY <1>1
  <2>2. ~s.syn_sent /\ ~s.fin_sent
    BY <1>1, <2>1
  <2>3. s.bytes_in_flight = 0
    <3>1. CASE s.outstanding = <<>>
      BY <1>0, <3>1 DEF Consistent, Unacked
    <3>2. CASE s.outstanding # <<>>
      <4>1. s.outstanding[1].seq_start \in Nat
        <5>1. s.outstanding \in Seq(Segments)
          BY <1>1 DEF Senders
        <5>2. 1 \in 1..Len(s.outstanding)
          BY <3>2, <5>1
        <5> QED BY <5>1, <5>2, FrontTyped
      <4>2. s.bytes_in_flight = s.next_seqno - s.outstanding[1].seq_start
        BY <1>0, <3>2 DEF Consistent, Unacked
      <4>3. \A f, q \in Nat : f = 0 - q => f = 0
        BY ONLY TRUE
      <4> QED BY <1>1, <2>1, <4>1, <4>2, <4>3
    <3> QED BY <3>1, <3>2
  <2>4. Room(s) > 0 /\ SynSpace(s) = 1
    <3>1. s.receiver_window \in Nat
      BY <1>1 DEF Senders
    <3> QED BY <2>2, <2>3, <3>1 DEF Room, SynSpace
  <2>5. Filled(s) > 0
    BY <1>1, <2>4, FilledFits DEF Filled
  <2> QED BY <1>1, <1>2, <2>5, DataOfSegments
<1>4. m \in Messages
  <2>1. <<>> \in Seq(Byte)
    OBVIOUS
  <2> QED BY <1>1, <2>1, MessageTyped DEF EmptyMessage
<1>5. m.RST = s.input.error
  BY DEF EmptyMessage, SenderMessage
<1>6. Says(s, m, s.next_seqno)
  BY <1>0, <1>1, <1>3, EmptySays
<1> HIDE DEF m
<1>7. Carries(s, m)
  BY <1>0, <1>1, <1>4, <1>5, <1>6 DEF Carries
<1>8. Consistent(Push(s)) /\ Follows(s, Push(s))
  BY <1>0, <1>1, PushKeepsConsistent, PushFollows
<1> QED BY <1>0, <1>4, <1>7, <1>8, CarriesLater DEF m

-----------------------------------------------------------------------------
(* What a receiver does with what comes.                                    *)

\* The receiver went on from r to t: it only has more.
Gains(r, t) ==
  /\ r.isn # NoAckno => t.isn = r.isn
  /\ AckAbs(t) \in Nat /\ AckAbs(r) <= AckAbs(t)
  /\ r.reassembler.output.closed => t.reassembler.output.closed

\* The parts of a link and their types.
LEMMA LinkTypes ==
  ASSUME ConnectionAssumption, NEW s, Consistent(s), NEW r, Link(s, r),
         NEW x, x = r.reassembler
  PROVE  /\ s.input.total_popped \in Nat /\ RecvCapacity \in Nat
         /\ Assembled(x, s.input.total_popped, RecvCapacity)
         /\ x.output \in ByteStreams /\ StreamOk(x.output)
         /\ x.output.total_pushed \in Nat /\ x.output.total_popped \in Nat
         /\ x.output.closed \in BOOLEAN /\ x.last_seen \in BOOLEAN
         /\ x.output.total_pushed <= s.input.total_popped
         /\ x.output.closed =>
              s.fin_sent /\ x.output.total_pushed = s.input.total_popped
         /\ AckAbs(r) \in Nat /\ AckAbs(r) >= 1 /\ Heard(r) \in Nat
         /\ r.isn # NoAckno => s.syn_sent /\ AckAbs(r) <= s.next_seqno
<1>1. /\ s.input.total_popped \in Nat /\ s.next_seqno \in Nat
      /\ s.syn_sent \in BOOLEAN /\ s.fin_sent \in BOOLEAN
      /\ s.next_seqno = (IF s.syn_sent THEN 1 ELSE 0) + s.input.total_popped
                          + (IF s.fin_sent THEN 1 ELSE 0)
  BY SenderTypes
<1>2. RecvCapacity \in Nat
  BY DEF ConnectionAssumption
<1>3. /\ Assembled(x, s.input.total_popped, RecvCapacity)
      /\ x.last_seen => s.fin_sent
      /\ r.isn # NoAckno => s.syn_sent
  BY DEF Link
<1>4. /\ InPlace(x, s.input.total_popped, RecvCapacity)
      /\ x.output.closed <=> x.last_seen /\ x.next_index = s.input.total_popped
  BY <1>3 DEF Assembled
<1>5. /\ x.output \in ByteStreams /\ StreamOk(x.output)
      /\ x.output.total_pushed \in Nat /\ x.output.closed \in BOOLEAN
      /\ x.output.total_popped \in Nat
      /\ x.next_index = x.output.total_pushed
      /\ x.next_index <= s.input.total_popped
  BY <1>1, <1>2, <1>4, InPlaceTypes
<1>6. x.last_seen \in BOOLEAN
  BY <1>4 DEF InPlace
<1>7. AckAbs(r) = x.output.total_pushed + 1 + (IF x.output.closed THEN 1 ELSE 0)
  BY DEF AckAbs
<1>8. /\ AckAbs(r) \in Nat /\ AckAbs(r) >= 1
      /\ r.isn # NoAckno => AckAbs(r) <= s.next_seqno
  BY <1>1, <1>3, <1>4, <1>5, <1>7
<1>9. Heard(r) \in Nat
  BY <1>8 DEF Heard
<1> QED BY <1>1, <1>2, <1>3, <1>4, <1>5, <1>6, <1>8, <1>9

\* What could be reported once still can when the receiver went on.
LEMMA ReportsLater ==
  ASSUME NEW r, AckAbs(r) \in Nat, NEW t, Gains(r, t), NEW m, Reports(r, m)
  PROVE  Reports(t, m)
<1>1. CASE m.ackno = NoAckno
  BY <1>1 DEF Reports
<1>2. CASE m.ackno # NoAckno
  <2>1. PICK a \in 1..AckAbs(r) : m.ackno = Wrap(a, r.isn)
    BY <1>2 DEF Reports
  <2>2. r.isn # NoAckno /\ t.isn = r.isn
    BY <1>2 DEF Reports, Gains
  <2>3. a \in 1..AckAbs(t)
    BY DEF Gains
  <2> QED BY <2>1, <2>2, <2>3 DEF Reports
<1> QED BY <1>1, <1>2

\* The link survives what the sender does.
LEMMA LinkGoesOn ==
  ASSUME ConnectionAssumption, NEW s, Consistent(s), NEW t, Consistent(t), Advances(s, t),
         NEW r, Link(s, r), t.receiver_ackno <= Heard(r)
  PROVE  Link(t, r)
<1> DEFINE x == r.reassembler
<1>1. /\ s.input.total_popped \in Nat /\ RecvCapacity \in Nat
      /\ Assembled(x, s.input.total_popped, RecvCapacity)
  BY LinkTypes
<1>2. /\ t.input.total_popped \in Nat
      /\ s.input.total_popped <= t.input.total_popped
      /\ s.fin_sent => t.input.total_popped = s.input.total_popped
      /\ s.fin_sent => t.fin_sent
      /\ s.syn_sent => t.syn_sent /\ t.isn = s.isn
      /\ t.isn = s.isn
  BY <1>1 DEF Advances, Follows
<1>3. /\ r = [reassembler |-> x, isn |-> r.isn]
      /\ x.last_seen => s.fin_sent
      /\ ~x.output.error
      /\ r.isn \in {NoAckno, s.isn}
      /\ r.isn # NoAckno => s.syn_sent
  BY DEF Link
<1> HIDE DEF x
<1>4. Assembled(x, t.input.total_popped, RecvCapacity)
  <2>1. x.last_seen => t.input.total_popped = s.input.total_popped
    BY <1>2, <1>3
  <2> QED BY <1>1, <1>2, <2>1, LongerStream
<1> QED BY <1>2, <1>3, <1>4 DEF Link, x

\* An acknowledgment that is accepted, however old, is of numbers that the
\* receiver has.
LEMMA AckIsTrue ==
  ASSUME ConnectionAssumption, NEW s, Consistent(s), s.next_seqno < Half,
         NEW r, Link(s, r), NEW m, Reports(r, m), AcksNewData(s, m.ackno)
  PROVE  Unwrap(m.ackno, s.isn, s.receiver_ackno) <= Heard(r)
<1>1. m.ackno # NoAckno
  BY DEF AcksNewData
<1>2. PICK a \in 1..AckAbs(r) : m.ackno = Wrap(a, r.isn)
  BY <1>1 DEF Reports
<1>3. r.isn # NoAckno /\ r.isn = s.isn
  BY <1>1 DEF Reports, Link
<1>4. /\ AckAbs(r) \in Nat /\ AckAbs(r) <= s.next_seqno
      /\ s.next_seqno \in Nat /\ s.receiver_ackno \in Nat /\ s.isn \in 0..(MOD - 1)
      /\ Heard(r) = AckAbs(r)
  BY <1>3, LinkTypes, SenderTypes DEF Heard
<1>5. s.receiver_ackno <= AckAbs(r)
  BY <1>4 DEF Link
<1>6. a \in Nat /\ a <= AckAbs(r)
  BY <1>4
<1>7. a - s.receiver_ackno < Half /\ s.receiver_ackno - a < Half
  BY <1>4, <1>5, <1>6, ModIsPositive
<1>8. Unwrap(Wrap(a, s.isn), s.isn, s.receiver_ackno) = a
  BY <1>4, <1>6, <1>7, UnwrapInvertsWrap
<1> QED BY <1>2, <1>3, <1>4, <1>6, <1>8

\* Where the payload of a message belongs in the stream.
First(m, start) == IF m.SYN THEN 0 ELSE start - 1

\* Numbers of a message from start on: a SYN or not, n bytes, a FIN or not.
LEMMA SaidFits ==
  ASSUME NEW start \in Nat, NEW first \in Nat, NEW n \in Nat,
         NEW popped \in Nat, NEW next \in Nat,
         NEW syn \in {0, 1}, NEW fin \in {0, 1}, NEW ended \in {0, 1},
         start + syn = first + 1, next = 1 + popped + ended,
         start + (syn + n + fin) <= next,
         fin = 1 <=> /\ ended = 1
                     /\ syn + n + fin > 0
                     /\ start + (syn + n + fin) = next
  PROVE  /\ first + n <= popped \/ (n = 0 /\ fin = 0)
         /\ fin = 1 => ended = 1 /\ first + n = popped
<1>1. CASE fin = 1
  BY <1>1
<1>2. CASE fin = 0 /\ n > 0
  BY <1>2
<1>3. CASE fin = 0 /\ n = 0
  BY <1>3
<1> QED BY <1>1, <1>2, <1>3

\* What a message that the sender s said brings: bytes of its stream, and with
\* the FIN the last of them.
LEMMA MessageBrings ==
  ASSUME NEW s, Consistent(s), Honest(s), NEW m \in Messages, NEW start \in 0..s.next_seqno,
         Says(s, m, start), NEW first, first = First(m, start)
  PROVE  /\ Len(m.payload) \in Nat /\ first \in Nat
         /\ m.payload = Substring(first, Len(m.payload))
         /\ m.SYN \in BOOLEAN /\ m.FIN \in BOOLEAN
         /\ m.SYN => s.syn_sent
         /\ s.syn_sent => \/ first + Len(m.payload) <= s.input.total_popped
                          \/ Len(m.payload) = 0 /\ ~m.FIN
         /\ m.FIN => s.fin_sent /\ first + Len(m.payload) = s.input.total_popped
<1> DEFINE n     == Len(m.payload)
           syn   == IF m.SYN THEN 1 ELSE 0
           fin   == IF m.FIN THEN 1 ELSE 0
           ended == IF s.fin_sent THEN 1 ELSE 0
<1>1. /\ s.input.total_popped \in Nat /\ s.next_seqno \in Nat
      /\ s.syn_sent \in BOOLEAN /\ s.fin_sent \in BOOLEAN
      /\ s.next_seqno = (IF s.syn_sent THEN 1 ELSE 0) + s.input.total_popped + ended
      /\ s.fin_sent => s.syn_sent
  BY SenderTypes
<1>2. /\ m.payload \in Seq(Byte) /\ m.SYN \in BOOLEAN /\ m.FIN \in BOOLEAN
      /\ n \in Nat /\ start \in Nat
  BY <1>1 DEF Messages
<1>3. /\ m.SYN <=> start = 0
      /\ m.payload = Substring(IF m.SYN THEN 0 ELSE start - 1, n)
      /\ start + (syn + n + fin) <= s.next_seqno
      /\ m.FIN <=> /\ s.fin_sent
                   /\ syn + n + fin > 0
                   /\ start + (syn + n + fin) = s.next_seqno
  BY DEF Says, SequenceLength
<1>4. /\ syn \in {0, 1} /\ fin \in {0, 1} /\ ended \in {0, 1}
      /\ m.SYN <=> syn = 1
      /\ m.FIN <=> fin = 1
      /\ s.fin_sent <=> ended = 1
  BY <1>1, <1>2
<1>5. /\ first \in Nat /\ m.payload = Substring(first, n)
      /\ start + syn = first + 1
  BY <1>2, <1>3 DEF First
<1> HIDE DEF n, syn, fin, ended
<1>6. m.SYN => s.syn_sent
  <2>1. ~s.syn_sent => s.next_seqno = 0
    BY DEF Honest
  <2>2. m.SYN => start + (syn + n + fin) > 0
    BY <1>2, <1>4
  <2>3. start + (syn + n + fin) \in Nat
    BY <1>2, <1>4
  <2>4. start + (syn + n + fin) > 0 => s.next_seqno # 0
    BY <1>1, <1>3, <2>3
  <2> QED BY <2>1, <2>2, <2>4
<1>7. m.FIN => s.syn_sent
  BY <1>1, <1>3
<1>8. s.syn_sent => /\ first + n <= s.input.total_popped \/ (n = 0 /\ fin = 0)
                    /\ fin = 1 => ended = 1 /\ first + n = s.input.total_popped
  <2>1. SUFFICES ASSUME s.syn_sent
                 PROVE  /\ first + n <= s.input.total_popped \/ (n = 0 /\ fin = 0)
                        /\ fin = 1 => ended = 1 /\ first + n = s.input.total_popped
    OBVIOUS
  <2>2. s.next_seqno = 1 + s.input.total_popped + ended
    BY <1>1, <2>1
  <2>3. fin = 1 <=> /\ ended = 1
                    /\ syn + n + fin > 0
                    /\ start + (syn + n + fin) = s.next_seqno
    BY <1>3, <1>4
  <2> DEFINE popped == s.input.total_popped
             next   == s.next_seqno
  <2>4. /\ start \in Nat /\ first \in Nat /\ n \in Nat
        /\ syn \in {0, 1} /\ fin \in {0, 1} /\ ended \in {0, 1}
        /\ start + syn = first + 1
    BY <1>2, <1>4, <1>5
  <2>5. popped \in Nat /\ next \in Nat
    BY <1>1
  <2>6. next = 1 + popped + ended /\ start + (syn + n + fin) <= next
    BY <1>3, <2>2
  <2>7. fin = 1 <=> /\ ended = 1
                    /\ syn + n + fin > 0
                    /\ start + (syn + n + fin) = next
    BY <2>3
  <2> HIDE DEF popped, next
  <2>8. /\ first + n <= popped \/ (n = 0 /\ fin = 0)
        /\ fin = 1 => ended = 1 /\ first + n = popped
    BY <2>4, <2>5, <2>6, <2>7, SaidFits
  <2> QED BY <2>8 DEF popped
<1>9. fin = 0 => ~m.FIN
  BY <1>4
<1> QED BY <1>2, <1>4, <1>5, <1>6, <1>7, <1>8, <1>9 DEF n

\* A message that the sender said, however old, leaves the link as it should be
\* and takes nothing from the receiver.
LEMMA ReceiverStep ==
  ASSUME ConnectionAssumption, NEW s, Consistent(s), Honest(s), s.next_seqno < Half,
         s.input.total_popped <= UINT64_MAX,
         NEW r, Link(s, r), NEW m, Carries(s, m),
         NEW t, t = ReceiverReceive(r, m)
  PROVE  Link(s, t) /\ Gains(r, t)
<1> DEFINE x == r.reassembler
           y == t.reassembler
           popped == s.input.total_popped
           n == Len(m.payload)
<1>1. PICK start \in 0..s.next_seqno : Says(s, m, start)
  BY DEF Carries
<1> DEFINE first == First(m, start)
<1>2. /\ m \in Messages /\ ~m.RST
      /\ s.next_seqno \in Nat /\ start \in Nat /\ start <= s.next_seqno
      /\ s.isn \in 0..(MOD - 1) /\ s.isn \in Nat /\ s.isn # NoAckno
      /\ s.syn_sent \in BOOLEAN /\ s.fin_sent \in BOOLEAN
      /\ UINT64_MAX \in Nat
      /\ s.next_seqno = (IF s.syn_sent THEN 1 ELSE 0) + popped
                          + (IF s.fin_sent THEN 1 ELSE 0)
  BY SenderTypes, ModIsPositive, ModAssumption DEF Carries, ConnectionAssumption
<1>3. /\ popped \in Nat /\ RecvCapacity \in Nat
      /\ Assembled(x, popped, RecvCapacity)
      /\ x.output.total_pushed \in Nat /\ x.output.total_pushed <= popped
      /\ x.output.closed \in BOOLEAN /\ x.last_seen \in BOOLEAN
      /\ AckAbs(r) \in Nat /\ AckAbs(r) >= 1
  BY LinkTypes
<1>4. /\ n \in Nat /\ first \in Nat
      /\ m.payload = Substring(first, n)
      /\ m.SYN \in BOOLEAN /\ m.FIN \in BOOLEAN
      /\ m.SYN => s.syn_sent
      /\ s.syn_sent => \/ first + n <= popped
                       \/ n = 0 /\ ~m.FIN
      /\ m.FIN => s.fin_sent /\ first + n = popped
  BY <1>1, <1>2, MessageBrings
<1>5. /\ r = [reassembler |-> x, isn |-> r.isn]
      /\ x.last_seen => s.fin_sent
      /\ ~x.output.error
      /\ r.isn \in {NoAckno, s.isn}
      /\ r.isn # NoAckno => s.syn_sent
      /\ s.receiver_ackno <= Heard(r)
  BY DEF Link
<1>6. CASE r.isn = NoAckno /\ ~m.SYN
  <2>1. t = r
    BY <1>2, <1>6 DEF ReceiverReceive
  <2> QED BY <1>3, <2>1 DEF Gains
<1>7. CASE r.isn # NoAckno \/ m.SYN
  <2>1. s.syn_sent
    BY <1>4, <1>5, <1>7
  <2>2. m.seqno = Wrap(start, s.isn) /\ (m.SYN <=> start = 0)
    BY <1>1 DEF Says
  <2>3. (IF m.SYN /\ r.isn = NoAckno THEN m.seqno ELSE r.isn) = s.isn
    <3>1. CASE r.isn # NoAckno
      BY <1>5, <3>1
    <3>2. CASE r.isn = NoAckno
      <4>1. m.SYN /\ start = 0
        BY <1>7, <2>2, <3>2
      <4>2. Wrap(0, s.isn) = s.isn
        <5>1. MOD * 0 = 0
          BY ModIsPositive
        <5> QED BY <1>2, <5>1, RestIsUnique, 0 \in Int DEF Wrap
      <4> QED BY <2>2, <3>2, <4>1, <4>2
    <3> QED BY <3>1, <3>2
  <2>4. Unwrap(m.seqno, s.isn, x.output.total_pushed + 1) = start
    <3>1. x.output.total_pushed + 1 \in Nat /\ x.output.total_pushed + 1 <= s.next_seqno
      BY <1>2, <1>3, <2>1
    <3>2. Half \in Nat
      BY ModIsPositive
    <3> DEFINE at == x.output.total_pushed + 1
    <3>3. at \in Nat /\ at <= s.next_seqno
      BY <3>1
    <3> HIDE DEF at
    <3>4. start - at < Half /\ at - start < Half
      BY <1>2, <3>2, <3>3
    <3>5. Unwrap(Wrap(start, s.isn), s.isn, at) = start
      BY <1>2, <3>3, <3>4, UnwrapInvertsWrap
    <3> QED BY <2>2, <3>5 DEF at
  <2>5. StreamIndex(start, m.SYN) = first
    BY <1>2, <2>2 DEF StreamIndex, First
  <2>6. t = [reassembler |-> Insert(x, first, m.payload, m.FIN), isn |-> s.isn]
    BY <1>2, <2>3, <2>4, <2>5 DEF ReceiverReceive
  <2> HIDE DEF x, popped, n, first
  <2>7. /\ y = Insert(x, first, m.payload, m.FIN) /\ t.isn = s.isn
        /\ t = [reassembler |-> y, isn |-> t.isn]
    BY <2>6
  <2> HIDE DEF y
  <2>8. /\ Assembled(y, popped, RecvCapacity)
        /\ y.output.total_popped = x.output.total_popped
        /\ y.output.error = x.output.error
        /\ y.last_seen <=> x.last_seen \/ m.FIN
        /\ y.next_index >= x.next_index
    <3>1. CASE first + n <= popped
      <4>1. y = Insert(x, first, Substring(first, n), m.FIN)
        BY <1>4, <2>7
      <4>2. popped <= UINT64_MAX
        BY DEF popped
      <4>3. m.FIN => first + n = popped
        BY <1>4
      <4>4. Inserted(y, x, first, n, m.FIN, popped, RecvCapacity)
        BY <1>2, <1>3, <1>4, <3>1, <4>1, <4>2, <4>3, InsertKeeps
      <4> QED BY <4>4 DEF Inserted
    <3>2. CASE n = 0 /\ ~m.FIN
      <4>1. m.payload = << >> /\ m.FIN = FALSE
        <5>1. m.payload \in Seq(Byte) /\ Len(m.payload) = 0
          BY <1>2, <3>2 DEF Messages, n
        <5> QED BY <1>4, <3>2, <5>1
      <4>2. y = Insert(x, first, << >>, FALSE)
        BY <2>7, <4>1
      <4>3. Untouched(y, x, popped, RecvCapacity)
        BY <1>3, <1>4, <4>2, InsertNothing
      <4>4. x.next_index \in Nat
        BY <1>3, InPlaceTypes DEF Assembled
      <4> QED BY <1>3, <3>2, <4>3, <4>4 DEF Untouched
    <3> QED BY <1>4, <2>1, <3>1, <3>2
  <2>9. Gains(r, t)
    <3>1. /\ x.next_index = x.output.total_pushed /\ x.next_index \in Nat
          /\ x.output.closed <=> x.last_seen /\ x.next_index = popped
      BY <1>3, InPlaceTypes DEF Assembled
    <3>2. /\ y.next_index = y.output.total_pushed /\ y.next_index \in Nat
          /\ y.next_index <= popped /\ y.output.closed \in BOOLEAN
          /\ y.output.closed <=> y.last_seen /\ y.next_index = popped
      BY <1>3, <2>8, InPlaceTypes DEF Assembled
    <3>3. x.output.closed => y.output.closed
      BY <1>3, <2>8, <3>1, <3>2
    <3>4. /\ AckAbs(r) = x.next_index + 1 + (IF x.output.closed THEN 1 ELSE 0)
          /\ AckAbs(t) = y.next_index + 1 + (IF y.output.closed THEN 1 ELSE 0)
      BY <3>1, <3>2 DEF AckAbs, x, y
    <3>5. AckAbs(t) \in Nat /\ AckAbs(r) <= AckAbs(t)
      BY <2>8, <3>1, <3>2, <3>3, <3>4
    <3> QED BY <1>5, <2>7, <3>3, <3>5 DEF Gains, x, y
  <2>10. s.receiver_ackno <= Heard(t)
    <3>1. Heard(t) = AckAbs(t)
      BY <1>2, <2>7 DEF Heard
    <3>2. Heard(r) \in Nat /\ Heard(r) <= AckAbs(t) /\ AckAbs(t) \in Nat
      BY <1>3, <2>9 DEF Heard, Gains
    <3>3. s.receiver_ackno \in Nat
      BY SenderTypes
    <3> QED BY <1>5, <3>1, <3>2, <3>3
  <2>11. y.last_seen => s.fin_sent
    BY <1>4, <1>5, <2>8
  <2>12. ~y.output.error
    BY <1>5, <2>8
  <2> QED BY <2>1, <2>7, <2>8, <2>9, <2>10, <2>11, <2>12 DEF Link, y, popped
<1> QED BY <1>6, <1>7

-----------------------------------------------------------------------------
(* A step of a peer.                                                        *)

\* What the peer t, after its step, may transmit.
Speaks(t, messages) ==
  \A i \in DOMAIN messages :
    Carries(t.sender, messages[i].sender) /\ Reports(t.receiver, messages[i].receiver)

\* The outbound stream is left alone, gets bytes, or ends.
Grows(b, c) ==
  \/ c.total_pushed = b.total_pushed /\ c.closed = b.closed
  \/ /\ ~b.closed /\ c.closed = b.closed
     /\ c.total_pushed \in Nat /\ c.total_pushed > b.total_pushed
  \/ c.closed = TRUE /\ c.total_pushed = b.total_pushed

\* Two peers as they are between two steps.
Coupled(a, b) ==
  /\ Shape(a) /\ Sound(a.sender) /\ Sound(b.sender)
  /\ Link(a.sender, b.receiver) /\ Link(b.sender, a.receiver)
  /\ a.sender.next_seqno < Half /\ b.sender.next_seqno < Half
  /\ b.sender.input.total_popped <= UINT64_MAX

\* A step of the peer a, whose other end is b, to t: it sends `messages`.
Moves(a, b, t, messages) ==
  /\ Shape(t) /\ Sound(t.sender) /\ Advances(a.sender, t.sender)
  /\ Grows(a.sender.input, t.sender.input)
  /\ Gains(a.receiver, t.receiver)
  /\ Link(t.sender, b.receiver) /\ Link(b.sender, t.receiver)
  /\ Speaks(t, messages)
  /\ t.linger \/ ~a.linger \/ ~t.sender.fin_sent

\* A message is what the sender says with what the receiver reports.
LEMMA MessageReports ==
  ASSUME ConnectionAssumption, NEW p, NEW s, Consistent(s), Link(s, p.receiver),
         NEW m \in Messages, ~m.RST
  PROVE  /\ Message(p, m).sender = m
         /\ Reports(p.receiver, Message(p, m).receiver)
<1> DEFINE r == p.receiver
           x == r.reassembler
           report == ReceiverSend(r)
<1>1. /\ x.output \in ByteStreams /\ StreamOk(x.output)
      /\ AckAbs(r) \in Nat /\ AckAbs(r) >= 1
  BY LinkTypes
<1>2. ~x.output.error
  BY DEF Link
<1>3. report = [ackno |-> IF r.isn = NoAckno THEN NoAckno ELSE Wrap(AckAbs(r), r.isn),
                window_size |-> Least(UINT16_MAX, AvailableCapacity(x.output)),
                RST |-> FALSE]
  BY <1>2 DEF ReceiverSend
<1>4. Least(UINT16_MAX, AvailableCapacity(x.output)) \in Nat
  <2>1. AvailableCapacity(x.output) \in Nat
    BY <1>1 DEF AvailableCapacity, StreamOk, ByteStreams
  <2>2. UINT16_MAX \in Nat
    BY DEF ConnectionAssumption
  <2> QED BY <2>1, <2>2 DEF Least
<1>5. m.RST \in BOOLEAN /\ [m EXCEPT !.RST = FALSE] = m
  BY DEF Messages
<1>6. (m.RST \/ report.RST) = FALSE
  BY <1>3, <1>5
<1>7. Message(p, m) = [sender |-> [m EXCEPT !.RST = FALSE],
                       receiver |-> [report EXCEPT !.RST = FALSE]]
  BY <1>6 DEF Message
<1>8. Message(p, m).sender = m
  BY <1>5, <1>7
<1>9. /\ Message(p, m).receiver.window_size \in Nat
      /\ ~Message(p, m).receiver.RST
      /\ Message(p, m).receiver.ackno =
           IF r.isn = NoAckno THEN NoAckno ELSE Wrap(AckAbs(r), r.isn)
  BY <1>3, <1>4, <1>7
<1>10. AckAbs(r) \in 1..AckAbs(r)
  BY <1>1
<1> QED BY <1>8, <1>9, <1>10 DEF Reports

\* The messages of a peer that says `out`.
LEMMA MessagesSpeak ==
  ASSUME ConnectionAssumption, NEW p, NEW s, Consistent(s), Link(s, p.receiver),
         NEW out \in Seq(Messages), NEW t, t.receiver = p.receiver,
         \A i \in 1..Len(out) : Carries(t.sender, out[i])
  PROVE  Speaks(t, MessagesOf(p, out))
<1>1. /\ DOMAIN MessagesOf(p, out) = 1..Len(out)
      /\ \A i \in 1..Len(out) : MessagesOf(p, out)[i] = Message(p, out[i])
  BY DEF MessagesOf
<1>2. ASSUME NEW i \in 1..Len(out)
      PROVE  /\ Carries(t.sender, Message(p, out[i]).sender)
             /\ Reports(t.receiver, Message(p, out[i]).receiver)
  <2>1. Carries(t.sender, out[i])
    OBVIOUS
  <2>2. out[i] \in Messages /\ ~out[i].RST
    BY <2>1 DEF Carries
  <2>3. /\ Message(p, out[i]).sender = out[i]
        /\ Reports(p.receiver, Message(p, out[i]).receiver)
    BY <2>2, MessageReports
  <2> QED BY <2>1, <2>3
<1> QED BY <1>1, <1>2 DEF Speaks

\* A step in which only the sender changes, and learns of no acknowledgment.
LEMMA SenderMoves ==
  ASSUME ConnectionAssumption, NEW a, NEW b, Coupled(a, b),
         NEW t, Shape(t), t.receiver = a.receiver, t.linger = a.linger,
         Sound(t.sender), Advances(a.sender, t.sender),
         Grows(a.sender.input, t.sender.input),
         t.sender.receiver_ackno = a.sender.receiver_ackno,
         NEW messages, Speaks(t, messages)
  PROVE  Moves(a, b, t, messages)
<1>1. /\ Consistent(a.sender) /\ Consistent(b.sender) /\ Consistent(t.sender)
      /\ Link(a.sender, b.receiver) /\ Link(b.sender, a.receiver)
  BY DEF Coupled, Sound, Ready
<1>2. Link(t.sender, b.receiver)
  <2>1. t.sender.receiver_ackno <= Heard(b.receiver)
    BY <1>1 DEF Link
  <2> QED BY <1>1, <2>1, LinkGoesOn
<1>3. Gains(a.receiver, t.receiver)
  <2>1. AckAbs(a.receiver) \in Nat
    BY <1>1, LinkTypes
  <2> QED BY <2>1 DEF Gains
<1>4. t.linger \/ ~a.linger
  BY DEF Coupled, Shape
<1> QED BY <1>1, <1>2, <1>3, <1>4 DEF Moves

\* A step in which the sender of the peer pushes, after a change to u that
\* brings no acknowledgment.
LEMMA PushMoves ==
  ASSUME ConnectionAssumption, NEW a, NEW b, Coupled(a, b),
         NEW u, Ready(u), Sound(Push(u)), Advances(a.sender, Push(u)),
         Grows(a.sender.input, Push(u).input),
         Push(u).receiver_ackno = a.sender.receiver_ackno,
         NEW c, DOMAIN c = DOMAIN a, c.sender = u, c.receiver = a.receiver,
         c.linger = a.linger
  PROVE  Moves(a, b, PeerPush(c), PeerPushTransmits(c))
<1> DEFINE t == PeerPush(c)
           out == PushTransmits(u)
<1>1. /\ Shape(a) /\ Consistent(b.sender) /\ Link(b.sender, a.receiver)
  BY DEF Coupled, Sound, Ready
<1>2. /\ DOMAIN t = DOMAIN a /\ t.sender = Push(u)
      /\ t.receiver = a.receiver /\ t.linger = a.linger
      /\ c.sender = u /\ c.receiver = a.receiver
  BY <1>1 DEF PeerPush, Shape
<1>3. PeerPushTransmits(c) = MessagesOf(c, out)
  BY <1>2, Zenon DEF PeerPushTransmits
<1>5. out \in Seq(Messages) /\ \A i \in 1..Len(out) : Carries(Push(u), out[i])
  BY PushCarries
<1> HIDE DEF t, out
<1>6. Shape(t)
  BY <1>1, <1>2 DEF Shape, Inbound
<1>7. Speaks(t, MessagesOf(c, out))
  BY <1>1, <1>2, <1>5, MessagesSpeak
<1>8. Moves(a, b, t, MessagesOf(c, out))
  BY <1>2, <1>6, <1>7, SenderMoves
<1> QED BY <1>3, <1>8 DEF t

\* The timer of the peer goes on.
LEMMA TickMoves ==
  ASSUME ConnectionAssumption, NEW a, NEW b, Coupled(a, b), NEW ms \in Nat
  PROVE  Moves(a, b, PeerTick(a, ms), PeerTickTransmits(a, ms))
<1> DEFINE t == PeerTick(a, ms)
           s == SenderTick(a.sender, ms)
           out == TickTransmits(a.sender, ms)
<1>1. /\ Shape(a) /\ Sound(a.sender) /\ Consistent(b.sender) /\ Link(b.sender, a.receiver)
  BY DEF Coupled, Sound, Ready
<1>2. /\ DOMAIN t = DOMAIN a
      /\ t.sender = s /\ t.receiver = a.receiver /\ t.linger = a.linger
  BY <1>1 DEF PeerTick, Shape
<1>3. PeerTickTransmits(a, ms) = MessagesOf(a, out)
  BY DEF PeerTickTransmits
<1>4. /\ Sound(s) /\ Advances(a.sender, s)
      /\ s.receiver_ackno = a.sender.receiver_ackno /\ s.input = a.sender.input
  BY <1>1, TickGoesOn
<1>5. out \in Seq(Messages) /\ \A i \in 1..Len(out) : Carries(s, out[i])
  BY <1>1, TickCarries
<1> HIDE DEF t, s, out
<1>6. Shape(t)
  BY <1>1, <1>2 DEF Shape, Inbound
<1>7. Speaks(t, MessagesOf(a, out))
  BY <1>1, <1>2, <1>5, MessagesSpeak
<1>8. Grows(a.sender.input, t.sender.input)
  BY <1>2, <1>4 DEF Grows
<1>9. Moves(a, b, t, MessagesOf(a, out))
  BY <1>2, <1>4, <1>6, <1>7, <1>8, SenderMoves
<1> QED BY <1>3, <1>9 DEF t

\* The application takes bytes from the inbound stream.
LEMMA ReadMoves ==
  ASSUME ConnectionAssumption, NEW a, NEW b, Coupled(a, b),
         NEW n \in Nat, n <= Len(Inbound(a).buffer),
         NEW t, t = [a EXCEPT !.receiver.reassembler.output = ReaderPop(@, n)]
  PROVE  Moves(a, b, t, <<>>)
<1> DEFINE r == a.receiver
           x == r.reassembler
           y == [x EXCEPT !.output = ReaderPop(x.output, n)]
           q == t.receiver
           s == b.sender
           popped == s.input.total_popped
<1>1. /\ Shape(a) /\ Sound(a.sender) /\ Consistent(a.sender) /\ Consistent(s)
      /\ Link(a.sender, b.receiver) /\ Link(s, r)
  BY DEF Coupled, Sound, Ready
<1>2. /\ popped \in Nat /\ RecvCapacity \in Nat /\ Assembled(x, popped, RecvCapacity)
      /\ AckAbs(r) \in Nat
  BY <1>1, LinkTypes
<1>3. /\ r = [reassembler |-> x, isn |-> r.isn]
      /\ x.last_seen => s.fin_sent
      /\ ~x.output.error
      /\ r.isn \in {NoAckno, s.isn}
      /\ r.isn # NoAckno => s.syn_sent
      /\ s.receiver_ackno <= Heard(r)
  BY <1>1 DEF Link
<1>4. /\ DOMAIN t = DOMAIN a /\ t.sender = a.sender /\ t.linger = a.linger
      /\ q = [reassembler |-> y, isn |-> r.isn]
  <2>1. DOMAIN a = {"sender", "receiver", "linger", "since_last_receipt"}
    BY <1>1 DEF Shape
  <2> QED BY <1>3, <2>1
<1>5. Popped(y, x, n, popped, RecvCapacity)
  BY <1>2, PopKeepsAssembled DEF Inbound
<1> HIDE DEF x, y, r, q, s, popped
<1>6. /\ Assembled(y, popped, RecvCapacity) /\ y.last_seen = x.last_seen
      /\ y.output.total_pushed = x.output.total_pushed
      /\ y.output.closed = x.output.closed /\ y.output.error = x.output.error
  BY <1>5 DEF Popped
<1>7. /\ q.reassembler = y /\ q.isn = r.isn
      /\ AckAbs(q) = AckAbs(r) /\ Heard(q) = Heard(r)
  BY <1>4, <1>6 DEF AckAbs, Heard, x
<1>8. Link(s, q)
  BY <1>3, <1>4, <1>6, <1>7 DEF Link, popped
<1>9. Gains(r, q)
  BY <1>2, <1>6, <1>7 DEF Gains, x
<1>10. Shape(t)
  <2>1. Inbound(t).closed = Inbound(a).closed
    BY <1>6, <1>7 DEF Inbound, q, x, r
  <2> QED BY <1>1, <1>4, <2>1 DEF Shape, q
<1>11. Advances(a.sender, t.sender) /\ Grows(a.sender.input, t.sender.input)
  <2>1. a.sender.next_seqno \in Nat /\ a.sender.input.total_popped \in Nat
    BY <1>1, SenderTypes
  <2>2. \A i \in Nat : i >= i
    OBVIOUS
  <2> QED BY <1>4, <2>1, <2>2 DEF Advances, Follows, Grows
<1>12. Speaks(t, <<>>)
  BY DEF Speaks
<1>13. t.linger \/ ~a.linger
  BY <1>1, <1>4 DEF Shape
<1> QED BY <1>1, <1>4, <1>8, <1>9, <1>10, <1>11, <1>12, <1>13 DEF Moves, q, r, s

\* A message of the other end arrives, however late or often.
LEMMA ArriveMoves ==
  ASSUME ConnectionAssumption, NEW a, NEW b, Coupled(a, b), Active(a),
         NEW m, Carries(b.sender, m.sender), Reports(b.receiver, m.receiver)
  PROVE  /\ Moves(a, b, PeerReceive(a, m), PeerReceiveTransmits(a, m))
         /\ PeerReceive(a, m).sender.input.total_pushed = a.sender.input.total_pushed
<1> DEFINE u == SenderReceive(a.sender, m.receiver)
           s == Push(u)
           r == ReceiverReceive(a.receiver, m.sender)
           c == Absorb(a, m)
           t == PeerReceive(a, m)
           out == PushTransmits(u)
           messages == PeerReceiveTransmits(a, m)
           ended == r.reassembler.output.closed /\ ~IsFinished(s.input)
<1>1. /\ Shape(a) /\ Sound(a.sender) /\ Sound(b.sender)
      /\ Link(a.sender, b.receiver) /\ Link(b.sender, a.receiver)
      /\ a.sender.next_seqno < Half /\ b.sender.next_seqno < Half
      /\ b.sender.input.total_popped <= UINT64_MAX
      /\ Consistent(a.sender)
      /\ Consistent(b.sender) /\ Honest(b.sender)
  BY DEF Coupled, Sound, Ready
<1>2. /\ DOMAIN c = DOMAIN a /\ c.sender = u /\ c.receiver = r /\ c.linger = a.linger
  BY <1>1 DEF Absorb, Shape
<1>3. /\ DOMAIN t = DOMAIN a /\ t.sender = s /\ t.receiver = r
      /\ t.linger = (a.linger /\ ~ended)
  <2> DEFINE d == PeerPush(c)
  <2> HIDE DEF c
  <2>1. /\ DOMAIN d = DOMAIN a /\ d.sender = Push(c.sender) /\ d.receiver = c.receiver
        /\ d.linger = a.linger
    BY <1>1, <1>2 DEF PeerPush, Shape
  <2>2. t = [d EXCEPT !.linger = @ /\ ~StopsLingering(d)]
    BY Zenon DEF PeerReceive, c
  <2>3. StopsLingering(d) <=> d.receiver.reassembler.output.closed /\ ~IsFinished(d.sender.input)
    BY DEF StopsLingering, Inbound
  <2>4. d.sender = s /\ d.receiver = r
    BY <1>2, <2>1, Zenon
  <2>5. StopsLingering(d) <=> ended
    BY <2>3, <2>4, Zenon
  <2> HIDE DEF d, t, s, r, ended
  <2>6. /\ DOMAIN t = DOMAIN d /\ t.sender = d.sender /\ t.receiver = d.receiver
        /\ t.linger = (d.linger /\ ~StopsLingering(d))
    BY <1>1, <2>1, <2>2 DEF Shape
  <2> QED BY <2>1, <2>4, <2>5, <2>6
<1>4. m.receiver.ackno \in 0..(MOD - 1) \union {NoAckno}
  <2>1. CASE m.receiver.ackno = NoAckno
    BY <2>1
  <2>2. CASE m.receiver.ackno # NoAckno
    <3>1. PICK k \in 1..AckAbs(b.receiver) : m.receiver.ackno = Wrap(k, b.receiver.isn)
      BY <2>2 DEF Reports
    <3>2. b.receiver.isn = a.sender.isn
      BY <1>1, <2>2 DEF Reports, Link
    <3>3. a.sender.isn \in 0..(MOD - 1)
      BY <1>1, SenderTypes
    <3>4. k \in Int /\ a.sender.isn \in Int
      BY <3>3, ModIsPositive
    <3>5. Wrap(k, a.sender.isn) \in 0..(MOD - 1)
      BY <3>4, WrapInRange
    <3>6. m.receiver.ackno \in 0..(MOD - 1)
      BY <3>1, <3>2, <3>5
    <3> QED BY <3>6
  <2> QED BY <2>1, <2>2
<1>5. /\ Ready(u) /\ Sound(s) /\ Advances(a.sender, s)
      /\ s.input.total_pushed = a.sender.input.total_pushed
      /\ s.input.closed = a.sender.input.closed
      /\ \/ s.receiver_ackno = a.sender.receiver_ackno
         \/ /\ AcksNewData(a.sender, m.receiver.ackno)
            /\ s.receiver_ackno =
                 Unwrap(m.receiver.ackno, a.sender.isn, a.sender.receiver_ackno)
  BY <1>1, <1>4, ReceiveGoesOn DEF Reports
<1>6. Link(b.sender, r) /\ Gains(a.receiver, r)
  BY <1>1, ReceiverStep
<1>7. out \in Seq(Messages) /\ \A i \in 1..Len(out) : Carries(s, out[i])
  BY <1>5, PushCarries
<1>8. Len(out) = 0 => EmptyMessage(u) \in Messages /\ Carries(s, EmptyMessage(u))
  BY <1>5, EmptyCarries
<1>9. IF MessagesOf(c, out) = <<>> /\ MustAnswer(a, m)
        THEN messages = << Message(c, EmptyMessage(u)) >>
        ELSE messages = MessagesOf(c, out)
  BY <1>2 DEF PeerReceiveTransmits, PeerPushTransmits
<1> HIDE DEF u, s, r, c, t, out, messages, ended
<1>10. Link(s, b.receiver)
  <2>1. s.receiver_ackno <= Heard(b.receiver)
    <3>1. a.sender.receiver_ackno <= Heard(b.receiver)
      BY <1>1 DEF Link
    <3> QED BY <1>1, <1>5, <3>1, AckIsTrue
  <2>2. Consistent(s)
    BY <1>5 DEF Sound, Ready
  <2> QED BY <1>1, <1>5, <2>1, <2>2, LinkGoesOn
<1>11. Speaks(t, messages)
  <2>1. CASE MessagesOf(c, out) = <<>> /\ MustAnswer(a, m)
    <3>1. messages = << Message(c, EmptyMessage(u)) >>
      BY <1>9, <2>1
    <3>2. Len(out) = 0
      <4>1. DOMAIN MessagesOf(c, out) = 1..Len(out) /\ Len(out) \in Nat
        BY <1>7 DEF MessagesOf
      <4>2. 1..Len(out) = {}
        BY <2>1, <4>1
      <4>3. \A n \in Nat : 1..n = {} => n = 0
        <5>1. \A n \in Nat : n # 0 => 1 \in 1..n
          BY ONLY TRUE
        <5> QED BY ONLY <5>1
      <4> QED BY <4>1, <4>2, <4>3
    <3>3. EmptyMessage(u) \in Messages /\ Carries(s, EmptyMessage(u))
      BY <1>8, <3>2
    <3>4. /\ Message(c, EmptyMessage(u)).sender = EmptyMessage(u)
          /\ Reports(r, Message(c, EmptyMessage(u)).receiver)
      BY <1>1, <1>2, <1>6, <3>3, MessageReports DEF Carries
    <3> QED BY <1>3, <3>1, <3>3, <3>4 DEF Speaks
  <2>2. CASE ~(MessagesOf(c, out) = <<>> /\ MustAnswer(a, m))
    <3>1. messages = MessagesOf(c, out)
      BY <1>9, <2>2
    <3>2. Speaks(t, MessagesOf(c, out))
      BY <1>1, <1>2, <1>3, <1>6, <1>7, MessagesSpeak
    <3> QED BY <3>1, <3>2
  <2> QED BY <2>1, <2>2
<1>12. ended => ~s.fin_sent
  <2>1. s.fin_sent => IsFinished(s.input)
    BY <1>5 DEF Sound, Ready, Consistent, NumbersAddUp
  <2> QED BY <2>1 DEF ended
<1>13. Shape(t)
  <2>1. ended => r.reassembler.output.closed
    BY DEF ended
  <2>2. ~a.linger => r.reassembler.output.closed
    BY <1>1, <1>6 DEF Shape, Gains, Inbound
  <2>3. ~t.linger => Inbound(t).closed
    BY <1>3, <2>1, <2>2 DEF Inbound
  <2>4. t.linger \in BOOLEAN
    BY <1>3
  <2> QED BY <1>1, <1>3, <2>3, <2>4 DEF Shape
<1>14. t.linger \/ ~a.linger \/ ~t.sender.fin_sent
  BY <1>1, <1>3, <1>12
<1>15. Grows(a.sender.input, t.sender.input)
  BY <1>3, <1>5 DEF Grows
<1>16. Moves(a, b, t, messages)
  BY <1>3, <1>5, <1>6, <1>10, <1>11, <1>13, <1>14, <1>15 DEF Moves
<1> QED BY <1>3, <1>5, <1>16, Zenon DEF t, messages

-----------------------------------------------------------------------------
(* A step of the connection.                                                *)

\* There are two peers, and each is the other of the other.
LEMMA OtherPeer ==
  ASSUME ConnectionAssumption, NEW p \in Peers
  PROVE  /\ Other(p) \in Peers /\ Other(p) # p /\ Other(Other(p)) = p
         /\ \A q \in Peers : q = p \/ q = Other(p)
<1>1. PICK a \in Peers, b \in Peers : a # b /\ Peers = {a, b}
  BY DEF ConnectionAssumption
<1>2. ASSUME NEW q \in Peers
      PROVE  /\ Other(q) \in Peers /\ Other(q) # q
             /\ \A r \in Peers : r = q \/ r = Other(q)
  <2>1. \E r \in Peers : r # q
    BY <1>1
  <2>2. Other(q) \in Peers /\ Other(q) # q
    BY <2>1 DEF Other
  <2> QED BY <1>1, <2>2
<1> QED BY <1>2

\* The bounds of the applications keep the numbers below a half turn.
LEMMA InvariantCouples ==
  ASSUME ConnectionAssumption, NumbersDoNotWrap, Invariant, NEW p \in Peers
  PROVE  Coupled(peer[p], peer[Other(p)])
<1>1. ASSUME NEW q \in Peers
      PROVE  /\ Shape(peer[q]) /\ Sound(peer[q].sender)
             /\ Link(peer[q].sender, peer[Other(q)].receiver)
             /\ peer[q].sender.next_seqno < Half
             /\ peer[q].sender.input.total_popped <= UINT64_MAX
  <2> DEFINE s == peer[q].sender
  <2>1. /\ HalfHolds(peer[q], peer[Other(q)], network[q])
        /\ s.input.total_pushed <= MaxBytes[q]
    BY DEF Invariant
  <2>2. Consistent(s)
    BY <2>1 DEF HalfHolds, Sound, Ready
  <2>3. /\ s.input.total_popped \in Nat /\ s.input.total_pushed \in Nat
        /\ s.input.total_popped <= s.input.total_pushed
        /\ s.next_seqno \in Nat /\ s.next_seqno <= s.input.total_popped + 2
    <3>1. /\ s.input.total_popped \in Nat /\ s.input.total_pushed \in Nat
          /\ Len(s.input.buffer) \in Nat /\ s.next_seqno \in Nat
          /\ s.syn_sent \in BOOLEAN /\ s.fin_sent \in BOOLEAN
          /\ s.input.total_pushed = s.input.total_popped + Len(s.input.buffer)
          /\ s.next_seqno = (IF s.syn_sent THEN 1 ELSE 0) + s.input.total_popped
                              + (IF s.fin_sent THEN 1 ELSE 0)
      BY <2>2, SenderTypes
    <3> HIDE DEF s
    <3> QED BY <3>1
  <2>4. MaxBytes[q] \in Nat /\ MaxBytes[q] + 2 < Half /\ MaxBytes[q] + 2 <= UINT64_MAX
    BY DEF ConnectionAssumption, NumbersDoNotWrap
  <2>5. UINT64_MAX \in Nat /\ Half \in Nat
    BY ModIsPositive DEF ConnectionAssumption
  <2> HIDE DEF s
  <2>6. s.next_seqno < Half /\ s.input.total_popped <= UINT64_MAX
    BY <2>1, <2>3, <2>4, <2>5
  <2> QED BY <2>1, <2>6 DEF HalfHolds, s
<1>2. Other(p) \in Peers /\ Other(Other(p)) = p
  BY OtherPeer
<1>3. /\ Shape(peer[p]) /\ Sound(peer[p].sender)
      /\ Link(peer[p].sender, peer[Other(p)].receiver)
      /\ peer[p].sender.next_seqno < Half
  BY <1>1
<1>4. /\ Sound(peer[Other(p)].sender)
      /\ Link(peer[Other(p)].sender, peer[p].receiver)
      /\ peer[Other(p)].sender.next_seqno < Half
      /\ peer[Other(p)].sender.input.total_popped <= UINT64_MAX
  BY <1>1, <1>2
<1> QED BY <1>3, <1>4 DEF Coupled

\* p makes a step that is as it should be.
GoodStep(p) ==
  \E received, t, messages :
    /\ Step(p, received, t, messages)
    /\ Moves(peer[p], peer[Other(p)], t, messages)
    /\ t.sender.input.total_pushed <= MaxBytes[p]

\* connect()
LEMMA ConnectIsGood ==
  ASSUME ConnectionAssumption, NumbersDoNotWrap, Invariant, NEW p \in Peers, Connect(p)
  PROVE  GoodStep(p)
<1> DEFINE a == peer[p]
           b == peer[Other(p)]
           s == a.sender
<1>1. Coupled(a, b) /\ s.input.total_pushed <= MaxBytes[p]
  BY InvariantCouples DEF Invariant
<1>2. Ready(s)
  BY <1>1 DEF Coupled, Sound
<1>3. /\ Sound(Push(s)) /\ Advances(s, Push(s))
      /\ Push(s).receiver_ackno = s.receiver_ackno
      /\ Push(s).input.total_pushed = s.input.total_pushed
      /\ Push(s).input.closed = s.input.closed
  BY <1>2, PushGoesOn
<1>5. Grows(s.input, Push(s).input)
  BY <1>3 DEF Grows
<1>6. Moves(a, b, PeerPush(a), PeerPushTransmits(a))
  BY <1>1, <1>2, <1>3, <1>5, PushMoves
<1>7. PeerPush(a).sender = Push(s)
  BY <1>1 DEF PeerPush, Coupled, Shape
<1>8. Step(p, {}, PeerPush(a), PeerPushTransmits(a))
  BY DEF Connect
<1>9. PeerPush(a).sender.input.total_pushed <= MaxBytes[p]
  BY <1>1, <1>3, <1>7, Zenon
<1> QED BY <1>6, <1>8, <1>9, Zenon DEF GoodStep

\* A byte stream of the peer a in the place of its outbound one.
LEMMA PushedFields ==
  ASSUME NEW p, Shape(peer[p]), NEW stream,
         NEW c, c = PushedInto(p, stream),
         NEW u, u = [peer[p].sender EXCEPT !.input = stream]
  PROVE  /\ DOMAIN c = DOMAIN peer[p] /\ c.sender = u
         /\ c.receiver = peer[p].receiver /\ c.linger = peer[p].linger
         /\ PeerPush(c).sender = Push(u)
<1>1. /\ DOMAIN c = DOMAIN peer[p] /\ c.sender = u
      /\ c.receiver = peer[p].receiver /\ c.linger = peer[p].linger
  BY DEF Shape, PushedInto
<1>2. PeerPush(c).sender = Push(u)
  BY <1>1 DEF PeerPush, Shape
<1> QED BY <1>1, <1>2

\* An application that owns its end of the socket has seen its SYN acknowledged.
LEMMA EstablishedSentSyn ==
  ASSUME ConnectionAssumption, NEW p, NEW b, Coupled(peer[p], b), Established(p)
  PROVE  peer[p].sender.syn_sent
<1> DEFINE s == peer[p].sender
<1>1. Consistent(s) /\ Link(s, b.receiver)
  BY DEF Coupled, Sound, Ready
<1>2. s.receiver_ackno > 0 /\ s.receiver_ackno <= Heard(b.receiver)
  BY <1>1 DEF Established, Link
<1>3. b.receiver.isn # NoAckno
  <2>1. b.receiver.isn = NoAckno => Heard(b.receiver) = 0
    BY DEF Heard
  <2>2. s.receiver_ackno \in Nat
    BY <1>1, SenderTypes
  <2> HIDE DEF s
  <2> QED BY <1>2, <2>1, <2>2
<1> QED BY <1>1, <1>3 DEF Link

\* The application writes.
LEMMA WriteIsGood ==
  ASSUME ConnectionAssumption, NumbersDoNotWrap, Invariant, NEW p \in Peers,
         NEW n \in Nat \ {0}, Write(p, n)
  PROVE  GoodStep(p)
<1> DEFINE a == peer[p]
           b == peer[Other(p)]
           s == a.sender
           stream == WriterPush(s.input, Substring(s.input.total_pushed, n))
           u == [s EXCEPT !.input = stream]
           c == PushedInto(p, stream)
<1>1. /\ Coupled(a, b) /\ Shape(a) /\ Sound(s) /\ Consistent(s)
  BY InvariantCouples DEF Coupled, Sound, Ready
<1>2. /\ ~s.input.closed /\ n <= AvailableCapacity(s.input)
      /\ s.input.total_pushed + n <= MaxBytes[p]
      /\ Step(p, {}, PeerPush(c), PeerPushTransmits(c))
  BY DEF Write
<1>3. /\ Ready(u) /\ Sound(Push(u)) /\ Advances(s, Push(u))
      /\ Push(u).receiver_ackno = s.receiver_ackno
      /\ Push(u).input.total_pushed = s.input.total_pushed + n
      /\ Push(u).input.closed = s.input.closed
  BY <1>1, <1>2, WriteGoesOn
<1>4. /\ DOMAIN c = DOMAIN a /\ c.sender = u /\ c.receiver = a.receiver
      /\ c.linger = a.linger /\ PeerPush(c).sender = Push(u)
  BY <1>1, PushedFields
<1> HIDE DEF stream, u, c
<1>5. Grows(s.input, Push(u).input)
  <2>1. s.input.total_pushed \in Nat
    BY <1>1, SenderTypes
  <2>2. \A i \in Nat : i + n \in Nat /\ i + n > i
    OBVIOUS
  <2> QED BY <1>2, <1>3, <2>1, <2>2 DEF Grows
<1>6. Moves(a, b, PeerPush(c), PeerPushTransmits(c))
  BY <1>1, <1>3, <1>4, <1>5, PushMoves
<1>7. PeerPush(c).sender.input.total_pushed <= MaxBytes[p]
  BY <1>2, <1>3, <1>4, Zenon
<1> QED BY <1>2, <1>6, <1>7, Zenon DEF GoodStep

\* The application ends its stream.
LEMMA CloseIsGood ==
  ASSUME ConnectionAssumption, NumbersDoNotWrap, Invariant, NEW p \in Peers, Close(p)
  PROVE  GoodStep(p)
<1> DEFINE a == peer[p]
           b == peer[Other(p)]
           s == a.sender
           stream == WriterClose(s.input)
           u == [s EXCEPT !.input = stream]
           c == PushedInto(p, stream)
<1>1. /\ Coupled(a, b) /\ Shape(a) /\ Sound(s)
      /\ s.input.total_pushed <= MaxBytes[p]
  BY InvariantCouples DEF Coupled, Invariant
<1>2. /\ Established(p)
      /\ Step(p, {}, PeerPush(c), PeerPushTransmits(c))
  BY DEF Close
<1>3. s.syn_sent
  BY <1>1, <1>2, EstablishedSentSyn
<1>4. /\ Ready(u) /\ Sound(Push(u)) /\ Advances(s, Push(u))
      /\ Push(u).receiver_ackno = s.receiver_ackno
      /\ Push(u).input.total_pushed = s.input.total_pushed
      /\ Push(u).input.closed = TRUE
  BY <1>1, <1>3, CloseGoesOn
<1>5. /\ DOMAIN c = DOMAIN a /\ c.sender = u /\ c.receiver = a.receiver
      /\ c.linger = a.linger /\ PeerPush(c).sender = Push(u)
  BY <1>1, PushedFields
<1> HIDE DEF stream, u, c
<1>6. Grows(s.input, Push(u).input)
  BY <1>4 DEF Grows
<1>7. Moves(a, b, PeerPush(c), PeerPushTransmits(c))
  BY <1>1, <1>4, <1>5, <1>6, PushMoves
<1>8. PeerPush(c).sender.input.total_pushed <= MaxBytes[p]
  BY <1>1, <1>4, <1>5, Zenon
<1> QED BY <1>2, <1>7, <1>8, Zenon DEF GoodStep

\* The loop tells the peer how much time has passed.
LEMMA TickIsGood ==
  ASSUME ConnectionAssumption, NumbersDoNotWrap, Invariant, NEW p \in Peers,
         NEW ms \in Ticks, Tick(p, ms)
  PROVE  GoodStep(p)
<1> DEFINE a == peer[p]
           b == peer[Other(p)]
           s == a.sender
           t == PeerTick(a, ms)
<1>1. /\ Coupled(a, b) /\ Shape(a) /\ Sound(s)
      /\ s.input.total_pushed <= MaxBytes[p]
  BY InvariantCouples DEF Coupled, Invariant
<1>2. ms \in Nat
  BY DEF ConnectionAssumption
<1>3. Moves(a, b, t, PeerTickTransmits(a, ms))
  BY <1>1, <1>2, TickMoves
<1>4. t.sender = SenderTick(s, ms)
  BY <1>1 DEF PeerTick, Shape
<1>5. SenderTick(s, ms).input = s.input
  BY <1>1, <1>2, TickGoesOn
<1>6. t.sender.input.total_pushed <= MaxBytes[p]
  BY <1>1, <1>4, <1>5, Zenon
<1>7. Step(p, {}, t, PeerTickTransmits(a, ms))
  BY DEF Tick
<1> QED BY <1>3, <1>6, <1>7, Zenon DEF GoodStep

\* The application reads.
LEMMA ReadIsGood ==
  ASSUME ConnectionAssumption, NumbersDoNotWrap, Invariant, NEW p \in Peers,
         NEW n \in Nat, Read(p, n)
  PROVE  GoodStep(p)
<1> DEFINE a == peer[p]
           b == peer[Other(p)]
           t == [a EXCEPT !.receiver.reassembler.output = ReaderPop(@, n)]
<1>1. Coupled(a, b) /\ Shape(a) /\ a.sender.input.total_pushed <= MaxBytes[p]
  BY InvariantCouples DEF Coupled, Invariant
<1>2. n <= Len(Inbound(a).buffer) /\ Step(p, {}, t, <<>>)
  BY DEF Read
<1>3. t.sender = a.sender
  BY <1>1 DEF Shape
<1> HIDE DEF t
<1>4. Moves(a, b, t, <<>>)
  BY <1>1, <1>2, ReadMoves DEF t
<1> QED BY <1>1, <1>2, <1>3, <1>4, Zenon DEF GoodStep

\* A message arrives.
LEMMA ArriveIsGood ==
  ASSUME ConnectionAssumption, NumbersDoNotWrap, Invariant, NEW p \in Peers,
         NEW m \in network[p], Arrive(p, m)
  PROVE  GoodStep(p)
<1> DEFINE a == peer[p]
           b == peer[Other(p)]
           t == PeerReceive(a, m)
<1>1. /\ Coupled(a, b) /\ Shape(a) /\ Sound(a.sender)
      /\ a.sender.input.total_pushed <= MaxBytes[p]
  BY InvariantCouples DEF Coupled, Invariant
<1>2. Carries(b.sender, m.sender) /\ Reports(b.receiver, m.receiver)
  BY DEF Invariant, HalfHolds
<1>3. Active(a) /\ Step(p, {m}, t, PeerReceiveTransmits(a, m))
  BY DEF Arrive
<1>4. /\ Moves(a, b, t, PeerReceiveTransmits(a, m))
      /\ t.sender.input.total_pushed = a.sender.input.total_pushed
  BY <1>1, <1>2, <1>3, ArriveMoves
<1>6. t.sender.input.total_pushed <= MaxBytes[p]
  BY <1>1, <1>4, Zenon
<1> QED BY <1>3, <1>4, <1>6, Zenon DEF GoodStep

\* Every step of the connection is a good step of one of its peers.
LEMMA NextIsGood ==
  ASSUME ConnectionAssumption, NumbersDoNotWrap, Invariant, Next
  PROVE  \E p \in Peers : GoodStep(p)
<1>1. PICK p \in Peers :
        \/ Connect(p)
        \/ \E m \in network[p] : Arrive(p, m)
        \/ \E n \in 1..SendCapacity : Write(p, n)
        \/ Close(p)
        \/ \E n \in 1..RecvCapacity : Read(p, n)
        \/ \E ms \in Ticks : Tick(p, ms)
  BY DEF Next
<1>2. CASE Connect(p)
  BY <1>2, ConnectIsGood
<1>3. ASSUME NEW m \in network[p], Arrive(p, m)
      PROVE  GoodStep(p)
  BY <1>3, ArriveIsGood
<1>4. ASSUME NEW n \in 1..SendCapacity, Write(p, n)
      PROVE  GoodStep(p)
  <2>1. n \in Nat \ {0}
    BY DEF ConnectionAssumption
  <2> QED BY <1>4, <2>1, WriteIsGood
<1>5. CASE Close(p)
  BY <1>5, CloseIsGood
<1>6. ASSUME NEW n \in 1..RecvCapacity, Read(p, n)
      PROVE  GoodStep(p)
  <2>1. n \in Nat
    BY DEF ConnectionAssumption
  <2> QED BY <1>6, <2>1, ReadIsGood
<1>7. ASSUME NEW ms \in Ticks, Tick(p, ms)
      PROVE  GoodStep(p)
  BY <1>7, TickIsGood
<1> QED BY <1>1, <1>2, <1>3, <1>4, <1>5, <1>6, <1>7

\* The network holds nothing that was not sent.
LEMMA TransitKeeps ==
  ASSUME NEW held, NEW messages, NEW h \in InTransit(held, messages), NEW m \in h
  PROVE  m \in held \/ \E i \in DOMAIN messages : m = messages[i]
BY DEF InTransit

\* Who lingers when the peer a made a step to t, and b did not.
LEMMA OneStillLingers ==
  ASSUME ConnectionAssumption, NEW a, NEW b, Coupled(a, b), Shape(b),
         NEW t, NEW messages, Moves(a, b, t, messages), a.linger \/ b.linger
  PROVE  t.linger \/ b.linger
<1>1. t.linger \/ ~a.linger \/ ~t.sender.fin_sent
  BY DEF Moves
<1>2. CASE ~t.sender.fin_sent
  <2>1. ~a.sender.fin_sent
    BY <1>2 DEF Moves, Advances, Follows
  <2>2. Consistent(a.sender) /\ Link(a.sender, b.receiver)
    BY DEF Coupled, Sound, Ready
  <2>3. ~Inbound(b).closed
    BY <2>1, <2>2, LinkTypes DEF Inbound
  <2> QED BY <2>3 DEF Shape
<1> QED BY <1>1, <1>2

\* A good step keeps the invariant.
LEMMA GoodStepPreserves ==
  ASSUME ConnectionAssumption, NumbersDoNotWrap, Invariant, NEW p \in Peers, GoodStep(p)
  PROVE  Invariant'
<1> DEFINE q == Other(p)
           a == peer[p]
           b == peer[q]
<1>1. PICK received, t, messages :
        /\ Step(p, received, t, messages)
        /\ Moves(a, b, t, messages)
        /\ t.sender.input.total_pushed <= MaxBytes[p]
  BY DEF GoodStep
<1>2. /\ q \in Peers /\ q # p /\ Other(q) = p
      /\ \A r \in Peers : r = p \/ r = q
  BY OtherPeer
<1>3. Coupled(a, b)
  BY InvariantCouples
<1>4. /\ peer = [r \in Peers |-> peer[r]] /\ network = [r \in Peers |-> network[r]]
      /\ HalfHolds(a, b, network[p]) /\ HalfHolds(b, a, network[q])
      /\ a.sender.isn = Isn[p] /\ b.sender.isn = Isn[q]
      /\ b.sender.input.total_pushed <= MaxBytes[q]
      /\ SomeoneLingers
  <2> HIDE DEF q
  <2>1. \A r \in Peers : HalfHolds(peer[r], peer[Other(r)], network[r])
    BY DEF Invariant
  <2>2. HalfHolds(a, b, network[p]) /\ HalfHolds(b, a, network[q])
    BY <1>2, <2>1, Zenon DEF q
  <2> QED BY <1>2, <2>2 DEF Invariant
<1>5. PICK held \in InTransit(network[q], messages) :
        network' = [network EXCEPT ![p] = IF Keeps THEN @ ELSE @ \ received,
                                   ![q] = held]
  BY <1>1 DEF Step
<1>6. peer' = [peer EXCEPT ![p] = t]
  BY <1>1 DEF Step
<1> HIDE DEF q
<1>7. /\ peer' = [r \in Peers |-> peer'[r]] /\ peer'[p] = t /\ peer'[q] = peer[q]
  BY <1>2, <1>4, <1>6
<1>8. /\ network' = [r \in Peers |-> network'[r]]
      /\ network'[q] = held
      /\ network'[p] \subseteq network[p]
  BY <1>2, <1>4, <1>5
<1> HIDE DEF a, b
<1>9. /\ Shape(t) /\ Sound(t.sender) /\ Advances(a.sender, t.sender)
      /\ Gains(a.receiver, t.receiver)
      /\ Link(t.sender, b.receiver) /\ Link(b.sender, t.receiver)
      /\ Speaks(t, messages)
  BY <1>1 DEF Moves
<1>10. HalfHolds(t, b, network'[p])
  BY <1>4, <1>8, <1>9 DEF HalfHolds
<1>11. HalfHolds(b, t, network'[q])
  <2>1. ASSUME NEW m \in held
        PROVE  Carries(t.sender, m.sender) /\ Reports(t.receiver, m.receiver)
    <3>1. CASE m \in network[q]
      <4>1. Carries(a.sender, m.sender) /\ Reports(a.receiver, m.receiver)
        BY <1>4, <3>1 DEF HalfHolds
      <4>2. /\ Consistent(a.sender) /\ Consistent(t.sender)
            /\ Consistent(b.sender) /\ Link(b.sender, a.receiver)
            /\ Follows(a.sender, t.sender)
        BY <1>3, <1>9 DEF Coupled, Sound, Ready, Advances
      <4>3. AckAbs(a.receiver) \in Nat
        BY <4>2, LinkTypes
      <4> QED BY <1>9, <4>1, <4>2, <4>3, CarriesLater, ReportsLater
    <3>2. ASSUME NEW i \in DOMAIN messages, m = messages[i]
          PROVE  Carries(t.sender, m.sender) /\ Reports(t.receiver, m.receiver)
      BY <1>9, <3>2, Zenon DEF Speaks
    <3> QED BY <3>1, <3>2, TransitKeeps
  <2> QED BY <1>4, <1>8, <1>9, <2>1 DEF HalfHolds
<1>12. t.sender.isn = Isn[p]
  BY <1>4, <1>9 DEF Advances, Follows
<1>13. SomeoneLingers'
  <2>1. a.linger \/ b.linger
    BY <1>2, <1>4 DEF SomeoneLingers, a, b
  <2>2. t.linger \/ b.linger
    BY <1>1, <1>3, <1>4, <2>1, OneStillLingers DEF HalfHolds
  <2> QED BY <1>2, <1>7, <2>2 DEF SomeoneLingers, b
<1>14. \A r \in Peers :
         /\ HalfHolds(peer'[r], peer'[Other(r)], network'[r])
         /\ peer'[r].sender.isn = Isn[r]
         /\ peer'[r].sender.input.total_pushed <= MaxBytes[r]
  <2>1. /\ HalfHolds(peer'[p], peer'[Other(p)], network'[p])
        /\ peer'[p].sender.isn = Isn[p]
        /\ peer'[p].sender.input.total_pushed <= MaxBytes[p]
    BY <1>1, <1>7, <1>10, <1>12, Zenon DEF q, b
  <2>2. /\ HalfHolds(peer'[q], peer'[Other(q)], network'[q])
        /\ peer'[q].sender.isn = Isn[q]
        /\ peer'[q].sender.input.total_pushed <= MaxBytes[q]
    BY <1>2, <1>4, <1>7, <1>11, Zenon DEF b
  <2> QED BY <1>2, <2>1, <2>2, Zenon
<1> QED BY <1>7, <1>8, <1>13, <1>14 DEF Invariant

\* Two new peers over an empty network.
LEMMA InitEstablishes ==
  ASSUME ConnectionAssumption, Init
  PROVE  Invariant
<1>1. /\ peer = [p \in Peers |-> NewPeer(Isn[p], SendCapacity, RecvCapacity)]
      /\ network = [p \in Peers |-> {}]
  BY DEF Init
<1>2. ASSUME NEW p \in Peers
      PROVE  /\ Isn[p] \in 0..(MOD - 1) /\ SendCapacity \in Nat /\ RecvCapacity \in Nat
             /\ MaxBytes[p] \in Nat
             /\ peer[p].sender = NewSender(Isn[p], SendCapacity)
             /\ peer[p].receiver = NewReceiver(RecvCapacity)
             /\ peer[p].linger = TRUE
             /\ DOMAIN peer[p] = {"sender", "receiver", "linger", "since_last_receipt"}
             /\ network[p] = {}
  BY <1>1 DEF ConnectionAssumption, NewPeer
<1>3. ASSUME NEW p \in Peers
      PROVE  Shape(peer[p]) /\ Sound(peer[p].sender)
  <2> DEFINE s == NewSender(Isn[p], SendCapacity)
  <2>1. Consistent(s) /\ Honest(s)
    BY <1>2, NewSenderIsConsistent, NewSenderIsHonest
  <2>2. /\ s.outstanding = <<>> /\ ~s.syn_sent
        /\ ~s.input.error /\ ~s.input.closed
    BY DEF NewSender, NewByteStream
  <2> HIDE DEF s
  <2>3. Quiet(s) /\ Awake(s)
    BY <2>2 DEF Quiet, Awake
  <2>4. Sound(s)
    BY <2>1, <2>2, <2>3 DEF Sound, Ready
  <2>5. Shape(peer[p])
    BY <1>2 DEF Shape
  <2> QED BY <1>2, <2>4, <2>5 DEF s
<1>4. ASSUME NEW p \in Peers, NEW q \in Peers
      PROVE  Link(peer[p].sender, peer[q].receiver)
  <2> DEFINE s == peer[p].sender
             r == peer[q].receiver
             x == NewReassembler(RecvCapacity)
  <2>1. s.input.total_popped = 0 /\ s.receiver_ackno = 0
    BY <1>2 DEF NewSender, NewByteStream
  <2>2. r = [reassembler |-> x, isn |-> NoAckno]
    BY <1>2 DEF NewReceiver
  <2>3. ~x.last_seen /\ ~x.output.error
    BY DEF NewReassembler, NewByteStream
  <2>4. Assembled(x, 0, RecvCapacity)
    BY <1>2, NewIsAssembled
  <2> HIDE DEF s, r, x
  <2>5. /\ r.reassembler = x /\ r.isn = NoAckno
        /\ r = [reassembler |-> r.reassembler, isn |-> r.isn]
    BY <2>2
  <2>6. s.receiver_ackno <= Heard(r)
    BY <2>1, <2>5 DEF Heard
  <2>7. Assembled(r.reassembler, s.input.total_popped, RecvCapacity)
    BY <2>1, <2>4, <2>5
  <2>8. Link(s, r)
    BY <2>3, <2>5, <2>6, <2>7 DEF Link
  <2> QED BY <2>8 DEF s, r
<1>5. ASSUME NEW p \in Peers
      PROVE  /\ HalfHolds(peer[p], peer[Other(p)], network[p])
             /\ peer[p].sender.isn = Isn[p]
             /\ peer[p].sender.input.total_pushed <= MaxBytes[p]
  <2>1. Other(p) \in Peers
    BY OtherPeer
  <2>2. HalfHolds(peer[p], peer[Other(p)], network[p])
    BY <1>2, <1>3, <1>4, <2>1 DEF HalfHolds
  <2>3. peer[p].sender.isn = Isn[p] /\ peer[p].sender.input.total_pushed = 0
    BY <1>2 DEF NewSender, NewByteStream
  <2> QED BY <1>2, <2>2, <2>3
<1>6. SomeoneLingers
  <2>1. \E p \in Peers : TRUE
    BY DEF ConnectionAssumption
  <2> QED BY <1>2, <2>1 DEF SomeoneLingers
<1>7. /\ peer = [p \in Peers |-> peer[p]]
      /\ network = [p \in Peers |-> network[p]]
  BY <1>1
<1> QED BY <1>5, <1>6, <1>7 DEF Invariant

\* Every step of either peer or of the network keeps the invariant.
LEMMA StepPreserves ==
  ASSUME ConnectionAssumption, NumbersDoNotWrap, Invariant, [Next]_vars
  PROVE  Invariant'
<1>1. CASE Next
  BY <1>1, NextIsGood, GoodStepPreserves
<1>2. CASE UNCHANGED vars
  <2>1. peer' = peer /\ network' = network
    BY <1>2 DEF vars
  <2> QED BY <2>1, Zenon DEF Invariant, SomeoneLingers
<1> QED BY <1>1, <1>2

-----------------------------------------------------------------------------
(* What the invariant implies.                                              *)

\* A sender with nothing in flight has all it sent acknowledged.
LEMMA NothingInFlight ==
  ASSUME NEW s, Consistent(s), s.bytes_in_flight = 0
  PROVE  s.receiver_ackno = s.next_seqno
<1> DEFINE out == s.outstanding
<1>1. /\ out \in Seq(Segments) /\ s.next_seqno \in Nat
      /\ Contiguous(out, s.next_seqno) /\ Unacked(s)
  BY DEF Consistent, Senders
<1>2. CASE out = <<>>
  BY <1>1, <1>2 DEF Unacked
<1>3. CASE out # <<>>
  <2> DEFINE last == Len(out)
  <2>1. last \in 1..Len(out) /\ 1 \in 1..Len(out)
    BY <1>1, <1>3
  <2>2. out[1].seq_start <= out[last].seq_start
    BY <1>1, <2>1, StartsIncrease
  <2>3. /\ out[1].seq_start \in Nat /\ out[last].seq_start \in Nat /\ out[last].len \in Nat
    BY <1>1, <2>1, FrontTyped
  <2>4. out[last].len > 0 /\ out[last].seq_start + out[last].len = s.next_seqno
    BY <1>1, <1>3, <2>1 DEF Contiguous, SegmentEnd
  <2>5. s.bytes_in_flight = s.next_seqno - out[1].seq_start
    BY <1>1, <1>3 DEF Unacked
  <2> HIDE DEF out, last
  <2>6. \A n, i, j, l \in Nat : ~(0 = n - i /\ i <= j /\ l > 0 /\ j + l = n)
    BY ONLY TRUE
  <2>7. 0 = s.next_seqno - out[1].seq_start
    BY <2>5
  <2> QED BY <1>1, <2>2, <2>3, <2>4, <2>6, <2>7
<1> QED BY <1>2, <1>3

\* What is acknowledged was heard by the receiver, so it was assembled and sent.
LEMMA InvariantAcked ==
  ASSUME ConnectionAssumption, Invariant
  PROVE  AckedIsAssembled
<1> SUFFICES ASSUME NEW p \in Peers
             PROVE  LET s         == peer[p].sender
                        r         == peer[Other(p)].receiver
                        assembled == r.reassembler.output.total_pushed
                                       + (IF r.reassembler.output.closed THEN 2 ELSE 1)
                    IN  IF r.isn = NoAckno
                          THEN s.receiver_ackno = 0
                          ELSE /\ s.receiver_ackno <= assembled
                               /\ assembled <= s.next_seqno
  BY DEF AckedIsAssembled, Inbound
<1> DEFINE s == peer[p].sender
           r == peer[Other(p)].receiver
           pushed == r.reassembler.output.total_pushed
           closed == r.reassembler.output.closed
<1>1. Consistent(s) /\ Link(s, r)
  BY DEF Invariant, HalfHolds, Sound, Ready
<1>2. /\ s.receiver_ackno \in Nat /\ s.receiver_ackno <= Heard(r)
      /\ r.isn # NoAckno => AckAbs(r) <= s.next_seqno
      /\ pushed \in Nat /\ closed \in BOOLEAN
  BY <1>1, SenderTypes, LinkTypes DEF Link
<1>3. AckAbs(r) = pushed + 1 + (IF closed THEN 1 ELSE 0)
  BY DEF AckAbs
<1> HIDE DEF s, r, pushed, closed
<1>4. AckAbs(r) = pushed + (IF closed THEN 2 ELSE 1)
  BY <1>2, <1>3
<1>5. CASE r.isn = NoAckno
  <2>1. Heard(r) = 0
    BY <1>5 DEF Heard
  <2>2. s.receiver_ackno = 0
    BY <1>2, <2>1
  <2> QED BY <1>5, <2>2 DEF s, r
<1>6. CASE r.isn # NoAckno
  <2>1. Heard(r) = AckAbs(r)
    BY <1>6 DEF Heard
  <2> QED BY <1>2, <1>4, <1>6, <2>1 DEF s, r, pushed, closed
<1> QED BY <1>5, <1>6

\* A sender that is awake has something in flight.
LEMMA InvariantAwake ==
  ASSUME Invariant
  PROVE  BacklogHasFlight
BY DEF Invariant, HalfHolds, Sound, Awake, BacklogHasFlight

\* A peer that is done had its last number acknowledged, and its stream read.
LEMMA InvariantClean ==
  ASSUME ConnectionAssumption, Invariant
  PROVE  FinishIsClean
<1> SUFFICES ASSUME NEW p \in Peers, ~Active(peer[p])
             PROVE  LET s == peer[p].sender
                        r == peer[p].receiver
                        other_s == peer[Other(p)].sender
                        other_r == peer[Other(p)].receiver
                    IN  /\ s.fin_sent /\ other_r.reassembler.output.closed
                        /\ other_r.reassembler.output.total_pushed = s.input.total_pushed
                        /\ other_s.fin_sent
                        /\ r.reassembler.output.total_pushed = other_s.input.total_pushed
  BY DEF FinishIsClean, Inbound
<1> DEFINE q == Other(p)
           s == peer[p].sender
           r == peer[p].receiver
           other_s == peer[q].sender
           other_r == peer[q].receiver
<1>1. q \in Peers /\ Other(q) = p
  BY OtherPeer
<1>2. /\ Consistent(s) /\ Awake(s) /\ ~s.input.error /\ (s.input.closed => s.syn_sent)
      /\ Link(s, other_r)
  BY DEF Invariant, HalfHolds, Sound, Ready
<1>3. Consistent(other_s) /\ Link(other_s, r)
  <2> HIDE DEF q
  <2> QED BY <1>1 DEF Invariant, HalfHolds, Sound, Ready
<1> HIDE DEF q
<1>4. /\ ~(s.bytes_in_flight > 0) /\ IsFinished(s.input)
      /\ r.reassembler.output.closed
  BY <1>2, <1>3 DEF Active, Inbound, Link
<1>5. s.fin_sent /\ s.bytes_in_flight = 0
  <2>1. s.bytes_in_flight \in Nat /\ s.input.closed
    BY <1>2, <1>4, SenderTypes DEF IsFinished
  <2> QED BY <1>2, <1>4, <2>1 DEF Awake
<1>6. /\ other_s.fin_sent
      /\ r.reassembler.output.total_pushed = other_s.input.total_pushed
  BY <1>3, <1>4, LinkTypes, SenderTypes
<1>7. s.receiver_ackno = s.next_seqno
  BY <1>2, <1>5, NothingInFlight
<1>8. /\ other_r.reassembler.output.closed
      /\ other_r.reassembler.output.total_pushed = s.input.total_pushed
  <2> DEFINE x == other_r.reassembler.output
  <2>1. /\ s.next_seqno = 2 + s.input.total_popped
        /\ s.input.total_popped \in Nat
        /\ s.input.total_pushed = s.input.total_popped
    BY <1>2, <1>5, SenderTypes
  <2>2. s.next_seqno <= Heard(other_r)
    BY <1>2, <1>7 DEF Link
  <2>3. /\ x.total_pushed \in Nat /\ x.closed \in BOOLEAN
        /\ x.total_pushed <= s.input.total_popped
        /\ x.closed => x.total_pushed = s.input.total_popped
    BY <1>2, LinkTypes
  <2>4. Heard(other_r) = 0 \/ Heard(other_r) = x.total_pushed + 1 + (IF x.closed THEN 1 ELSE 0)
    BY DEF Heard, AckAbs
  <2> HIDE DEF x, s, other_r
  <2>5. x.closed
    BY <2>1, <2>2, <2>3, <2>4
  <2> QED BY <2>1, <2>3, <2>5 DEF x
<1> QED BY <1>5, <1>6, <1>8 DEF q

-----------------------------------------------------------------------------
(* The two directions of the connection as reliable streams.                *)

\* The part of ReliableStream's state that the peer x has as the writer, and
\* (with Delivered) the part that y has as the reader.
Written(x) == peer[x].sender.input.total_pushed
Ended(x) == peer[x].sender.input.closed
Finished(y) == Inbound(peer[y]).closed

\* A step of the stream from x to y, as ReliableStream has it, or none.
Flows(x, y) ==
  \/ UNCHANGED << Written(x), Ended(x), Delivered(y), Finished(y) >>
  \/ /\ ~Ended(x)
     /\ Written(x)' \in Nat /\ Written(x)' > Written(x)
     /\ UNCHANGED << Ended(x), Delivered(y), Finished(y) >>
  \/ /\ Ended(x)' = TRUE
     /\ UNCHANGED << Written(x), Delivered(y), Finished(y) >>
  \/ /\ ~Finished(y)
     /\ Len(Delivered(y)') >= Len(Delivered(y)) /\ Len(Delivered(y)') <= Written(x)
     /\ Delivered(y)' = [k \in 1..Len(Delivered(y)') |-> k]
     /\ Finished(y)' => Ended(x) /\ Len(Delivered(y)') = Written(x)
     /\ UNCHANGED << Written(x), Ended(x) >>

\* What the application of p took and can take, as Delivered has it.
DeliveredBy(p) == [i \in 1..Inbound(p).total_popped |-> i] \o Inbound(p).buffer

\* It is the first bytes of the stream of the sender s.
LEMMA DeliveredInOrder ==
  ASSUME ConnectionAssumption, NEW s, Consistent(s), NEW p, Link(s, p.receiver),
         NEW n, n = Inbound(p).total_pushed
  PROVE  /\ n \in Nat
         /\ DeliveredBy(p) = Substring(0, n)
         /\ Len(DeliveredBy(p)) = n
         /\ DeliveredBy(p) = [k \in 1..n |-> k]
<1> DEFINE x == p.receiver.reassembler
           b == x.output
           popped == b.total_popped
           length == s.input.total_popped
<1>1. /\ length \in Nat /\ RecvCapacity \in Nat /\ Assembled(x, length, RecvCapacity)
  BY LinkTypes
<1>2. InPlace(x, length, RecvCapacity)
  BY <1>1 DEF Assembled
<1>3. /\ popped \in Nat /\ Len(b.buffer) \in Nat /\ b.total_pushed \in Nat
      /\ b.total_pushed = popped + Len(b.buffer)
  BY <1>1, <1>2, InPlaceTypes
<1>4. b.buffer = Substring(popped, Len(b.buffer))
  BY <1>2 DEF InPlace
<1>5. Inbound(p) = b /\ n = b.total_pushed
  BY DEF Inbound
<1> HIDE DEF b, popped
<1>6. \A m \in Nat : [k \in 1..m |-> k] = Substring(0, m)
  BY DEF Substring
<1>7. DeliveredBy(p) = Substring(0, popped) \o Substring(0 + popped, Len(b.buffer))
  <2>1. 0 + popped = popped
    BY <1>3
  <2>2. [i \in 1..popped |-> i] = Substring(0, popped)
    BY <1>3, <1>6
  <2>3. DeliveredBy(p) = [i \in 1..popped |-> i] \o b.buffer
    BY <1>5, Zenon DEF DeliveredBy, popped
  <2> QED BY <1>4, <2>1, <2>2, <2>3, Zenon
<1>8. DeliveredBy(p) = Substring(0, n)
  <2> HIDE DEF b
  <2>1. Substring(0, popped) \o Substring(0 + popped, Len(b.buffer))
          = Substring(0, popped + Len(b.buffer))
    BY <1>3, SubstringJoin, 0 \in Nat, Zenon
  <2> QED BY <1>3, <1>5, <1>7, <2>1, Zenon
<1>9. n \in Nat
  BY <1>3, <1>5
<1>10. Len(Substring(0, n)) = n
  BY <1>9, SubstringBytes, 0 \in Nat
<1> QED BY <1>6, <1>8, <1>9, <1>10, Zenon

\* The reader's part of a step: more of the stream is there, or nothing new.
LEMMA ReaderFlows ==
  ASSUME ConnectionAssumption, NEW s, Consistent(s), NEW p, NEW t,
         Link(s, p.receiver), Link(s, t.receiver), Gains(p.receiver, t.receiver),
         NEW d, d = DeliveredBy(p), NEW e, e = DeliveredBy(t)
  PROVE  \/ e = d /\ Inbound(t).closed = Inbound(p).closed
         \/ /\ ~Inbound(p).closed
            /\ Len(e) >= Len(d) /\ Len(e) <= s.input.total_pushed
            /\ e = [k \in 1..Len(e) |-> k]
            /\ Inbound(t).closed => s.input.closed /\ Len(e) = s.input.total_pushed
<1> DEFINE n == Inbound(p).total_pushed
           m == Inbound(t).total_pushed
           popped == s.input.total_popped
<1>1. /\ n \in Nat /\ d = Substring(0, n) /\ Len(d) = n
      /\ m \in Nat /\ e = Substring(0, m) /\ Len(e) = m
      /\ e = [k \in 1..m |-> k]
  BY DeliveredInOrder
<1>2. /\ Inbound(p).closed \in BOOLEAN /\ Inbound(t).closed \in BOOLEAN
      /\ n <= popped /\ m <= popped
      /\ Inbound(p).closed => n = popped
      /\ Inbound(t).closed => s.fin_sent /\ m = popped
      /\ popped \in Nat
  BY LinkTypes DEF Inbound
<1>3. /\ Inbound(p).closed => Inbound(t).closed
      /\ n + 1 + (IF Inbound(p).closed THEN 1 ELSE 0)
           <= m + 1 + (IF Inbound(t).closed THEN 1 ELSE 0)
  BY DEF Gains, AckAbs, Inbound
<1>4. /\ s.input.total_pushed \in Nat /\ popped <= s.input.total_pushed
      /\ s.fin_sent => s.input.closed /\ s.input.total_pushed = popped
  <2>1. /\ s.input.total_popped \in Nat /\ s.input.total_pushed \in Nat
        /\ Len(s.input.buffer) \in Nat
        /\ s.input.total_pushed = s.input.total_popped + Len(s.input.buffer)
        /\ s.fin_sent => s.input.closed /\ s.input.total_pushed = s.input.total_popped
    BY SenderTypes
  <2>2. \A i, j \in Nat : i <= i + j
    BY ONLY TRUE
  <2> QED BY <2>1, <2>2
<1> HIDE DEF n, m, popped
<1>5. n <= m
  BY <1>1, <1>2, <1>3
<1>6. CASE Inbound(p).closed
  <2>1. Inbound(t).closed = Inbound(p).closed /\ m = n
    BY <1>1, <1>2, <1>3, <1>6
  <2> QED BY <1>1, <2>1
<1>7. CASE ~Inbound(p).closed
  <2>1. Len(e) >= Len(d) /\ Len(e) <= s.input.total_pushed
    BY <1>1, <1>2, <1>4, <1>5
  <2>2. Inbound(t).closed => s.input.closed /\ Len(e) = s.input.total_pushed
    BY <1>1, <1>2, <1>4
  <2> QED BY <1>1, <1>7, <2>1, <2>2, Zenon
<1> QED BY <1>6, <1>7

\* Every step of the connection is, for the stream from x, a step of a
\* reliable stream or none.
LEMMA StepFlows ==
  ASSUME ConnectionAssumption, NumbersDoNotWrap, Invariant, [Next]_vars, NEW x \in Peers
  PROVE  Flows(x, Other(x))
<1> DEFINE y == Other(x)
<1>1. CASE UNCHANGED vars
  <2>1. peer' = peer
    BY <1>1 DEF vars
  <2> QED BY <2>1, Zenon DEF Flows, Written, Ended, Delivered, Finished
<1>2. CASE Next
  <2>1. PICK p \in Peers : GoodStep(p)
    BY <1>2, NextIsGood
  <2>2. PICK received, t, messages :
          /\ Step(p, received, t, messages)
          /\ Moves(peer[p], peer[Other(p)], t, messages)
    BY <2>1 DEF GoodStep
  <2>3. /\ y \in Peers /\ y # x /\ Other(y) = x /\ (p = x \/ p = y)
    BY OtherPeer
  <2>4. /\ peer = [r \in Peers |-> peer[r]]
        /\ peer' = [peer EXCEPT ![p] = t]
    BY <2>2 DEF Step, Invariant
  <2> HIDE DEF y
  <2>5. peer'[p] = t /\ \A r \in Peers : r # p => peer'[r] = peer[r]
    BY <2>4
  <2>6. CASE p = x
    <3>1. peer'[x] = t /\ peer'[y] = peer[y]
      BY <2>3, <2>5, <2>6
    <3>2. UNCHANGED << Delivered(y), Finished(y) >>
      BY <3>1, Zenon DEF Delivered, Finished
    <3>3. Grows(peer[x].sender.input, t.sender.input)
      BY <2>2, <2>6 DEF Moves
    <3>4. /\ Written(x)' = t.sender.input.total_pushed
          /\ Ended(x)' = t.sender.input.closed
      BY <3>1, Zenon DEF Written, Ended
    <3> QED BY <3>2, <3>3, <3>4 DEF Grows, Flows, Written, Ended, y
  <2>7. CASE p = y
    <3> DEFINE s == peer[x].sender
               d == DeliveredBy(peer[y])
               e == DeliveredBy(t)
    <3>1. peer'[y] = t /\ peer'[x] = peer[x]
      BY <2>3, <2>5, <2>7
    <3>2. /\ Written(x)' = Written(x) /\ Ended(x)' = Ended(x)
          /\ Delivered(y)' = e /\ Finished(y)' = Inbound(t).closed
      BY <3>1, Zenon DEF Written, Ended, Delivered, DeliveredBy, Finished
    <3>3. /\ Written(x) = s.input.total_pushed /\ Ended(x) = s.input.closed
          /\ Delivered(y) = d /\ Finished(y) = Inbound(peer[y]).closed
      BY Zenon DEF Written, Ended, Delivered, DeliveredBy, Finished
    <3>4. Consistent(s) /\ Link(s, peer[y].receiver)
      <4>1. Coupled(peer[x], peer[y])
        BY InvariantCouples DEF y
      <4> QED BY <4>1 DEF Coupled, Sound, Ready
    <3>5. Link(s, t.receiver) /\ Gains(peer[y].receiver, t.receiver)
      BY <2>2, <2>3, <2>7 DEF Moves
    <3> HIDE DEF s, d, e
    <3>6. \/ e = d /\ Inbound(t).closed = Inbound(peer[y]).closed
          \/ /\ ~Inbound(peer[y]).closed
             /\ Len(e) >= Len(d) /\ Len(e) <= s.input.total_pushed
             /\ e = [k \in 1..Len(e) |-> k]
             /\ Inbound(t).closed => s.input.closed /\ Len(e) = s.input.total_pushed
      BY <3>4, <3>5, ReaderFlows DEF d, e
    <3> QED BY <3>2, <3>3, <3>6, Zenon DEF Flows, y
  <2> QED BY <2>3, <2>6, <2>7
<1> QED BY <1>1, <1>2

\* What both streams are at the beginning.
LEMMA InitFlows ==
  ASSUME ConnectionAssumption, Init, NEW x \in Peers, NEW y \in Peers
  PROVE  /\ Written(x) = 0 /\ Ended(x) = FALSE
         /\ Delivered(y) = <<>> /\ Finished(y) = FALSE
<1>1. /\ peer[x].sender.input = NewByteStream(SendCapacity)
      /\ Inbound(peer[y]) = NewByteStream(RecvCapacity)
  BY DEF Init, NewPeer, NewSender, NewReceiver, NewReassembler, Inbound
<1>2. Delivered(y) = [i \in 1..0 |-> i] \o <<>>
  BY <1>1 DEF Delivered, NewByteStream
<1>3. [i \in 1..0 |-> i] = <<>>
  OBVIOUS
<1> QED BY <1>1, <1>2, <1>3 DEF Written, Ended, Finished, NewByteStream

-----------------------------------------------------------------------------
(* The theorems.                                                            *)

\* The inductive invariant holds in every reachable state.
THEOREM ConnectionInvariant ==
  ASSUME NumbersDoNotWrap
  PROVE  Spec => []Invariant
<1>1. Init => Invariant
  BY ConnectionAssumption, InitEstablishes
<1>2. Invariant /\ [Next]_vars => Invariant'
  BY ConnectionAssumption, StepPreserves
<1> QED BY <1>1, <1>2, PTL DEF Spec

\* What a sender believes acknowledged was assembled by the other side, and
\* nothing is assembled that was not sent, however late an acknowledgment comes.
THEOREM AcksAreTrue ==
  ASSUME NumbersDoNotWrap
  PROVE  Spec => []AckedIsAssembled
<1>1. Invariant => AckedIsAssembled
  BY ConnectionAssumption, InvariantAcked
<1> QED BY <1>1, ConnectionInvariant, PTL

\* What waits to be sent always has something in flight before it.
THEOREM NoLostWakeUp ==
  ASSUME NumbersDoNotWrap
  PROVE  Spec => []BacklogHasFlight
<1>1. Invariant => BacklogHasFlight
  BY InvariantAwake
<1> QED BY <1>1, ConnectionInvariant, PTL

\* The two ends never both decide not to linger.
THEOREM OneLingers ==
  ASSUME NumbersDoNotWrap
  PROVE  Spec => []SomeoneLingers
<1>1. Invariant => SomeoneLingers
  BY DEF Invariant
<1> QED BY <1>1, ConnectionInvariant, PTL

\* A peer that is done left nothing undelivered in either direction.
THEOREM DoneIsDone ==
  ASSUME NumbersDoNotWrap
  PROVE  Spec => []FinishIsClean
<1>1. Invariant => FinishIsClean
  BY ConnectionAssumption, InvariantClean
<1> QED BY <1>1, ConnectionInvariant, PTL

\* The connection is a reliable byte stream in one direction: whatever the
\* network loses, duplicates and reorders, the reader gets the bytes of the
\* writer, each once and in order, and the end only after the last of them.
THEOREM ForthImplements ==
  ASSUME NumbersDoNotWrap
  PROVE  Spec => ForthIsReliable
<1>1. One \in Peers /\ Two \in Peers /\ Two = Other(One)
  <2>1. \E p \in Peers : TRUE
    BY ConnectionAssumption DEF ConnectionAssumption
  <2>2. One \in Peers
    BY <2>1 DEF One
  <2> QED BY <2>2, ConnectionAssumption, OtherPeer DEF Two
<1>2. Init => Forth!StreamInit
  BY <1>1, ConnectionAssumption, InitFlows
     DEF Forth!StreamInit, Written, Ended, Finished
<1>3. Invariant /\ [Next]_vars => [Forth!StreamNext]_(Forth!streamVars)
  <2> SUFFICES ASSUME Invariant, [Next]_vars
               PROVE  [Forth!StreamNext]_(Forth!streamVars)
    OBVIOUS
  <2>1. Flows(One, Two)
    BY <1>1, ConnectionAssumption, StepFlows
  <2> QED BY <2>1
          DEF Flows, Written, Ended, Finished, Forth!streamVars, Forth!StreamNext,
              Forth!WriteBytes, Forth!EndStream, Forth!DeliverBytes
<1> QED BY <1>2, <1>3, ConnectionInvariant, PTL
        DEF Spec, ForthIsReliable, Forth!StreamSpec

\* ... and in the other direction.
THEOREM BackImplements ==
  ASSUME NumbersDoNotWrap
  PROVE  Spec => BackIsReliable
<1>1. One \in Peers /\ Two \in Peers /\ One = Other(Two)
  <2>1. \E p \in Peers : TRUE
    BY ConnectionAssumption DEF ConnectionAssumption
  <2>2. One \in Peers
    BY <2>1 DEF One
  <2> QED BY <2>2, ConnectionAssumption, OtherPeer DEF Two
<1>2. Init => Back!StreamInit
  BY <1>1, ConnectionAssumption, InitFlows
     DEF Back!StreamInit, Written, Ended, Finished
<1>3. Invariant /\ [Next]_vars => [Back!StreamNext]_(Back!streamVars)
  <2> SUFFICES ASSUME Invariant, [Next]_vars
               PROVE  [Back!StreamNext]_(Back!streamVars)
    OBVIOUS
  <2>1. Flows(Two, One)
    BY <1>1, ConnectionAssumption, StepFlows
  <2> QED BY <2>1
          DEF Flows, Written, Ended, Finished, Back!streamVars, Back!StreamNext,
              Back!WriteBytes, Back!EndStream, Back!DeliverBytes
<1> QED BY <1>2, <1>3, ConnectionInvariant, PTL
        DEF Spec, BackIsReliable, Back!StreamSpec

=============================================================================
