----------------------------- MODULE ByteStream -----------------------------
(* The flow-controlled byte stream between a Writer and a Reader            *)
(* (src/src/byte_stream.cc), as operators on one record so that the TCP     *)
(* sender, the reassembler and the applications can each own one.           *)
(* The code copies bytes and never looks at them: the k-th byte of a stream *)
(* is k, so that a byte out of place is seen.                               *)
EXTENDS Naturals, Sequences

Least(a, b) == IF a <= b THEN a ELSE b

NewByteStream(cap) ==
  [capacity |-> cap, error |-> FALSE, buffer |-> <<>>,
   total_pushed |-> 0, total_popped |-> 0, closed |-> FALSE]

Byte == Nat

\* The n bytes of a stream that follow its first `first` ones.
Substring(first, n) == [k \in 1..n |-> first + k]

ByteStreams ==
  [capacity : Nat, error : BOOLEAN, buffer : Seq(Byte),
   total_pushed : Nat, total_popped : Nat, closed : BOOLEAN]

\* Writer
AvailableCapacity(b) == b.capacity - Len(b.buffer)

WriterPush(b, data) ==
  LET n == Least(AvailableCapacity(b), Len(data))
  IN  [b EXCEPT !.buffer = @ \o SubSeq(data, 1, n), !.total_pushed = @ + n]

WriterClose(b) == [b EXCEPT !.closed = TRUE]

SetError(b) == [b EXCEPT !.error = TRUE]

\* Reader
Peek(b, len) == SubSeq(b.buffer, 1, Least(len, Len(b.buffer)))

\* Mutant of ReaderPop: the popped bytes are counted but stay.
ReaderPopKeeps(b, len) ==
  [b EXCEPT !.total_popped = @ + Least(len, Len(b.buffer))]

ReaderPop(b, len) ==
  LET n == Least(len, Len(b.buffer))
  IN  [b EXCEPT !.buffer = SubSeq(@, n + 1, Len(@)), !.total_popped = @ + n]

IsFinished(b) == b.closed /\ b.buffer = <<>>

\* What every reachable stream satisfies, on its own.
StreamOk(b) ==
  /\ Len(b.buffer) <= b.capacity
  /\ b.total_pushed = b.total_popped + Len(b.buffer)
=============================================================================
