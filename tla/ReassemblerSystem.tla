------------------------- MODULE ReassemblerSystem --------------------------
(* A Reassembler fed with the substrings of one stream, in any order, with  *)
(* any overlap and any number of times, while a reader drains the output.   *)
(* As in TCPReceiver, a substring is the last one only if it reaches the    *)
(* end of the stream; one that reaches the end need not carry the flag.     *)
EXTENDS Reassembler

CONSTANTS
  StreamLength,   \* bytes in the stream
  Capacity        \* of the output

ASSUME StreamAssumption ==
  /\ StreamLength \in Nat
  /\ Capacity \in Nat
  /\ UINT64_MAX \in Nat /\ UINT64_MAX > StreamLength

VARIABLE reassembler

vars == << reassembler >>

Init == reassembler = NewReassembler(Capacity)

InsertSubstring(first, n, is_last) ==
  /\ is_last => first + n = StreamLength
  /\ reassembler' = Insert(reassembler, first, Substring(first, n), is_last)

ReadBytes(n) ==
  /\ n <= Len(reassembler.output.buffer)
  /\ reassembler' = [reassembler EXCEPT !.output = ReaderPop(@, n)]

Next ==
  \/ \E first \in 0..StreamLength : \E n \in 0..(StreamLength - first) :
       \E is_last \in BOOLEAN : InsertSubstring(first, n, is_last)
  \/ \E n \in 1..Capacity : ReadBytes(n)

Spec == Init /\ [][Next]_vars

-----------------------------------------------------------------------------
pending == reassembler.pending
output == reassembler.output

\* Whatever arrived in whatever order, each byte is in its place: the reader
\* sees a prefix of the stream, and every stored chunk is a substring of it.
BytesInPlace ==
  /\ output.buffer = Substring(output.total_popped, Len(output.buffer))
  /\ output.total_pushed = output.total_popped + Len(output.buffer)
  /\ reassembler.next_index = output.total_pushed
  /\ \A i \in DOMAIN pending : pending[i] = Substring(i, Len(pending[i]))

\* Chunks are kept merged: none is empty, none touches another, and a gap
\* separates the first from the output, so that nothing that could be written
\* is held back.  With the bytes in the output they fit in the capacity: every
\* stored byte has room in the output once the gaps are filled.
PendingIsMerged ==
  \A i \in DOMAIN pending :
    /\ pending[i] # <<>>
    /\ i > reassembler.next_index
    /\ \A j \in DOMAIN pending : i < j => ChunkEnd(pending, i) < j
    /\ ChunkEnd(pending, i) <= output.total_popped + Capacity

\* The bytes stored or written.
Known ==
  {i \in 0..(StreamLength - 1) :
     \/ i < reassembler.next_index
     \/ \E c \in DOMAIN pending : c <= i /\ i < ChunkEnd(pending, c)}

Promise == INSTANCE ReassemblySpec WITH
  known <- Known, written <- output.total_pushed, read <- output.total_popped,
  ended <- reassembler.last_seen, closed <- output.closed

\* Refinement: the chunks, trims and merges implement the promise.
KeepsItsPromise == Promise!SafetySpec
=============================================================================
