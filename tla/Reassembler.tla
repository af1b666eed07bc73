---------------------------- MODULE Reassembler -----------------------------
(* Reassembly of out-of-order, overlapping substrings into a ByteStream     *)
(* (src/src/reassembler.cc, .hh), as operators on one record with the       *)
(* members of the class.  `pending` is the std::map: a function from the    *)
(* index of a stored chunk to the chunk.  The merge and flush loops are in  *)
(* closed form; ReassemblerLoops.tla has them literally and compares.       *)
EXTENDS ByteStream, Integers

CONSTANT UINT64_MAX   \* last_index_ before the end of the stream is known

NewReassembler(capacity) ==
  [output |-> NewByteStream(capacity), pending |-> << >>,
   next_index |-> 0, last_index |-> UINT64_MAX, last_seen |-> FALSE]

Most(a, b) == IF a >= b THEN a ELSE b

ChunkEnd(pending, i) == i + Len(pending[i])

AllWritten(r) == r.last_seen /\ r.next_index = r.last_index

CloseIfAllWritten(r) ==
  IF AllWritten(r) THEN [r EXCEPT !.output = WriterClose(@)] ELSE r

\* first_index + data.size() is a uint64_t.
MarkLast(r, first, data, is_last) ==
  IF is_last
    THEN [r EXCEPT !.last_seen = TRUE,
                   !.last_index = (first + Len(data)) % (UINT64_MAX + 1)]
    ELSE r

\* The first index that does not fit in the output.
StreamLimit(r) == r.next_index + AvailableCapacity(r.output)

\* Mutants of Previous and Following: the chunk before is not merged, and the
\* one that starts right at the end is not.
PreviousNever(pending, first) == {}

FollowingInside(pending, first, end) ==
  {i \in DOMAIN pending : first <= i /\ i < end}

\* Stored chunks that touch or overlap the chunk at first..end-1: the one
\* before it that reaches first, and those that start inside it or at its end.
Previous(pending, first) ==
  {i \in DOMAIN pending : /\ i < first
                          /\ ChunkEnd(pending, i) >= first
                          /\ \A j \in DOMAIN pending : j < first => j <= i}

Following(pending, first, end) == {i \in DOMAIN pending : first <= i /\ i <= end}

\* Mutant of StoreMerged: the chunk is stored as it is.
StoreUnmerged(pending, first, data) ==
  [i \in DOMAIN pending \union {first} |-> IF i = first THEN data ELSE pending[i]]

\* The bytes of a chunk that is already stored win over those that arrive.
StoreMerged(pending, first, data) ==
  LET end    == first + Len(data)
      before == Previous(pending, first)
      after  == Following(pending, first, end)
      taken  == before \union after
      start  == IF before = {} THEN first ELSE CHOOSE i \in before : TRUE
      stop   == CHOOSE e \in {end} \union {ChunkEnd(pending, i) : i \in taken} :
                  e >= end /\ \A i \in taken : e >= ChunkEnd(pending, i)
      old(p) == {i \in before : p < ChunkEnd(pending, i)}
      new(p) == {i \in after : i <= p /\ p < ChunkEnd(pending, i)}
      byte(p) == IF old(p) # {} THEN pending[start][p - start + 1]
                 ELSE IF p < end THEN data[p - first + 1]
                 ELSE LET i == CHOOSE i \in new(p) : TRUE
                      IN  pending[i][p - i + 1]
  IN  [i \in (DOMAIN pending \ taken) \union {start} |->
         IF i = start THEN [k \in 1..(stop - start) |-> byte(start + k - 1)]
         ELSE pending[i]]

\* The chunk at next_index, if there is one, goes to the output.
Flush(r) ==
  IF r.next_index \notin DOMAIN r.pending THEN r
  ELSE LET chunk == r.pending[r.next_index]
       IN  [r EXCEPT
             !.output = WriterPush(@, chunk),
             !.next_index = @ + Len(chunk),
             !.pending = [i \in DOMAIN @ \ {r.next_index} |-> @[i]]]

\* Mutant of Trimmed: the bytes already written are not cut off.
TrimmedRight(r, first, data) ==
  SubSeq(data, 1, Least(first + Len(data), StreamLimit(r)) - first)

\* What is kept of data at first after the left and the right trim.
Trimmed(r, first, data) ==
  SubSeq(data, Most(first, r.next_index) - first + 1,
         Least(first + Len(data), StreamLimit(r)) - first)

StoreAndFlush(r, first, data) ==
  CloseIfAllWritten(Flush([r EXCEPT !.pending = StoreMerged(@, first, data)]))

Insert(r, first, data, is_last) ==
  LET marked == MarkLast(r, first, data, is_last)
      from   == Most(first, r.next_index)
      kept   == Trimmed(r, first, data)
  IN  IF AllWritten(marked) THEN CloseIfAllWritten(marked)
      ELSE IF from >= Least(first + Len(data), StreamLimit(r)) THEN marked
      ELSE StoreAndFlush(marked, from, kept)
=============================================================================
