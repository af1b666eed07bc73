-------------------------- MODULE ReassemblerLoops --------------------------
(* insert() with its two loops as the code writes them, one chunk at a      *)
(* time, compared with the closed forms of Reassembler.tla in every state   *)
(* that ReassemblerSystem reaches.                                          *)
EXTENDS ReassemblerSystem, FiniteSets

MapErase(m, i) == [j \in DOMAIN m \ {i} |-> m[j]]
MapStore(m, i, data) == [j \in DOMAIN m \union {i} |-> IF j = i THEN data ELSE m[j]]

\* string::substr(pos) of data from pos to its end.
Substr(data, pos) == SubSeq(data, pos + 1, Len(data))

\* The merge with the chunk before `first`, if that one reaches it.
MergePrevious(m, first, data) ==
  LET before == {i \in DOMAIN m : i < first}
      prev   == CHOOSE i \in before : \A j \in before : j <= i
  IN  IF before = {} \/ ChunkEnd(m, prev) < first
        THEN << m, first, data >>
        ELSE LET overlap == ChunkEnd(m, prev) - first
             IN  << MapErase(m, prev), prev,
                    m[prev] \o Substr(data, overlap) >>

\* One turn of the while loop that walks `it` forward.  t is where the loop is:
\* the map, the chunk, and the first index that `it` may have.
Ahead(t) == {i \in DOMAIN t.map : i >= t.from}

MergesMore(t) == \E i \in Ahead(t) : i <= t.first + Len(t.data)

MergeTurn(t) ==
  LET it      == CHOOSE i \in Ahead(t) : \A j \in Ahead(t) : i <= j
      overlap == t.first + Len(t.data) - it
  IN  IF MergesMore(t)
        THEN [t EXCEPT !.map = MapErase(@, it), !.from = it + 1,
                       !.data = @ \o Substr(t.map[it], overlap)]
        ELSE t

\* A loop that erases a chunk in each turn has no more turns than chunks.
Merged(m, first, data, from) ==
  LET turns[n \in 0..Cardinality(DOMAIN m)] ==
        IF n = 0 THEN [map |-> m, first |-> first, data |-> data, from |-> from]
        ELSE MergeTurn(turns[n - 1])
  IN  turns[Cardinality(DOMAIN m)]

MergeLoop(m, first, data) ==
  LET previous == MergePrevious(m, first, data)
      merged   == Merged(previous[1], previous[2], previous[3], first)
  IN  MapStore(merged.map, merged.first, merged.data)

FlushTurn(r) ==
  IF r.next_index \notin DOMAIN r.pending THEN r
  ELSE LET chunk == r.pending[r.next_index]
       IN  [r EXCEPT !.output = WriterPush(@, chunk),
                     !.next_index = @ + Len(chunk),
                     !.pending = MapErase(@, r.next_index)]

FlushLoop(r) ==
  LET turns[n \in 0..Cardinality(DOMAIN r.pending)] ==
        IF n = 0 THEN r ELSE FlushTurn(turns[n - 1])
  IN  turns[Cardinality(DOMAIN r.pending)]

\* Storing a trimmed substring and flushing, in one go, do what the loops do.
StoreAndFlushIsTheLoops ==
  \A first \in reassembler.next_index..(StreamLength - 1) :
    \A n \in 1..(StreamLength - first) :
      first + n <= StreamLimit(reassembler) =>
        LET data == Substring(first, n)
        IN  StoreAndFlush(reassembler, first, data) =
              CloseIfAllWritten(FlushLoop(
                [reassembler EXCEPT !.pending = MergeLoop(@, first, data)]))
=============================================================================
