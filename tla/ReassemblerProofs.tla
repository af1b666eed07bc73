------------------------- MODULE ReassemblerProofs --------------------------
(* Proofs about ReassemblerSystem: for every stream, capacity and order of  *)
(* arrival, the bytes end up in their place, the stored chunks stay merged, *)
(* and the reassembler does what ReassemblySpec promises.                   *)
EXTENDS ReassemblerLoops, TransportLemmas, FiniteSetTheorems

-----------------------------------------------------------------------------
\* The inductive invariant.
Invariant == Assembled(reassembler, StreamLength, Capacity)

\* A new reassembler.
LEMMA InitEstablishes == Init => Invariant
BY StreamAssumption, NewIsAssembled DEF Init, Invariant

\* What a substring adds.
LEMMA InsertAdds ==
  ASSUME Invariant, NEW first \in 0..StreamLength, NEW n \in 0..(StreamLength - first),
         NEW is_last \in BOOLEAN, InsertSubstring(first, n, is_last)
  PROVE  /\ Invariant'
         /\ output'.total_popped = output.total_popped
         /\ reassembler'.last_seen <=> reassembler.last_seen \/ is_last
         /\ reassembler'.next_index >= reassembler.next_index
         /\ \A x \in Nat : Has(reassembler', x) <=>
              \/ Has(reassembler, x)
              \/ first <= x /\ x < first + n /\ x < output.total_popped + Capacity
<1> DEFINE r == reassembler
           t == reassembler'
<1>1. /\ StreamLength \in Nat /\ Capacity \in Nat /\ UINT64_MAX \in Nat
      /\ StreamLength <= UINT64_MAX
      /\ first \in Nat /\ n \in Nat /\ first + n <= StreamLength
  BY StreamAssumption
<1>2. /\ is_last => first + n = StreamLength
      /\ t = Insert(r, first, Substring(first, n), is_last)
  BY DEF InsertSubstring
<1>3. Assembled(r, StreamLength, Capacity)
  BY DEF Invariant
<1> HIDE DEF r, t
<1>4. Inserted(t, r, first, n, is_last, StreamLength, Capacity)
  BY <1>1, <1>2, <1>3, InsertKeeps
<1> QED BY <1>4 DEF r, t, Invariant, output, Inserted

\* What the reader takes.
LEMMA ReadTakes ==
  ASSUME Invariant, NEW n \in 1..Capacity, ReadBytes(n)
  PROVE  /\ Invariant'
         /\ output'.total_popped = output.total_popped + n
         /\ output'.total_pushed = output.total_pushed /\ output'.closed = output.closed
         /\ pending' = pending /\ reassembler'.next_index = reassembler.next_index
         /\ reassembler'.last_seen = reassembler.last_seen
<1> DEFINE r == reassembler
           t == reassembler'
<1>1. /\ StreamLength \in Nat /\ Capacity \in Nat /\ n \in Nat
      /\ n <= Len(r.output.buffer)
      /\ t = [r EXCEPT !.output = ReaderPop(r.output, n)]
  BY StreamAssumption DEF ReadBytes, output
<1>2. Assembled(r, StreamLength, Capacity)
  BY DEF Invariant
<1> HIDE DEF r, t
<1>3. Popped(t, r, n, StreamLength, Capacity)
  BY <1>1, <1>2, PopKeepsAssembled
<1> QED BY <1>3 DEF r, t, Invariant, output, pending, Popped

\* A substring arrives, or the reader pops.
LEMMA StepPreserves == Invariant /\ [Next]_vars => Invariant'
<1> SUFFICES ASSUME Invariant, [Next]_vars
             PROVE  Invariant'
  OBVIOUS
<1>1. CASE UNCHANGED vars
  BY <1>1 DEF vars, Invariant
<1>2. ASSUME NEW first \in 0..StreamLength, NEW n \in 0..(StreamLength - first),
             NEW is_last \in BOOLEAN, InsertSubstring(first, n, is_last)
      PROVE  Invariant'
  BY <1>2, InsertAdds
<1>3. ASSUME NEW n \in 1..Capacity, ReadBytes(n)
      PROVE  Invariant'
  BY <1>3, ReadTakes
<1> QED BY <1>1, <1>2, <1>3 DEF Next

-----------------------------------------------------------------------------
(* The loops of insert().  The map that they leave and the one of the       *)
(* closed form hold merged chunks and cover the same indices, and a merged  *)
(* map is known by what it covers.                                          *)

\* A chunk of one map is in another that covers the same, and is no longer there.
LEMMA SameChunk ==
  ASSUME NEW p, NEW q, NEW low \in Nat, NEW limit \in Nat,
         Chunks(p, low, limit), Chunks(q, low, limit),
         \A x \in Nat : Covered(p, x) <=> Covered(q, x),
         NEW i \in DOMAIN p
  PROVE  i \in DOMAIN q /\ ChunkEnd(q, i) <= ChunkEnd(p, i)
<1>1. \A j \in DOMAIN p : /\ j \in Nat /\ ChunkEnd(p, j) \in Nat /\ j < ChunkEnd(p, j)
                          /\ \A k \in DOMAIN p : j < k => ChunkEnd(p, j) < k
  BY ChunkBytes
<1>2. \A j \in DOMAIN q : j \in Nat /\ ChunkEnd(q, j) \in Nat
  BY ChunkBytes
<1>3. PICK c \in DOMAIN q : c <= i /\ i < ChunkEnd(q, c)
  <2>1. i \in Nat /\ Covered(p, i)
    BY <1>1 DEF Covered
  <2> QED BY <2>1 DEF Covered
<1>4. c = i
  <2> SUFFICES ASSUME c # i PROVE FALSE
    OBVIOUS
  <2>1. i - 1 \in Nat /\ c <= i - 1 /\ i - 1 < ChunkEnd(q, c)
    BY <1>1, <1>2, <1>3
  <2>2. Covered(p, i - 1)
    BY <2>1 DEF Covered
  <2>3. PICK d \in DOMAIN p : d <= i - 1 /\ i - 1 < ChunkEnd(p, d)
    BY <2>2 DEF Covered
  <2> QED BY <1>1, <2>3
<1>5. ~(ChunkEnd(p, i) < ChunkEnd(q, i))
  <2> SUFFICES ASSUME ChunkEnd(p, i) < ChunkEnd(q, i) PROVE FALSE
    OBVIOUS
  <2> DEFINE e == ChunkEnd(p, i)
  <2>1. e \in Nat /\ i <= e /\ e < ChunkEnd(q, i) /\ i \in DOMAIN q
    BY <1>1, <1>4
  <2>2. Covered(p, e)
    BY <2>1 DEF Covered
  <2>3. PICK d \in DOMAIN p : d <= e /\ e < ChunkEnd(p, d)
    BY <2>2 DEF Covered
  <2> QED BY <1>1, <2>3
<1> QED BY <1>1, <1>2, <1>4, <1>5

\* Merged maps that cover the same indices are the same.
LEMMA CoverageDecides ==
  ASSUME NEW p, NEW q, NEW low \in Nat, NEW limit \in Nat,
         Chunks(p, low, limit), Chunks(q, low, limit),
         \A x \in Nat : Covered(p, x) <=> Covered(q, x)
  PROVE  p = q
<1>1. \A i \in DOMAIN p : i \in DOMAIN q /\ ChunkEnd(q, i) <= ChunkEnd(p, i)
  BY SameChunk
<1>2. \A i \in DOMAIN q : i \in DOMAIN p /\ ChunkEnd(p, i) <= ChunkEnd(q, i)
  BY SameChunk
<1>3. ASSUME NEW i \in DOMAIN p
      PROVE  p[i] = q[i]
  <2>1. /\ i \in DOMAIN q /\ ChunkEnd(p, i) \in Nat /\ ChunkEnd(q, i) \in Nat
        /\ Len(p[i]) = ChunkEnd(p, i) - i /\ Len(q[i]) = ChunkEnd(q, i) - i
    <3>1. i \in DOMAIN q
      BY <1>1
    <3>2. ChunkEnd(p, i) \in Nat /\ Len(p[i]) = ChunkEnd(p, i) - i
      BY ChunkBytes
    <3>3. ChunkEnd(q, i) \in Nat /\ Len(q[i]) = ChunkEnd(q, i) - i
      BY <3>1, ChunkBytes
    <3> QED BY <3>1, <3>2, <3>3
  <2>2. ChunkEnd(p, i) = ChunkEnd(q, i)
    BY <1>1, <1>2, <2>1
  <2>3. p[i] = Substring(i, Len(p[i])) /\ q[i] = Substring(i, Len(q[i]))
    BY <2>1 DEF Chunks
  <2>4. Len(p[i]) = Len(q[i])
    BY <2>1, <2>2
  <2> QED BY <2>3, <2>4
<1>4. DOMAIN p = DOMAIN q
  BY <1>1, <1>2
<1>5. p = [i \in DOMAIN p |-> p[i]] /\ q = [i \in DOMAIN q |-> q[i]]
  BY DEF Chunks
<1> QED BY <1>3, <1>4, <1>5

\* u is m without its chunk i.
Erased(u, m, i, low, limit) ==
  /\ Chunks(u, low, limit)
  /\ DOMAIN u = DOMAIN m \ {i}
  /\ \A j \in DOMAIN u : ChunkEnd(u, j) = ChunkEnd(m, j)
  /\ \A x \in Nat : Covered(m, x) <=>
       Covered(u, x) \/ (i <= x /\ x < ChunkEnd(m, i))

\* Erasing a chunk leaves the others merged.
LEMMA EraseKeeps ==
  ASSUME NEW m, NEW low \in Nat, NEW limit \in Nat, Chunks(m, low, limit),
         NEW i \in DOMAIN m, NEW u, u = MapErase(m, i)
  PROVE  Erased(u, m, i, low, limit)
<1>1. /\ DOMAIN u = DOMAIN m \ {i} /\ u = [j \in DOMAIN u |-> u[j]]
      /\ \A j \in DOMAIN u : u[j] = m[j]
  BY DEF MapErase
<1>2. \A j \in DOMAIN u : j \in DOMAIN m /\ ChunkEnd(u, j) = ChunkEnd(m, j)
  BY <1>1 DEF ChunkEnd
<1>3. Chunks(u, low, limit)
  BY <1>1, <1>2 DEF Chunks
<1>4. ASSUME NEW x \in Nat
      PROVE  Covered(m, x) <=> Covered(u, x) \/ (i <= x /\ x < ChunkEnd(m, i))
  BY <1>1, <1>2 DEF Covered
<1> QED BY <1>1, <1>2, <1>3, <1>4 DEF Erased

\* The n bytes at i, from `overlap` on, after the k bytes at f.
Overlapped(f, k, i, n, overlap) ==
  Substring(f, k) \o Substr(Substring(i, n), overlap)

\* d is the stream from f to the end of the longer of the two.
Joined(d, f, k, i, n, top) ==
  /\ d = Substring(f, top - f)
  /\ d \in Seq(Byte) /\ Len(d) = top - f
  /\ top \in Nat /\ f + k <= top /\ i + n <= top
  /\ top = f + k \/ top = i + n

\* Appending what a chunk has beyond the end of another that it touches.
LEMMA JoinOverlapping ==
  ASSUME NEW f \in Nat, NEW k \in Nat, NEW i \in Nat, NEW n \in Nat,
         f <= i, i <= f + k, NEW top, top = Most(f + k, i + n),
         NEW overlap, overlap = f + k - i,
         NEW d, d = Overlapped(f, k, i, n, overlap)
  PROVE  Joined(d, f, k, i, n, top)
<1> DEFINE whole == Substring(f, k)
           other == Substring(i, n)
           rest  == Substr(other, overlap)
<1>1. /\ top \in Nat /\ f + k <= top /\ i + n <= top
      /\ top = f + k \/ top = i + n
      /\ overlap \in Nat /\ f + k \in Nat
  BY DEF Most
<1>2. whole \in Seq(Byte) /\ Len(whole) = k /\ other \in Seq(Byte) /\ Len(other) = n
  BY SubstringBytes
<1> HIDE DEF whole, other, rest
<1>3. CASE f + k <= i + n
  <2> DEFINE m == overlap + 1
             size == i + n - (f + k)
  <2>1. /\ m \in Nat \ {0} /\ m <= n + 1 /\ f + k = i + m - 1 /\ size = n - m + 1
        /\ size \in Nat /\ k + size = top - f
    BY <1>1, <1>3
  <2>2. rest = Part(other, m, n)
    BY <1>2 DEF Substr, Part, rest
  <2> HIDE DEF m, size
  <2>3. rest = Substring(f + k, size)
    <3> DEFINE middle == f + k
    <3>1. /\ m \in Nat \ {0} /\ m <= n + 1 /\ n <= n
          /\ middle = i + m - 1 /\ size = n - m + 1
      BY <2>1
    <3> HIDE DEF middle
    <3>2. Part(Substring(i, n), m, n) = Substring(middle, size)
      BY <3>1, SubstringPart
    <3> QED BY <2>2, <3>2 DEF other, middle
  <2>4. Substring(f, k) \o Substring(f + k, size) = Substring(f, k + size)
    <3>1. size \in Nat
      BY <2>1
    <3> QED BY <3>1, SubstringJoin, Zenon
  <2>5. d = Substring(f, top - f)
    <3>1. d = Substring(f, k) \o rest
      BY Zenon DEF rest, other, Overlapped
    <3> QED BY <2>1, <2>3, <2>4, <3>1
  <2>6. top - f \in Nat
    BY <2>1
  <2> QED BY <1>1, <2>5, <2>6, SubstringBytes DEF Joined
<1>4. CASE ~(f + k <= i + n)
  <2>1. top = f + k /\ top - f = k /\ overlap + 1 > n
    BY <1>1, <1>4
  <2>2. rest = <<>>
    BY <1>1, <1>2, <2>1 DEF Substr, rest
  <2>3. d = Substring(f, top - f)
    <3>1. d = whole \o rest
      BY Zenon DEF rest, whole, other, Overlapped
    <3>2. d = whole
      BY <1>2, <2>2, <3>1
    <3> QED BY <2>1, <3>2 DEF whole
  <2>4. top - f \in Nat
    BY <2>1
  <2> QED BY <1>1, <2>3, <2>4, SubstringBytes DEF Joined
<1> QED BY <1>3, <1>4
\* The maps that hold some of the chunks of p, and the states of the merge loop
\* over them.
PartsOf(p) == {[i \in S |-> p[i]] : S \in SUBSET DOMAIN p}

MergeTurns(p) == [map : PartsOf(p), first : Nat, data : Seq(Byte), from : Nat]

\* In the merge loop: the chunk at hand and the map that is left hold the bytes
\* of p and of first..end-1, and no chunk that the loop has passed touches the
\* chunk at hand.
Merging(t, p, first, end, low, limit) ==
  /\ t \in MergeTurns(p)
  /\ Chunks(t.map, low, limit)
  /\ low <= t.first /\ t.first <= t.from
  /\ Len(t.data) # 0 /\ t.data = Substring(t.first, Len(t.data))
  /\ t.first + Len(t.data) <= limit
  /\ \A i \in DOMAIN t.map : ChunkEnd(t.map, i) < t.first \/ t.from <= i
  /\ \A x \in Nat :
       Covered(t.map, x) \/ (t.first <= x /\ x < t.first + Len(t.data)) <=>
         Covered(p, x) \/ (first <= x /\ x < end)

\* A map that holds chunks of p without one of them.
LEMMA EraseFromParts ==
  ASSUME NEW p, NEW m \in PartsOf(p), NEW i
  PROVE  MapErase(m, i) \in PartsOf(p)
<1>1. PICK S \in SUBSET DOMAIN p : m = [j \in S |-> p[j]]
  BY DEF PartsOf
<1>2. MapErase(m, i) = [j \in S \ {i} |-> p[j]]
  BY <1>1 DEF MapErase
<1>3. S \ {i} \in SUBSET DOMAIN p
  OBVIOUS
<1> QED BY <1>2, <1>3 DEF PartsOf

\* The merge with the chunk before is where the loop starts.
LEMMA MergingStarts ==
  ASSUME NEW p, NEW low \in Nat, NEW limit \in Nat, Chunks(p, low, limit),
         NEW first \in Nat, low <= first, NEW n \in Nat \ {0}, first + n <= limit,
         NEW previous, previous = MergePrevious(p, first, Substring(first, n)),
         NEW t, t = [map |-> previous[1], first |-> previous[2],
                     data |-> previous[3], from |-> first]
  PROVE  Merging(t, p, first, first + n, low, limit)
<1> DEFINE data   == Substring(first, n)
           before == {i \in DOMAIN p : i < first}
           prev   == CHOOSE i \in before : \A j \in before : j <= i
<1>1. data \in Seq(Byte) /\ Len(data) = n
  BY SubstringBytes
<1>2. \A i \in DOMAIN p : /\ i \in Nat /\ low <= i
                          /\ ChunkEnd(p, i) \in Nat /\ i < ChunkEnd(p, i)
                          /\ ChunkEnd(p, i) <= limit
                          /\ \A j \in DOMAIN p : i < j => ChunkEnd(p, i) < j
  BY ChunkBytes
<1>3. p \in PartsOf(p)
  <2>1. p = [i \in DOMAIN p |-> p[i]] /\ DOMAIN p \in SUBSET DOMAIN p
    BY DEF Chunks
  <2> QED BY <2>1 DEF PartsOf
<1>4. before # {} =>
        prev \in DOMAIN p /\ prev < first /\ \A j \in DOMAIN p : j < first => j <= prev
  <2> SUFFICES ASSUME before # {}
               PROVE  prev \in DOMAIN p /\ prev < first
                      /\ \A j \in DOMAIN p : j < first => j <= prev
    OBVIOUS
  <2> DEFINE Last(i) == \A j \in before : j <= i
  <2>1. \E i \in before : Last(i)
    <3>1. before \subseteq Nat /\ \A i \in before : i <= first
      BY <1>2
    <3>2. \A i, j \in Nat : i >= j => j <= i
      OBVIOUS
    <3>3. PICK m \in before : \A j \in before : m >= j
      <4> HIDE DEF before
      <4> QED BY <3>1, GreatestNumber, Zenon
    <3> QED BY <3>1, <3>2, <3>3
  <2>2. prev = CHOOSE i \in before : Last(i)
    OBVIOUS
  <2> HIDE DEF Last, prev
  <2>3. prev \in before /\ Last(prev)
    BY <2>1, <2>2, Zenon
  <2> QED BY <2>3 DEF Last
<1>5. CASE before = {} \/ ChunkEnd(p, prev) < first
  <2>1. previous = << p, first, data >>
    BY <1>5, Zenon DEF MergePrevious
  <2> HIDE DEF data, prev
  <2>2. t = [map |-> p, first |-> first, data |-> data, from |-> first]
    BY <2>1
  <2>3. t.map = p /\ t.first = first /\ t.data = data /\ t.from = first
    BY <2>2
  <2>4. t \in MergeTurns(p)
    BY <1>1, <1>3, <2>2 DEF MergeTurns
  <2>5. ASSUME NEW i \in DOMAIN p
        PROVE  ChunkEnd(p, i) < first \/ first <= i
    <3>1. CASE before = {}
      BY <1>2, <3>1
    <3>2. CASE before # {} /\ i < first
      <4>1. prev \in DOMAIN p /\ prev < first /\ i <= prev /\ ChunkEnd(p, prev) < first
        BY <1>4, <1>5, <3>2
      <4> QED BY <1>2, <4>1
    <3>3. CASE ~(i < first)
      BY <1>2, <3>3
    <3> QED BY <3>1, <3>2, <3>3
  <2>6. first <= first /\ Len(data) = n /\ data = Substring(first, Len(data)) /\ Len(data) # 0
    BY <1>1 DEF data
  <2> QED BY <2>3, <2>4, <2>5, <2>6 DEF Merging
<1>6. CASE before # {} /\ ~(ChunkEnd(p, prev) < first)
  <2> DEFINE overlap == ChunkEnd(p, prev) - first
             left    == MapErase(p, prev)
             joined  == p[prev] \o Substr(data, overlap)
             top     == Most(ChunkEnd(p, prev), first + n)
  <2>1. previous = << left, prev, joined >>
    BY <1>6, Zenon DEF MergePrevious
  <2>2. /\ prev \in DOMAIN p /\ prev < first /\ prev \in Nat /\ low <= prev
        /\ first <= ChunkEnd(p, prev) /\ ChunkEnd(p, prev) \in Nat
        /\ ChunkEnd(p, prev) <= limit
        /\ \A j \in DOMAIN p : j < first => j <= prev
    BY <1>2, <1>4, <1>6
  <2> HIDE DEF before, prev, left
  <2>3. joined = Overlapped(prev, Len(p[prev]), first, n, overlap)
    <3>1. p[prev] = Substring(prev, Len(p[prev]))
      BY <2>2 DEF Chunks
    <3> QED BY <3>1, Zenon DEF Overlapped
  <2> HIDE DEF joined
  <2>4. /\ joined = Substring(prev, top - prev)
        /\ joined \in Seq(Byte) /\ Len(joined) = top - prev
        /\ top \in Nat /\ ChunkEnd(p, prev) <= top /\ first + n <= top /\ top <= limit
        /\ top = ChunkEnd(p, prev) \/ top = first + n
    <3> DEFINE k == Len(p[prev])
               size == ChunkEnd(p, prev)
    <3>1. /\ k \in Nat /\ prev + k = size /\ prev <= first /\ first <= prev + k
          /\ overlap = prev + k - first
      <4>1. k = size - prev
        BY <2>2, ChunkBytes
      <4> HIDE DEF k, size
      <4> QED BY <1>2, <2>2, <4>1 DEF size, overlap
    <3>2. top = Most(prev + k, first + n)
      BY <3>1
    <3>3. joined = Overlapped(prev, k, first, n, overlap)
      BY <2>3
    <3> HIDE DEF k, size, top, overlap
    <3>4. Joined(joined, prev, k, first, n, top)
      <4>1. /\ prev \in Nat /\ k \in Nat /\ first \in Nat /\ n \in Nat
            /\ prev <= first /\ first <= prev + k
        BY <2>2, <3>1
      <4>2. overlap = prev + k - first
        BY <3>1
      <4> QED BY <4>1, <4>2, <3>2, <3>3, JoinOverlapping, Zenon
    <3> QED BY <2>2, <3>1, <3>4 DEF size, Joined
  <2> HIDE DEF top, overlap
  <2>5. /\ Chunks(left, low, limit) /\ DOMAIN left = DOMAIN p \ {prev}
        /\ \A j \in DOMAIN left : ChunkEnd(left, j) = ChunkEnd(p, j)
        /\ \A x \in Nat : Covered(p, x) <=>
             Covered(left, x) \/ (prev <= x /\ x < ChunkEnd(p, prev))
    <3>1. left = MapErase(p, prev) /\ prev \in DOMAIN p
      BY <2>2 DEF left
    <3>2. Erased(left, p, prev, low, limit)
      BY <3>1, EraseKeeps, Zenon
    <3> QED BY <3>2 DEF Erased
  <2>6. left \in PartsOf(p)
    BY <1>3, EraseFromParts DEF left
  <2>7. t = [map |-> left, first |-> prev, data |-> joined, from |-> first]
    BY <2>1
  <2>8. t.map = left /\ t.first = prev /\ t.data = joined /\ t.from = first
    BY <2>7
  <2>9. t \in MergeTurns(p)
    BY <2>2, <2>4, <2>6, <2>7 DEF MergeTurns
  <2>10. ASSUME NEW i \in DOMAIN left
         PROVE  ChunkEnd(left, i) < prev \/ first <= i
    <3>1. i \in DOMAIN p /\ i # prev /\ i \in Nat /\ ChunkEnd(left, i) = ChunkEnd(p, i)
      BY <1>2, <2>5
    <3> QED BY <1>2, <2>2, <3>1
  <2>11. ASSUME NEW x \in Nat
         PROVE  Covered(left, x) \/ (prev <= x /\ x < prev + Len(joined)) <=>
                  Covered(p, x) \/ (first <= x /\ x < first + n)
    <3>1. prev + Len(joined) = top
      BY <2>2, <2>4
    <3>2. (prev <= x /\ x < top) <=>
            (prev <= x /\ x < ChunkEnd(p, prev)) \/ (first <= x /\ x < first + n)
      BY <2>2, <2>4
    <3> QED BY <2>5, <3>1, <3>2
  <2>12. /\ prev <= first /\ prev + Len(joined) <= limit
         /\ Len(joined) # 0 /\ joined = Substring(prev, Len(joined))
    BY <2>2, <2>4
  <2> QED BY <2>2, <2>5, <2>8, <2>9, <2>10, <2>11, <2>12 DEF Merging
<1> QED BY <1>5, <1>6

\* What a turn makes of t: it stays in the loop's states, and either it erases
\* a chunk or nothing is left to merge and it changes nothing.
TurnMerges(u, t) ==
  IF MergesMore(t) THEN \E i \in DOMAIN t.map : DOMAIN u.map = DOMAIN t.map \ {i}
  ELSE u = t

\* A turn of the merge loop.
LEMMA MergeTurnKeeps ==
  ASSUME NEW p, NEW low \in Nat, NEW limit \in Nat, NEW first \in Nat, NEW end \in Nat,
         NEW t, Merging(t, p, first, end, low, limit),
         NEW u, u = MergeTurn(t)
  PROVE  Merging(u, p, first, end, low, limit) /\ TurnMerges(u, t)
<1> DEFINE m    == t.map
           f    == t.first
           k    == Len(t.data)
           it   == CHOOSE i \in Ahead(t) : \A j \in Ahead(t) : i <= j
           gone == MapErase(m, it)
           more == t.data \o Substr(m[it], f + k - it)
           top  == Most(f + k, ChunkEnd(m, it))
<1>1. /\ t \in MergeTurns(p) /\ m \in PartsOf(p) /\ f \in Nat /\ t.from \in Nat
      /\ Chunks(m, low, limit) /\ low <= f /\ f <= t.from
      /\ t.data = Substring(f, k) /\ k \in Nat /\ f + k <= limit /\ k # 0
      /\ \A i \in DOMAIN m : ChunkEnd(m, i) < f \/ t.from <= i
      /\ \A x \in Nat :
           Covered(m, x) \/ (f <= x /\ x < f + k) <=>
             Covered(p, x) \/ (first <= x /\ x < end)
  BY DEF Merging, MergeTurns
<1>2. \A i \in DOMAIN m : /\ i \in Nat /\ low <= i
                          /\ ChunkEnd(m, i) \in Nat /\ i < ChunkEnd(m, i)
                          /\ ChunkEnd(m, i) <= limit
                          /\ \A j \in DOMAIN m : i < j => ChunkEnd(m, i) < j
  BY <1>1, ChunkBytes
<1>3. CASE ~MergesMore(t)
  BY <1>3 DEF MergeTurn, TurnMerges
<1>4. CASE MergesMore(t)
  <2>1. /\ it \in DOMAIN m /\ it >= t.from /\ it <= f + k
        /\ \A j \in DOMAIN m : j >= t.from => it <= j
    <3> DEFINE First(i) == \A j \in Ahead(t) : i <= j
    <3>1. /\ \A j : j \in Ahead(t) <=> j \in DOMAIN m /\ j >= t.from
          /\ Ahead(t) \subseteq Nat /\ Ahead(t) # {}
          /\ \E j \in Ahead(t) : j <= f + k
      BY <1>2, <1>4 DEF Ahead, MergesMore
    <3>2. \E i \in Ahead(t) : First(i)
      BY <3>1, LeastNumber
    <3>3. it = CHOOSE i \in Ahead(t) : First(i)
      OBVIOUS
    <3> HIDE DEF First, it, m, f, k
    <3>4. it \in Ahead(t) /\ First(it)
      BY <3>2, <3>3, Zenon
    <3>5. \A j \in Ahead(t) : it <= j
      BY <3>4 DEF First
    <3>6. it <= f + k
      <4>1. PICK j \in Ahead(t) : j <= f + k
        BY <3>1
      <4>2. it <= j /\ it \in Nat /\ j \in Nat
        BY <3>1, <3>4, <3>5, <4>1
      <4> QED BY <1>1, <4>1, <4>2
    <3> QED BY <3>1, <3>4, <3>5, <3>6
  <2>2. u = [t EXCEPT !.map = gone, !.from = it + 1, !.data = more]
    BY <1>4, Zenon DEF MergeTurn
  <2> HIDE DEF it, gone, m, f, k
  <2>3. Joined(more, f, k, it, Len(m[it]), top)
    <3>1. m[it] = Substring(it, Len(m[it]))
      BY <1>1, <2>1 DEF Chunks
    <3> DEFINE n == Len(m[it])
               overlap == f + k - it
    <3>2. n \in Nat /\ it \in Nat /\ f <= it /\ it <= f + k /\ n = ChunkEnd(m, it) - it
      <4>1. n \in Nat /\ n = ChunkEnd(m, it) - it
        BY <1>1, <2>1, ChunkBytes
      <4> HIDE DEF n
      <4> QED BY <1>1, <1>2, <2>1, <4>1
    <3>3. more = Overlapped(f, k, it, n, overlap)
      BY <1>1, <3>1, Zenon DEF Overlapped
    <3>4. top = Most(f + k, it + n)
      <4>1. it + n = ChunkEnd(m, it)
        BY DEF ChunkEnd
      <4> QED BY <4>1
    <3> HIDE DEF more, top, n
    <3>5. f \in Nat /\ k \in Nat
      BY <1>1
    <3>6. Joined(more, f, k, it, n, top)
      BY <3>2, <3>3, <3>4, <3>5, JoinOverlapping, Zenon
    <3> QED BY <3>6 DEF n
  <2>4. /\ more = Substring(f, top - f)
        /\ more \in Seq(Byte) /\ Len(more) = top - f
        /\ top \in Nat /\ f + k <= top /\ ChunkEnd(m, it) <= top /\ top <= limit
        /\ top = f + k \/ top = ChunkEnd(m, it)
    <3>1. it + Len(m[it]) = ChunkEnd(m, it)
      BY DEF ChunkEnd
    <3>2. ChunkEnd(m, it) <= limit
      BY <1>2, <2>1
    <3> HIDE DEF more, top
    <3> QED BY <1>1, <2>3, <3>1, <3>2 DEF Joined
  <2> DEFINE size == Len(more)
  <2> HIDE DEF more, top, size
  <2>5. /\ size = top - f /\ top \in Nat /\ f + k <= top /\ ChunkEnd(m, it) <= top
        /\ top <= limit /\ (top = f + k \/ top = ChunkEnd(m, it))
    BY <2>4 DEF size
  <2>6. /\ it \in Nat /\ f <= it /\ it <= f + k /\ it < ChunkEnd(m, it)
        /\ ChunkEnd(m, it) \in Nat /\ f \in Nat /\ k \in Nat /\ k # 0
    BY <1>1, <1>2, <2>1
  <2>7. Erased(gone, m, it, low, limit)
    BY <1>1, <2>1, EraseKeeps DEF gone
  <2>8. gone \in PartsOf(p)
    BY <1>1, EraseFromParts DEF gone
  <2>9. /\ u.map = gone /\ u.first = f /\ u.data = more /\ u.from = it + 1
        /\ u \in MergeTurns(p)
    <3>1. it + 1 \in Nat
      BY <1>2, <2>1
    <3> QED BY <1>1, <2>2, <2>4, <2>8, <3>1 DEF MergeTurns, f
  <2>10. /\ DOMAIN gone = DOMAIN m \ {it} /\ Chunks(gone, low, limit)
         /\ \A j \in DOMAIN gone : ChunkEnd(gone, j) = ChunkEnd(m, j)
         /\ \A x \in Nat : Covered(m, x) <=>
              Covered(gone, x) \/ (it <= x /\ x < ChunkEnd(m, it))
    BY <2>7 DEF Erased
  <2>11. ASSUME NEW i \in DOMAIN gone
         PROVE  ChunkEnd(gone, i) < f \/ it + 1 <= i
    <3>1. i \in DOMAIN m /\ i # it /\ ChunkEnd(gone, i) = ChunkEnd(m, i)
      BY <2>10
    <3>2. CASE ChunkEnd(m, i) < f
      BY <3>1, <3>2
    <3>3. CASE t.from <= i
      BY <1>1, <1>2, <2>1, <3>1, <3>3
    <3> QED BY <1>1, <3>1, <3>2, <3>3
  <2>12. ASSUME NEW x \in Nat
         PROVE  Covered(gone, x) \/ (f <= x /\ x < f + size) <=>
                  Covered(p, x) \/ (first <= x /\ x < end)
    <3>1. f + size = top
      BY <2>5, <2>6
    <3>2. (f <= x /\ x < top) <=>
            (f <= x /\ x < f + k) \/ (it <= x /\ x < ChunkEnd(m, it))
      BY <2>5, <2>6
    <3>3. Covered(m, x) \/ (f <= x /\ x < f + k) <=>
            Covered(p, x) \/ (first <= x /\ x < end)
      BY <1>1
    <3>4. Covered(m, x) <=> Covered(gone, x) \/ (it <= x /\ x < ChunkEnd(m, it))
      BY <2>10
    <3> QED BY <3>1, <3>2, <3>3, <3>4
  <2>13. /\ f <= it + 1 /\ f + size <= limit /\ size # 0 /\ more = Substring(f, size)
    BY <2>4, <2>5, <2>6
  <2>14. Merging(u, p, first, end, low, limit)
    BY <1>1, <2>9, <2>10, <2>11, <2>12, <2>13 DEF Merging, size
  <2>15. TurnMerges(u, t)
    BY <1>4, <2>1, <2>9, <2>10 DEF TurnMerges, m
  <2> QED BY <2>14, <2>15
<1> QED BY <1>3, <1>4

\* Storing the chunk at hand when nothing is left to merge.
LEMMA MergedIsStored ==
  ASSUME NEW p, NEW low \in Nat, NEW limit \in Nat, NEW first \in Nat, NEW end \in Nat,
         NEW t, Merging(t, p, first, end, low, limit), ~MergesMore(t),
         NEW q, q = MapStore(t.map, t.first, t.data)
  PROVE  /\ Chunks(q, low, limit)
         /\ \A x \in Nat : Covered(q, x) <=> Covered(p, x) \/ (first <= x /\ x < end)
<1> DEFINE m == t.map
           f == t.first
           k == Len(t.data)
<1>1. /\ f \in Nat /\ Chunks(m, low, limit) /\ low <= f
      /\ t.data = Substring(f, k) /\ k \in Nat \ {0} /\ f + k <= limit
      /\ \A i \in DOMAIN m : ChunkEnd(m, i) < f \/ t.from <= i
      /\ \A x \in Nat :
           Covered(m, x) \/ (f <= x /\ x < f + k) <=>
             Covered(p, x) \/ (first <= x /\ x < end)
  BY DEF Merging, MergeTurns
<1>2. \A i \in DOMAIN m : /\ i \in Nat /\ low <= i
                          /\ ChunkEnd(m, i) \in Nat /\ i < ChunkEnd(m, i)
                          /\ ChunkEnd(m, i) <= limit
                          /\ \A j \in DOMAIN m : i < j => ChunkEnd(m, i) < j
  BY <1>1, ChunkBytes
<1>3. \A i \in DOMAIN m : ChunkEnd(m, i) < f \/ f + k < i
  <2>1. \A i \in DOMAIN m : t.from <= i => ~(i <= f + k)
    <3>1. t.from \in Nat
      BY DEF Merging, MergeTurns
    <3> QED BY <1>2, <3>1 DEF MergesMore, Ahead
  <2> HIDE DEF m, f, k
  <2> QED BY <1>1, <1>2, <2>1
<1>4. /\ DOMAIN q = DOMAIN m \union {f} /\ q = [i \in DOMAIN q |-> q[i]]
      /\ q[f] = t.data /\ \A i \in DOMAIN m : i # f => q[i] = m[i]
  BY DEF MapStore
<1> HIDE DEF m, f, k
<1>5. \A i \in DOMAIN m : i # f
  BY <1>1, <1>2, <1>3
<1>6. ChunkEnd(q, f) = f + k /\ \A i \in DOMAIN m : ChunkEnd(q, i) = ChunkEnd(m, i)
  BY <1>4, <1>5 DEF ChunkEnd, k
<1>7. ASSUME NEW i \in DOMAIN q
      PROVE  /\ i \in Nat /\ low <= i /\ ChunkEnd(q, i) <= limit
             /\ \A j \in DOMAIN q : i < j => ChunkEnd(q, i) < j
  <2>1. CASE i = f
    BY <1>1, <1>2, <1>3, <1>4, <1>6, <2>1
  <2>2. CASE i # f
    <3>1. i \in DOMAIN m /\ ChunkEnd(q, i) = ChunkEnd(m, i)
      BY <1>4, <1>6, <2>2
    <3> QED BY <1>1, <1>2, <1>3, <1>4, <3>1
  <2> QED BY <2>1, <2>2
<1>8. ASSUME NEW i \in DOMAIN q
      PROVE  Len(q[i]) \in Nat \ {0} /\ q[i] = Substring(i, Len(q[i]))
  <2>1. CASE i = f
    BY <1>1, <1>4, <2>1 DEF k
  <2>2. CASE i # f
    <3>1. i \in DOMAIN m /\ q[i] = m[i]
      BY <1>4, <2>2
    <3> QED BY <1>1, <3>1 DEF Chunks
  <2> QED BY <2>1, <2>2
<1>9. Chunks(q, low, limit)
  <2>1. DOMAIN q \subseteq Nat
    BY <1>7
  <2> QED BY <1>4, <1>7, <1>8, <2>1 DEF Chunks
<1>10. ASSUME NEW x \in Nat
       PROVE  Covered(q, x) <=> Covered(m, x) \/ (f <= x /\ x < f + k)
  BY <1>4, <1>6 DEF Covered
<1> QED BY <1>1, <1>9, <1>10

\* The number of chunks that are left bounds the turns that are left.
InTurns(t, done, most) ==
  MergesMore(t) => IsFiniteSet(DOMAIN t.map) /\ Cardinality(DOMAIN t.map) + done <= most

\* One turn fewer.
LEMMA OneTurnFewer ==
  ASSUME NEW t, NEW u, TurnMerges(u, t), NEW done \in Nat, NEW most \in Nat,
         InTurns(t, done, most)
  PROVE  InTurns(u, done + 1, most)
<1>1. CASE ~MergesMore(t)
  BY <1>1 DEF TurnMerges, InTurns
<1>2. CASE MergesMore(t)
  <2> DEFINE S == DOMAIN t.map
  <2>1. IsFiniteSet(S) /\ Cardinality(S) + done <= most
    BY <1>2 DEF InTurns
  <2>2. PICK i \in S : DOMAIN u.map = S \ {i}
    BY <1>2 DEF TurnMerges
  <2> HIDE DEF S
  <2>3. IsFiniteSet(S \ {i}) /\ Cardinality(S \ {i}) = Cardinality(S) - 1
    BY <2>1, <2>2, FS_RemoveElement
  <2>4. Cardinality(S) \in Nat
    BY <2>1, FS_CardinalityType
  <2>5. IsFiniteSet(DOMAIN u.map) /\ Cardinality(DOMAIN u.map) + (done + 1) <= most
    BY <2>1, <2>2, <2>3, <2>4
  <2> QED BY <2>5 DEF InTurns
<1> QED BY <1>1, <1>2

\* The loop ends where nothing is left to merge.
LEMMA LoopMerges ==
  ASSUME NEW p, NEW low \in Nat, NEW limit \in Nat, NEW first \in Nat, NEW end \in Nat,
         NEW base, Merging(base, p, first, end, low, limit),
         NEW t, t = Merged(base.map, base.first, base.data, base.from)
  PROVE  Merging(t, p, first, end, low, limit) /\ ~MergesMore(t)
<1> DEFINE n    == Cardinality(DOMAIN base.map)
           Is(u) == Merging(u, p, first, end, low, limit)
           V    == {u \in MergeTurns(p) : Is(u)}
           P    == (1..n) \X V
           step == [x \in P |-> MergeTurn(x[2])]
           g    == CHOOSE g : g = [i \in 0..n |->
                     IF i = 0 THEN base ELSE MergeTurn(g[i - 1])]
<1>1. base \in V /\ base = [map |-> base.map, first |-> base.first,
                            data |-> base.data, from |-> base.from]
  BY DEF Merging, MergeTurns
<1>2. IsFiniteSet(DOMAIN base.map) /\ n \in Nat
  <2>1. DOMAIN base.map \subseteq 0..limit
    <3>1. Chunks(base.map, low, limit)
      BY DEF Merging
    <3>2. \A i \in DOMAIN base.map : i \in Nat /\ ChunkEnd(base.map, i) \in Nat
             /\ i < ChunkEnd(base.map, i) /\ ChunkEnd(base.map, i) <= limit
      BY <3>1, ChunkBytes
    <3> QED BY <3>2
  <2>2. IsFiniteSet(0..limit)
    BY FS_Interval
  <2>3. IsFiniteSet(DOMAIN base.map)
    BY <2>1, <2>2, FS_Subset
  <2> QED BY <2>3, FS_CardinalityType
<1>3. ASSUME NEW u \in V
      PROVE  MergeTurn(u) \in V /\ TurnMerges(MergeTurn(u), u)
  <2>1. Merging(MergeTurn(u), p, first, end, low, limit) /\ TurnMerges(MergeTurn(u), u)
    BY MergeTurnKeeps
  <2>2. MergeTurn(u) \in MergeTurns(p)
    BY <2>1 DEF Merging
  <2> QED BY <2>1, <2>2
<1> HIDE DEF n, V
<1>4. Closed(n, V, step)
  <2>1. ASSUME NEW i \in 1..n, NEW u \in V
        PROVE  step[<<i, u>>] \in V
    <3>1. <<i, u>> \in P /\ <<i, u>>[2] = u
      OBVIOUS
    <3>2. step[<<i, u>>] = MergeTurn(u)
      BY <3>1
    <3> QED BY <1>3, <3>2
  <2> HIDE DEF step
  <2> QED BY <2>1, Zenon DEF Closed
<1>5. PICK h \in [0..n -> V] : Iterates(h, n, base, step)
  BY <1>1, <1>2, <1>4, Recursion, Zenon
<1>6. /\ h[0] = base
      /\ \A i \in 1..n : h[i] = MergeTurn(h[i - 1])
  <2>1. ASSUME NEW i \in 1..n
        PROVE  step[<<i, h[i - 1]>>] = MergeTurn(h[i - 1])
    <3>1. i - 1 \in 0..n
      BY <1>2
    <3>2. h[i - 1] \in V
      BY <1>5, <3>1
    <3>3. <<i, h[i - 1]>> \in P /\ <<i, h[i - 1]>>[2] = h[i - 1]
      BY <3>2
    <3> QED BY <3>3
  <2> HIDE DEF step
  <2> QED BY <1>5, <2>1 DEF Iterates
<1>7. h = [i \in 0..n |-> IF i = 0 THEN base ELSE MergeTurn(h[i - 1])]
  <2>1. \A i \in 0..n : i # 0 => i \in 1..n
    BY <1>2
  <2>2. \A i \in 0..n : h[i] = IF i = 0 THEN base ELSE MergeTurn(h[i - 1])
    BY <1>6, <2>1
  <2> QED BY <1>5, <2>2
<1>8. g = [i \in 0..n |-> IF i = 0 THEN base ELSE MergeTurn(g[i - 1])]
  BY <1>7, Zenon
<1> HIDE DEF g
<1>9. g[0] = base /\ \A i \in 1..n : g[i] = MergeTurn(g[i - 1])
  <2>1. 0 \in 0..n /\ \A i \in 1..n : i \in 0..n /\ i # 0
    BY <1>2
  <2>2. g[0] = base
    BY <1>8, <2>1
  <2>3. ASSUME NEW i \in 1..n
        PROVE  g[i] = MergeTurn(g[i - 1])
    BY <1>8, <2>1
  <2> QED BY <2>2, <2>3
<1>10. t = g[n]
  BY <1>1, Zenon DEF Merged, n, g
<1> DEFINE Q == {i \in 0..n : g[i] \in V /\ InTurns(g[i], i, n)}
<1>11. 0 \in Q
  <2>1. InTurns(base, 0, n)
    BY <1>2 DEF InTurns, n
  <2>2. 0 \in 0..n
    BY <1>2
  <2> QED BY <1>1, <1>9, <2>1, <2>2
<1>12. ASSUME NEW i \in 1..n, i - 1 \in Q
       PROVE  i \in Q
  <2>1. /\ g[i - 1] \in V /\ InTurns(g[i - 1], i - 1, n) /\ g[i] = MergeTurn(g[i - 1])
        /\ i - 1 \in Nat /\ (i - 1) + 1 = i /\ i \in 0..n
    BY <1>2, <1>9, <1>12
  <2>2. g[i] \in V /\ TurnMerges(g[i], g[i - 1])
    BY <1>3, <2>1
  <2>3. InTurns(g[i], (i - 1) + 1, n)
    BY <1>2, <2>1, <2>2, OneTurnFewer
  <2> QED BY <2>1, <2>2, <2>3
<1>13. n \in Q
  <2> HIDE DEF Q
  <2>1. \A i \in 0..n : i \in Q
    BY <1>2, <1>11, <1>12, InductionUpTo
  <2> QED BY <1>2, <2>1
<1>14. t \in V /\ InTurns(t, n, n)
  BY <1>10, <1>13
<1>15. ~MergesMore(t)
  <2> SUFFICES ASSUME MergesMore(t) PROVE FALSE
    OBVIOUS
  <2> DEFINE S == DOMAIN t.map
  <2>1. IsFiniteSet(S) /\ Cardinality(S) + n <= n
    BY <1>14 DEF InTurns
  <2>2. S # {}
    BY DEF MergesMore, Ahead
  <2> HIDE DEF S
  <2>3. Cardinality(S) \in Nat /\ (Cardinality(S) = 0 <=> S = {})
    BY <2>1, FS_CardinalityType, FS_EmptySet
  <2> QED BY <1>2, <2>1, <2>2, <2>3
<1> QED BY <1>14, <1>15 DEF V

\* What the loops store is what the closed form stores.
LEMMA MergeLoopIsStoreMerged ==
  ASSUME NEW p, NEW low \in Nat, NEW limit \in Nat, Chunks(p, low, limit),
         NEW first \in Nat, low <= first, NEW n \in Nat \ {0}, first + n <= limit
  PROVE  MergeLoop(p, first, Substring(first, n)) = StoreMerged(p, first, Substring(first, n))
<1> DEFINE data     == Substring(first, n)
           previous == MergePrevious(p, first, data)
           base     == [map |-> previous[1], first |-> previous[2],
                        data |-> previous[3], from |-> first]
           t        == Merged(base.map, base.first, base.data, base.from)
           q        == MapStore(t.map, t.first, t.data)
           stored   == StoreMerged(p, first, data)
<1>1. first + n \in Nat
  OBVIOUS
<1>2. Merging(base, p, first, first + n, low, limit)
  BY MergingStarts
<1>3. MergeLoop(p, first, data) = q
  BY DEF MergeLoop
<1> HIDE DEF base
<1>4. Merging(t, p, first, first + n, low, limit) /\ ~MergesMore(t)
  BY <1>1, <1>2, LoopMerges
<1> HIDE DEF t
<1>5. /\ Chunks(q, low, limit)
      /\ \A x \in Nat : Covered(q, x) <=> Covered(p, x) \/ (first <= x /\ x < first + n)
  BY <1>1, <1>4, MergedIsStored
<1>6. /\ Chunks(stored, low, limit)
      /\ \A x \in Nat : Covered(stored, x) <=> Covered(p, x) \/ (first <= x /\ x < first + n)
  BY StoreMergedKeeps
<1> HIDE DEF q, stored
<1>7. q = stored
  BY <1>5, <1>6, CoverageDecides
<1> QED BY <1>3, <1>7 DEF data, stored

\* The flush loop takes one turn, for nothing is adjacent to what it takes.
LEMMA FlushLoopIsFlush ==
  ASSUME NEW r,
         r = [output |-> r.output, pending |-> r.pending, next_index |-> r.next_index,
              last_index |-> r.last_index, last_seen |-> r.last_seen],
         r.next_index \in Nat, NEW limit \in Nat,
         Chunks(r.pending, r.next_index, limit)
  PROVE  FlushLoop(r) = Flush(r)
<1> DEFINE m    == r.pending
           next == r.next_index
           n    == Cardinality(DOMAIN m)
           s    == Flush(r)
           f    == [i \in 0..n |-> IF i = 0 THEN r ELSE s]
           g    == CHOOSE g : g = [i \in 0..n |-> IF i = 0 THEN r ELSE FlushTurn(g[i - 1])]
<1>1. \A i \in DOMAIN m : /\ i \in Nat /\ next <= i
                          /\ ChunkEnd(m, i) \in Nat /\ i < ChunkEnd(m, i)
                          /\ ChunkEnd(m, i) <= limit
                          /\ \A j \in DOMAIN m : i < j => ChunkEnd(m, i) < j
  BY ChunkBytes
<1>2. IsFiniteSet(DOMAIN m) /\ n \in Nat
  <2>1. DOMAIN m \subseteq 0..limit
    BY <1>1
  <2>2. IsFiniteSet(0..limit)
    BY FS_Interval
  <2>3. IsFiniteSet(DOMAIN m)
    BY <2>1, <2>2, FS_Subset
  <2> QED BY <2>3, FS_CardinalityType
<1>3. FlushTurn(r) = s
  BY Zenon DEF FlushTurn, Flush, MapErase
<1>4. FlushTurn(s) = s
  <2>1. CASE next \notin DOMAIN m
    BY <1>3, <2>1 DEF Flush
  <2>2. CASE next \in DOMAIN m
    <3> DEFINE chunk == m[next]
               out   == WriterPush(r.output, chunk)
               rest  == [i \in DOMAIN m \ {next} |-> m[i]]
    <3>1. s = [r EXCEPT !.output = out, !.next_index = next + Len(chunk), !.pending = rest]
      BY <2>2, Zenon DEF Flush
    <3> HIDE DEF out
    <3>2. next + Len(chunk) = ChunkEnd(m, next)
      BY DEF ChunkEnd
    <3>3. s.next_index = ChunkEnd(m, next) /\ s.pending = rest
      <4> HIDE DEF s, m, next, chunk, rest
      <4> QED BY <3>1, <3>2
    <3>4. DOMAIN rest = DOMAIN m \ {next}
      OBVIOUS
    <3> HIDE DEF rest, s, m, next
    <3>5. ChunkEnd(m, next) \notin DOMAIN m
      BY <1>1, <2>2
    <3>6. s.next_index \notin DOMAIN s.pending
      BY <3>3, <3>4, <3>5
    <3> QED BY <3>6 DEF FlushTurn
  <2> QED BY <2>1, <2>2
<1>5. n = 0 => s = r
  <2>1. n = 0 => DOMAIN m = {}
    BY <1>2, FS_EmptySet
  <2> QED BY <2>1 DEF Flush
<1> HIDE DEF n, s
<1>6. f = [i \in 0..n |-> IF i = 0 THEN r ELSE FlushTurn(f[i - 1])]
  <2>1. ASSUME NEW i \in 0..n
        PROVE  f[i] = IF i = 0 THEN r ELSE FlushTurn(f[i - 1])
    <3>1. CASE i = 0
      BY <3>1
    <3>2. CASE i # 0
      <4>1. i - 1 \in 0..n
        BY <1>2, <3>2
      <4>2. f[i - 1] = r \/ f[i - 1] = s
        BY <4>1
      <4>3. f[i] = s
        BY <3>2
      <4> HIDE DEF f
      <4> QED BY <1>3, <1>4, <3>2, <4>2, <4>3
    <3> QED BY <3>1, <3>2
  <2> QED BY <2>1
<1>7. g = [i \in 0..n |-> IF i = 0 THEN r ELSE FlushTurn(g[i - 1])]
  <2> HIDE DEF f
  <2> QED BY <1>6, Zenon
<1> DEFINE Q == {i \in 0..n : g[i] = IF i = 0 THEN r ELSE s}
<1> HIDE DEF g, f
<1>8. 0 \in Q
  BY <1>2, <1>7
<1>9. ASSUME NEW i \in 1..n, i - 1 \in Q
      PROVE  i \in Q
  <2>1. i \in 0..n /\ i # 0 /\ (g[i - 1] = r \/ g[i - 1] = s)
    BY <1>2, <1>9
  <2>2. g[i] = FlushTurn(g[i - 1])
    BY <1>7, <2>1
  <2>3. g[i] = s
    BY <1>3, <1>4, <2>1, <2>2
  <2> QED BY <2>1, <2>3
<1>10. g[n] = s
  <2>1. n \in Q
    <3> HIDE DEF Q
    <3>1. \A i \in 0..n : i \in Q
      BY <1>2, <1>8, <1>9, InductionUpTo
    <3> QED BY <1>2, <3>1
  <2> QED BY <1>5, <2>1
<1>11. FlushLoop(r) = g[n]
  BY Zenon DEF FlushLoop, n, g
<1> QED BY <1>10, <1>11 DEF s

-----------------------------------------------------------------------------
(* The theorems.                                                            *)

\* The reassembler is always assembled (Reassembler::insert keeps it so).
THEOREM ReassemblerInvariant == Spec => []Invariant
<1> QED BY InitEstablishes, StepPreserves, PTL DEF Spec

\* Every byte written or stored is in its place, for every order of arrival.
THEOREM BytesAlwaysInPlace == Spec => []BytesInPlace
<1>1. Invariant => BytesInPlace
  BY DEF Invariant, Assembled, InPlace, BytesInPlace, StreamOk, Chunks, pending, output
<1> QED BY <1>1, ReassemblerInvariant, PTL

\* The stored chunks are merged, apart from the output, and inside the window.
THEOREM PendingAlwaysMerged == Spec => []PendingIsMerged
<1>1. ASSUME Invariant
      PROVE  PendingIsMerged
  <2> DEFINE next  == reassembler.next_index
             room  == output.total_popped + Capacity
             limit == Least(StreamLength, room)
  <2>1. /\ next \in Nat /\ room \in Nat
        /\ Chunks(pending, next + 1, limit)
    <3>1. StreamLength \in Nat /\ Capacity \in Nat /\ InPlace(reassembler, StreamLength, Capacity)
      BY <1>1, StreamAssumption DEF Invariant, Assembled
    <3>2. next \in Nat /\ reassembler.output.total_popped \in Nat
      BY <3>1, InPlaceTypes
    <3>3. Chunks(pending, next + 1, limit)
      BY <3>1 DEF InPlace, pending, output
    <3> QED BY <3>1, <3>2, <3>3 DEF output
  <2>2. limit \in Nat /\ limit <= room
    BY <2>1, StreamAssumption DEF Least
  <2> HIDE DEF next, room, limit
  <2>3. ASSUME NEW i \in DOMAIN pending
        PROVE  /\ pending[i] # <<>> /\ i > next
               /\ \A j \in DOMAIN pending : i < j => ChunkEnd(pending, i) < j
               /\ ChunkEnd(pending, i) <= room
    <3>1. /\ i \in Nat /\ next + 1 <= i /\ ChunkEnd(pending, i) \in Nat
          /\ ChunkEnd(pending, i) <= limit
          /\ \A j \in DOMAIN pending : i < j => ChunkEnd(pending, i) < j
      BY <2>1, <2>2, ChunkBytes
    <3>2. i > next /\ ChunkEnd(pending, i) <= room
      BY <2>1, <2>2, <3>1
    <3>3. Len(pending[i]) # 0
      BY <2>1 DEF Chunks
    <3> QED BY <3>1, <3>2, <3>3
  <2> QED BY <2>3 DEF PendingIsMerged, next, room
<1> QED BY <1>1, ReassemblerInvariant, PTL
\* Merging and flushing in one go is what the loops of insert() do, whatever is
\* stored when a substring arrives and wherever it falls.
THEOREM InsertIsTheLoops == Spec => []StoreAndFlushIsTheLoops
<1>1. ASSUME Invariant
      PROVE  StoreAndFlushIsTheLoops
  <2> DEFINE r     == reassembler
             next  == r.next_index
             limit == Least(StreamLength, r.output.total_popped + Capacity)
  <2>1. /\ InPlace(r, StreamLength, Capacity) /\ StreamLength \in Nat /\ Capacity \in Nat
    BY <1>1, StreamAssumption DEF Invariant, Assembled
  <2>2. /\ next \in Nat /\ r.output.total_popped \in Nat /\ limit \in Nat
        /\ StreamLimit(r) = r.output.total_popped + Capacity
    BY <2>1, InPlaceTypes
  <2>3. /\ Chunks(r.pending, next + 1, limit)
        /\ r = [output |-> r.output, pending |-> r.pending, next_index |-> next,
                last_index |-> r.last_index, last_seen |-> r.last_seen]
    BY <2>1 DEF InPlace
  <2>4. Chunks(r.pending, next, limit)
    <3> HIDE DEF next, limit, r
    <3>1. \A i \in Nat : next + 1 <= i => next <= i
      BY <2>2
    <3> QED BY <2>3, <3>1 DEF Chunks
  <2>5. ASSUME NEW first \in next..(StreamLength - 1), NEW n \in 1..(StreamLength - first),
               first + n <= StreamLimit(r)
        PROVE  StoreAndFlush(r, first, Substring(first, n)) =
                 CloseIfAllWritten(FlushLoop(
                   [r EXCEPT !.pending = MergeLoop(r.pending, first, Substring(first, n))]))
    <3> DEFINE data == Substring(first, n)
               q    == StoreMerged(r.pending, first, data)
               s    == [r EXCEPT !.pending = q]
    <3>1. /\ first \in Nat /\ next <= first /\ n \in Nat \ {0} /\ first + n <= limit
      BY <2>1, <2>2, <2>5 DEF Least
    <3> HIDE DEF limit
    <3>2. MergeLoop(r.pending, first, data) = q
      BY <2>2, <2>4, <3>1, MergeLoopIsStoreMerged
    <3>3. Chunks(q, next, limit)
      BY <2>2, <2>4, <3>1, StoreMergedKeeps
    <3> HIDE DEF q
    <3>4. /\ s.pending = q /\ s.next_index = next
          /\ s = [output |-> s.output, pending |-> s.pending, next_index |-> s.next_index,
                  last_index |-> s.last_index, last_seen |-> s.last_seen]
      <4> HIDE DEF r, next
      <4> QED BY <2>3 DEF next
    <3> HIDE DEF s
    <3>5. FlushLoop(s) = Flush(s)
      BY <2>2, <3>3, <3>4, FlushLoopIsFlush
    <3>6. StoreAndFlush(r, first, data) = CloseIfAllWritten(Flush(s))
      BY Zenon DEF StoreAndFlush, s, q
    <3>7. [r EXCEPT !.pending = MergeLoop(r.pending, first, data)] = s
      BY <3>2, Zenon DEF s
    <3> QED BY <3>5, <3>6, <3>7, Zenon
  <2> HIDE DEF r, next
  <2>6. \A first \in next..(StreamLength - 1) : \A n \in 1..(StreamLength - first) :
          first + n <= StreamLimit(r) =>
            StoreAndFlush(r, first, Substring(first, n)) =
              CloseIfAllWritten(FlushLoop(
                [r EXCEPT !.pending = MergeLoop(r.pending, first, Substring(first, n))]))
    BY <2>5, Zenon
  <2> QED BY <2>6, Zenon DEF StoreAndFlushIsTheLoops, r, next
<1> QED BY <1>1, ReassemblerInvariant, PTL

\* The promise's variables, in a state of the reassembler.
Mapping ==
  /\ Known = {x \in Promise!Indices : Has(reassembler, x)}
  /\ output.total_pushed \in 0..StreamLength
  /\ output.total_pushed = reassembler.next_index
  /\ output.total_popped \in Nat /\ Len(output.buffer) \in Nat
  /\ output.total_pushed = output.total_popped + Len(output.buffer)
  /\ output.total_pushed \notin Known
  /\ \A x \in 0..(output.total_pushed - 1) : x \in Known
  /\ reassembler.last_seen \in BOOLEAN /\ output.closed \in BOOLEAN
  /\ output.closed <=> reassembler.last_seen /\ output.total_pushed = StreamLength

\* Assembled, what is known is the prefix written and what the chunks cover.
LEMMA InvariantMaps == Invariant => Mapping
<1> SUFFICES ASSUME Invariant PROVE Mapping
  OBVIOUS
<1> DEFINE r    == reassembler
           next == r.next_index
<1>1. /\ InPlace(r, StreamLength, Capacity) /\ StreamLength \in Nat /\ Capacity \in Nat
      /\ r.output.closed <=> r.last_seen /\ next = StreamLength
  BY StreamAssumption DEF Invariant, Assembled
<1>2. /\ next \in Nat /\ next <= StreamLength
      /\ next = r.output.total_pushed /\ r.output.closed \in BOOLEAN
      /\ r.output.total_popped \in Nat /\ Len(r.output.buffer) \in Nat
      /\ next = r.output.total_popped + Len(r.output.buffer)
      /\ Least(StreamLength, r.output.total_popped + Capacity) \in Nat
  BY <1>1, InPlaceTypes
<1>3. r.last_seen \in BOOLEAN
  BY <1>1 DEF InPlace
<1>4. /\ Known = {x \in Promise!Indices : Has(r, x)}
      /\ Promise!Indices = 0..(StreamLength - 1)
  BY DEF Known, Promise!Indices, Has, Covered, pending
<1>5. Chunks(r.pending, next + 1, Least(StreamLength, r.output.total_popped + Capacity))
  BY <1>1 DEF InPlace
<1>6. \A x \in Nat : x < next => Has(r, x)
  BY DEF Has
<1> HIDE DEF next
<1>7. ~Has(r, next)
  <2>1. \A i \in DOMAIN r.pending : ~(i <= next)
    <3>1. next + 1 \in Nat
      BY <1>2
    <3>2. \A i \in DOMAIN r.pending : i \in Nat /\ next + 1 <= i
      BY <1>2, <1>5, <3>1, ChunkBytes
    <3> QED BY <1>2, <3>2
  <2>2. ~(next < next)
    BY <1>2
  <2> QED BY <2>1, <2>2, Zenon DEF Has, Covered, next
<1>8. \A x \in 0..(next - 1) : x \in Known
  <2>1. \A x \in 0..(next - 1) : x \in Nat /\ x < next /\ x \in 0..(StreamLength - 1)
    BY <1>1, <1>2
  <2> QED BY <1>4, <1>6, <2>1
<1>9. next \in 0..StreamLength
  BY <1>1, <1>2
<1> QED BY <1>1, <1>2, <1>3, <1>4, <1>7, <1>8, <1>9 DEF Mapping, output, next

\* The refinement: the reassembler does what ReassemblySpec promises.  A
\* substring is an Offer; what the reader pops is a Read.
THEOREM PromiseIsKept == Spec => KeepsItsPromise
<1>1. Init => Promise!SpecInit
  <2>1. SUFFICES ASSUME Init PROVE Promise!SpecInit
    OBVIOUS
  <2>2. /\ reassembler.pending = << >> /\ reassembler.next_index = 0
        /\ reassembler.last_seen = FALSE
        /\ reassembler.output.total_pushed = 0 /\ reassembler.output.total_popped = 0
        /\ reassembler.output.closed = FALSE
    BY <2>1 DEF Init, NewReassembler, NewByteStream
  <2>3. Known = {}
    BY <2>2, StreamAssumption DEF Known, pending
  <2> QED BY <2>2, <2>3 DEF Promise!SpecInit, output
<1>2. Invariant => Mapping
  BY InvariantMaps
<1>3. Invariant /\ Mapping /\ Mapping' /\ [Next]_vars => [Promise!SpecNext]_(Promise!specVars)
  <2> SUFFICES ASSUME Invariant, Mapping, Mapping', [Next]_vars
               PROVE  [Promise!SpecNext]_(Promise!specVars)
    OBVIOUS
  <2>1. CASE UNCHANGED vars
    BY <2>1 DEF vars, Promise!specVars, Known, pending, output
  <2>2. ASSUME NEW first \in 0..StreamLength, NEW n \in 0..(StreamLength - first),
               NEW is_last \in BOOLEAN, InsertSubstring(first, n, is_last)
        PROVE  Promise!Offer(first, n, is_last)
    <3>1. /\ output'.total_popped = output.total_popped
          /\ reassembler'.last_seen <=> reassembler.last_seen \/ is_last
          /\ reassembler'.next_index >= reassembler.next_index
          /\ \A x \in Nat : Has(reassembler', x) <=>
               \/ Has(reassembler, x)
               \/ first <= x /\ x < first + n /\ x < output.total_popped + Capacity
      BY <2>2, InsertAdds
    <3>2. output'.total_pushed \in 0..StreamLength
      BY DEF Mapping
    <3>3. Known' = Known \union
             {x \in Promise!Indices : /\ first <= x /\ x < first + n
                                      /\ x < output.total_popped + Capacity}
      <4>1. /\ Known = {x \in Promise!Indices : Has(reassembler, x)}
            /\ Known' = {x \in Promise!Indices : Has(reassembler', x)}
        BY DEF Mapping, Promise!Indices
      <4>2. Promise!Indices \subseteq Nat
        BY StreamAssumption DEF Promise!Indices
      <4> QED BY <3>1, <4>1, <4>2
    <3>4. /\ output'.total_pushed \notin Known'
          /\ \A x \in 0..(output'.total_pushed - 1) : x \in Known'
      BY DEF Mapping
    <3>5. reassembler'.last_seen = (reassembler.last_seen \/ is_last)
      BY <3>1 DEF Mapping
    <3>6. output'.closed = (output.closed \/
            (reassembler'.last_seen /\ output'.total_pushed = StreamLength))
      <4>1. /\ output'.total_pushed >= output.total_pushed
            /\ output.total_pushed \in 0..StreamLength
        BY <3>1 DEF Mapping
      <4>2. output.total_pushed = StreamLength => output'.total_pushed = StreamLength
        BY <3>2, <4>1, StreamAssumption
      <4> QED BY <3>1, <4>2 DEF Mapping
    <3> QED BY <2>2, <3>1, <3>2, <3>3, <3>4, <3>5, <3>6
          DEF Promise!Offer, InsertSubstring
  <2>3. ASSUME NEW n \in 1..Capacity, ReadBytes(n)
        PROVE  \E k \in 1..StreamLength : Promise!Read(k)
    <3>1. /\ output'.total_popped = output.total_popped + n
          /\ output'.total_pushed = output.total_pushed /\ output'.closed = output.closed
          /\ pending' = pending /\ reassembler'.next_index = reassembler.next_index
          /\ reassembler'.last_seen = reassembler.last_seen
      BY <2>3, ReadTakes
    <3>2. Known' = Known
      BY <3>1 DEF Known
    <3>3. n \in 1..StreamLength /\ output.total_popped + n <= output.total_pushed
      <4>1. n <= Len(output.buffer) /\ n \in Nat /\ n > 0
        BY <2>3, StreamAssumption DEF ReadBytes, output
      <4> QED BY <4>1, StreamAssumption DEF Mapping
    <3>4. Promise!Read(n)
      BY <3>1, <3>2, <3>3 DEF Promise!Read
    <3> QED BY <3>3, <3>4
  <2> QED BY <2>1, <2>2, <2>3 DEF Next, Promise!SpecNext
<1> QED BY <1>1, <1>2, <1>3, ReassemblerInvariant, PTL DEF Spec, KeepsItsPromise, Promise!SafetySpec

=============================================================================
