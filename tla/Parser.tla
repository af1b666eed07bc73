------------------------------- MODULE Parser -------------------------------
(* Parser and Serializer (src/util/parser.hh, parser.cc) over buffers of    *)
(* octets.  A number of 32 bits is two words of 16, since TLC's integers    *)
(* have 32 bits and a sign; both widths are big-endian and fail alike when  *)
(* the input is too short.                                                  *)
EXTENDS Integers, SequencesExt

Lesser(a, b) == IF a < b THEN a ELSE b

NewParser(buffers) ==
  [buffer |-> buffers, skip |-> 0, size |-> Len(FlattenSeq(buffers)), error |-> FALSE]

SetError(p) == [p EXCEPT !.error = TRUE]

\* What is left of the first buffer.
Peek(p) == SubSeq(Head(p.buffer), p.skip + 1, Len(Head(p.buffer)))

\* One turn of the loop in remove_prefix(), with len octets to go.
PopFront(state, front) ==
  LET p     == state.parser
      now   == Lesser(state.len, Len(front) - p.skip)
      whole == p.skip + now = Len(front)
  IN  IF state.len = 0 THEN state
      ELSE [len    |-> state.len - now,
            parser |-> [p EXCEPT !.size = @ - now,
                                 !.skip = IF whole THEN 0 ELSE @ + now,
                                 !.buffer = IF whole THEN Tail(@) ELSE @]]

RemovePrefix(p, len) ==
  FoldLeft(PopFront, [len |-> len, parser |-> p], p.buffer).parser

\* Mutant of Truncate: nothing is cut.
TruncateNever(p, len) == p

\* The lengths are those of the whole buffers, whatever was skipped.
Truncate(p, len) ==
  LET Upto(k) == Len(FlattenSeq(SubSeq(p.buffer, 1, k)))
      cut     == CHOOSE k \in DOMAIN p.buffer : Upto(k) >= len /\ Upto(k - 1) < len
  IN  IF p.size <= len THEN p
      ELSE IF len = 0 THEN [p EXCEPT !.buffer = <<>>, !.size = 0]
      ELSE [p EXCEPT
             !.buffer = Append(SubSeq(@, 1, cut - 1), SubSeq(@[cut], 1, len - Upto(cut - 1))),
             !.size = len]

\* buffer(), and what dump_all() moves out.
Remaining(p) == IF p.size = 0 THEN <<>> ELSE << Peek(p) >> \o Tail(p.buffer)

ConcatenateAllRemaining(p) == FlattenSeq(Remaining(p))

\* integer(), of n octets: the value that is read (0 when there are too few).
CheckSize(p, n) == [p EXCEPT !.error = @ \/ n > p.size]

NextOctet(read, i) ==
  [value  |-> read.value * 256 + Head(Peek(read.parser)),
   parser |-> RemovePrefix(read.parser, 1)]

ReadOctets(p, n) ==
  FoldLeft(NextOctet, [value |-> 0, parser |-> p], [i \in 1..(IF p.error THEN 0 ELSE n) |-> i])

NextInteger(p, n) == ReadOctets(CheckSize(p, n), n)

\* A header: its integers, each of so many octets.
AppendInteger(values, integer) ==
  [values |-> Append(values, integer.value), parser |-> integer.parser]

Integers(p, widths) ==
  FoldLeft(LAMBDA read, n : AppendInteger(read.values, NextInteger(read.parser, n)),
           [values |-> <<>>, parser |-> p], widths)

BigEndian(value, n) == [i \in 1..n |-> (value \div 256^(n - i)) % 256]

\* What a Serializer has after these integers ...
PutIntegers(values, widths) ==
  FlattenSeq([i \in DOMAIN values |-> BigEndian(values[i], widths[i])])

\* ... and what it finishes with when buffers follow: none of them is empty.
Finish(octets, buffers) ==
  SelectSeq(<< octets >> \o buffers, LAMBDA buf : buf # <<>>)
=============================================================================
