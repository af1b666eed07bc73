-------------------------- MODULE TransportLemmas ---------------------------
(* What the operators of TCP keep, for all parameters: sequence numbers,    *)
(* byte streams, the sender and the reassembler, each a record.  Lemmas for *)
(* the systems that these are parts of.                                     *)
EXTENDS TCPSender, Reassembler, BasicLemmas

-----------------------------------------------------------------------------
(* I. Wrap32, for every MOD: a number that one side wraps is the one that   *)
(* the other side unwraps, as long as its checkpoint is less than half a    *)
(* turn away; and unwrap() never returns a number when another one with the *)
(* same wrapped form is nearer.                                             *)

\* What SMT needs to know of MOD.
LEMMA ModIsPositive == MOD \in Nat /\ MOD > 0 /\ Half \in Nat /\ MOD = 2 * Half
<1>1. MOD \in Nat /\ MOD > 0 /\ MOD % 2 = 0
  BY ModAssumption
<1> QED
  BY <1>1 DEF Half

\* A number is so many turns and a rest.
LEMMA Turns ==
  ASSUME NEW x \in Int
  PROVE  /\ x \div MOD \in Int /\ x % MOD \in 0..(MOD - 1)
         /\ x = MOD * (x \div MOD) + (x % MOD)
BY ModIsPositive

\* A multiple of MOD that is less than a turn away from 0 is 0.
LEMMA NoPartOfATurn ==
  ASSUME NEW k \in Int, MOD * k < MOD, MOD * k > -MOD
  PROVE  k = 0
<1>1. ASSUME k >= 1 PROVE FALSE
  <2>1. MOD * k >= MOD * 1
    BY <1>1, ModIsPositive
  <2> QED
    BY <2>1, ModIsPositive
<1>2. ASSUME k <= -1 PROVE FALSE
  <2>1. MOD * k <= MOD * (-1)
    BY <1>2, ModIsPositive
  <2> QED
    BY <2>1, ModIsPositive
<1> QED
  BY <1>1, <1>2

\* The rest is unique.
LEMMA RestIsUnique ==
  ASSUME NEW k \in Int, NEW r \in 0..(MOD - 1)
  PROVE  (MOD * k + r) % MOD = r /\ (MOD * k + r) \div MOD = k
<1> DEFINE x == MOD * k + r
           q == x \div MOD
<1>1. x \in Int /\ r \in Int
  BY ModIsPositive
<1>2. q \in Int /\ x % MOD \in 0..(MOD - 1) /\ x = MOD * q + (x % MOD)
  BY <1>1, Turns
<1>3. MOD * (k - q) = (x % MOD) - r
  BY <1>1, <1>2, ModIsPositive
<1>4. k - q = 0
  BY <1>1, <1>2, <1>3, ModIsPositive, NoPartOfATurn
<1> QED
  BY <1>1, <1>2, <1>4, ModIsPositive

\* A multiple of MOD that is less than two turns away from 0.
LEMMA OneTurnAtMost ==
  ASSUME NEW k \in Int, MOD * k < 2 * MOD, MOD * k > -(2 * MOD)
  PROVE  k \in {-1, 0, 1}
<1>1. ASSUME k >= 2 PROVE FALSE
  <2>1. MOD * k >= MOD * 2
    BY <1>1, ModIsPositive
  <2> QED
    BY <2>1, ModIsPositive
<1>2. ASSUME k <= -2 PROVE FALSE
  <2>1. MOD * k <= MOD * (-2)
    BY <1>2, ModIsPositive
  <2> QED
    BY <2>1, ModIsPositive
<1> QED
  BY <1>1, <1>2

-----------------------------------------------------------------------------
(* The two functions.                                                       *)

Offset(raw, zero) == (raw + MOD - zero) % MOD

Adjusted(candidate, checkpoint) ==
  IF candidate + Half < checkpoint
    THEN candidate + MOD
  ELSE IF checkpoint + Half < candidate /\ candidate >= MOD
    THEN candidate - MOD
  ELSE candidate

\* The offset that unwrap() computes is the rest of the number.
LEMMA OffsetOfWrap ==
  ASSUME NEW n \in Nat, NEW zero \in 0..(MOD - 1)
  PROVE  Wrap(n, zero) \in 0..(MOD - 1) /\ Offset(Wrap(n, zero), zero) = n % MOD
<1> DEFINE w == Wrap(n, zero)
           q == (n + zero) \div MOD
           a == n \div MOD
           r == n % MOD
<1>1. n + zero \in Int /\ zero \in Int
  BY ModIsPositive
<1>2. w \in 0..(MOD - 1) /\ q \in Int /\ n + zero = MOD * q + w
  BY <1>1, Turns DEF Wrap
<1>3. a \in Int /\ r \in 0..(MOD - 1) /\ n = MOD * a + r
  BY Turns
<1> HIDE DEF w, q, a, r
<1>4. w + MOD - zero = MOD * (a - q + 1) + r
  <2>1. w + MOD - zero = MOD * a - MOD * q + MOD + r
    BY <1>1, <1>2, <1>3, ModIsPositive
  <2>2. MOD * (a - q + 1) = MOD * a - MOD * q + MOD
    BY <1>2, <1>3, ModIsPositive
  <2> QED
    BY <1>2, <1>3, <2>1, <2>2, ModIsPositive
<1>5. (MOD * (a - q + 1) + r) % MOD = r
  BY <1>2, <1>3, RestIsUnique
<1>6. Offset(w, zero) = r
  BY <1>4, <1>5 DEF Offset
<1> QED
  BY <1>2, <1>6 DEF w, r

\* Where unwrap() starts from: the turn of the checkpoint.
LEMMA Candidate ==
  ASSUME NEW raw \in 0..(MOD - 1), NEW zero \in 0..(MOD - 1), NEW checkpoint \in Nat
  PROVE  \E b \in Nat, s \in 0..(MOD - 1) :
           /\ checkpoint = MOD * b + s
           /\ Offset(raw, zero) \in 0..(MOD - 1)
           /\ Unwrap(raw, zero, checkpoint) = Adjusted(MOD * b + Offset(raw, zero), checkpoint)
<1> DEFINE b == checkpoint \div MOD
           s == checkpoint % MOD
<1>1. b \in Int /\ s \in 0..(MOD - 1) /\ checkpoint = MOD * b + s
  BY Turns
<1>2. b >= 0
  <2>1. SUFFICES ASSUME b <= -1 PROVE FALSE
    BY <1>1
  <2>2. MOD * b <= MOD * (-1)
    BY <1>1, <2>1, ModIsPositive
  <2> QED
    BY <1>1, <2>2, ModIsPositive
<1>3. raw + MOD - zero \in Int
  BY ModIsPositive
<1>4. Offset(raw, zero) \in 0..(MOD - 1)
  BY <1>3, Turns DEF Offset
<1>5. checkpoint - s = MOD * b
  BY <1>1, ModIsPositive
<1>6. Unwrap(raw, zero, checkpoint) = Adjusted(MOD * b + Offset(raw, zero), checkpoint)
  BY <1>5 DEF Unwrap, Offset, Adjusted
<1>7. b \in Nat
  BY <1>1, <1>2
<1> HIDE DEF b, s
<1> QED
  BY <1>1, <1>4, <1>6, <1>7

\* What wrap() made of a number, unwrap() makes the number again, whatever the
\* initial sequence number, if the checkpoint is less than half a turn from it:
\* the TCP sender and receiver agree on the absolute numbers (Wrap32::unwrap).
THEOREM UnwrapInvertsWrap ==
  ASSUME NEW n \in Nat, NEW zero \in 0..(MOD - 1), NEW checkpoint \in Nat,
         n - checkpoint < Half, checkpoint - n < Half
  PROVE  Unwrap(Wrap(n, zero), zero, checkpoint) = n
<1> DEFINE a == n \div MOD
           r == n % MOD
           w == Wrap(n, zero)
<1>1. w \in 0..(MOD - 1) /\ Offset(w, zero) = r
  BY OffsetOfWrap
<1>2. a \in Int /\ r \in 0..(MOD - 1) /\ n = MOD * a + r
  BY Turns
<1> HIDE DEF a, r, w
<1>3. PICK b \in Nat, s \in 0..(MOD - 1) :
        /\ checkpoint = MOD * b + s
        /\ Unwrap(w, zero, checkpoint) = Adjusted(MOD * b + r, checkpoint)
  <2>1. PICK b \in Nat, s \in 0..(MOD - 1) :
          /\ checkpoint = MOD * b + s
          /\ Offset(w, zero) \in 0..(MOD - 1)
          /\ Unwrap(w, zero, checkpoint) = Adjusted(MOD * b + Offset(w, zero), checkpoint)
    BY <1>1, Candidate, Zenon
  <2> QED
    BY <1>1, <2>1
<1> DEFINE turns == MOD * (a - b)
           candidate == MOD * b + r
<1>4. turns \in Int /\ candidate \in Int /\ n = candidate + turns
  BY <1>2, <1>3, ModIsPositive
<1>5. turns < 2 * MOD /\ turns > -(2 * MOD)
  BY <1>2, <1>3, <1>4, ModIsPositive
<1>6. a - b \in {-1, 0, 1}
  BY <1>2, <1>3, <1>5, OneTurnAtMost
<1>7. turns \in {-MOD, 0, MOD}
  BY <1>6, ModIsPositive
<1> HIDE DEF turns, candidate
<1>8. Unwrap(w, zero, checkpoint) = Adjusted(candidate, checkpoint)
  BY <1>3 DEF candidate
<1>9. Unwrap(w, zero, checkpoint) = n
  BY <1>4, <1>7, <1>8, ModIsPositive DEF Adjusted
<1> QED
  BY <1>9 DEF w

Distance(a, b) == IF a <= b THEN b - a ELSE a - b

\* unwrap() returns a number that is not negative and has the wrapped form, and
\* no other number that has it is nearer to the checkpoint (Wrap32::unwrap).
THEOREM UnwrapIsNearest ==
  ASSUME NEW raw \in 0..(MOD - 1), NEW zero \in 0..(MOD - 1), NEW checkpoint \in Nat
  PROVE  LET number == Unwrap(raw, zero, checkpoint)
         IN  /\ number \in Nat
             /\ Wrap(number, zero) = raw
             /\ \A other \in Nat :
                  Wrap(other, zero) = raw =>
                    Distance(number, checkpoint) <= Distance(other, checkpoint)
<1> DEFINE number == Unwrap(raw, zero, checkpoint)
           offset == Offset(raw, zero)
<1>1. PICK b \in Nat, s \in 0..(MOD - 1) :
        /\ checkpoint = MOD * b + s
        /\ offset \in 0..(MOD - 1)
        /\ number = Adjusted(MOD * b + offset, checkpoint)
  BY Candidate
<1> DEFINE candidate == MOD * b + offset
           beyond    == checkpoint + Half < candidate /\ candidate < MOD
<1>2. candidate \in Nat /\ candidate - checkpoint = offset - s
  <2>1. MOD * b \in Nat
    BY ModIsPositive
  <2> QED
    BY <1>1, <2>1, ModIsPositive
<1> HIDE DEF offset
<1>3. number \in Nat /\ (Distance(number, checkpoint) <= Half \/ beyond)
  <2>1. number = Adjusted(candidate, checkpoint)
    BY <1>1
  <2> HIDE DEF number, candidate
  <2> QED
    BY <1>1, <1>2, <2>1, ModIsPositive DEF Distance, Adjusted
<1>4. Wrap(number, zero) = raw
  <2>1. PICK j \in Int : number = MOD * j + offset
    <3>1. number \in {candidate, candidate + MOD, candidate - MOD}
      BY <1>1 DEF Adjusted
    <3>2. /\ candidate + MOD = MOD * (b + 1) + offset
          /\ candidate - MOD = MOD * (b - 1) + offset
      BY <1>1, ModIsPositive
    <3> QED
      BY <3>1, <3>2
  <2> DEFINE q == (raw + MOD - zero) \div MOD
  <2>2. raw + MOD - zero \in Int
    BY ModIsPositive
  <2>3. q \in Int /\ raw + MOD - zero = MOD * q + offset
    BY <2>2, Turns DEF offset, Offset
  <2>4. number + zero = MOD * (j + 1 - q) + raw
    <3>1. number + zero = MOD * j - MOD * q + MOD + raw
      BY <1>1, <2>1, <2>3, ModIsPositive
    <3>2. MOD * (j + 1 - q) = MOD * j - MOD * q + MOD
      BY <2>1, <2>3, ModIsPositive
    <3> QED
      BY <2>1, <2>3, <3>1, <3>2, ModIsPositive
  <2>5. (MOD * (j + 1 - q) + raw) % MOD = raw
    BY <2>1, <2>3, RestIsUnique
  <2> HIDE DEF number
  <2> QED
    BY <2>4, <2>5 DEF Wrap
<1>5. ASSUME NEW other \in Nat, Wrap(other, zero) = raw
      PROVE  Distance(number, checkpoint) <= Distance(other, checkpoint)
  <2>1. CASE Distance(other, checkpoint) < Half
    <3>1. Unwrap(Wrap(other, zero), zero, checkpoint) = other
      BY <2>1, UnwrapInvertsWrap, ModIsPositive DEF Distance
    <3> QED
      BY <1>3, <1>5, <3>1, ModIsPositive DEF Distance
  <2>2. CASE Distance(other, checkpoint) >= Half /\ ~beyond
    <3> HIDE DEF number, beyond
    <3> QED
      BY <1>3, <2>2, ModIsPositive DEF Distance
  <2>3. CASE beyond
    <3>1. number = candidate
      BY <1>1, <1>2, <2>3, ModIsPositive DEF Adjusted
    <3>2. offset = other % MOD
      BY <1>5, OffsetOfWrap DEF offset
    <3>3. other >= offset
      <4>1. PICK a \in Int : other = MOD * a + offset
        BY <3>2, Turns
      <4>2. a >= 0
        <5>1. SUFFICES ASSUME a <= -1 PROVE FALSE
          BY <4>1
        <5>2. MOD * a <= MOD * (-1)
          BY <5>1, ModIsPositive
        <5> QED
          BY <1>1, <4>1, <5>2, ModIsPositive
      <4>3. MOD * a >= 0
        BY <4>1, <4>2, ModIsPositive
      <4> QED
        BY <1>1, <4>1, <4>3, ModIsPositive
    <3>4. b = 0
      <4>1. SUFFICES ASSUME b >= 1 PROVE FALSE
        OBVIOUS
      <4>2. MOD * b >= MOD * 1
        BY <4>1, ModIsPositive
      <4> QED
        BY <1>1, <2>3, <4>2, ModIsPositive
    <3>5. candidate = offset
      BY <1>1, <3>4, ModIsPositive
    <3> HIDE DEF number, candidate
    <3> QED
      BY <1>1, <1>2, <2>3, <3>1, <3>3, <3>5, ModIsPositive DEF Distance
  <2> HIDE DEF number
  <2>4. Distance(other, checkpoint) \in Int
    BY DEF Distance
  <2> QED
    BY <2>1, <2>2, <2>3, <2>4, ModIsPositive
<1> QED
  BY <1>3, <1>4, <1>5

-----------------------------------------------------------------------------
(* II. ByteStream.                                                          *)

(* Bytes in their place.                                                    *)

\* The bytes of a part of the stream.
LEMMA SubstringBytes ==
  ASSUME NEW first \in Nat, NEW n \in Nat
  PROVE  /\ Substring(first, n) \in Seq(Byte)
         /\ Len(Substring(first, n)) = n
         /\ \A k \in 1..n : Substring(first, n)[k] = first + k
BY DEF Substring, Byte

\* A sequence with these bytes is that part of the stream.
LEMMA BytesAreSubstring ==
  ASSUME NEW first \in Nat, NEW q \in Seq(Byte), NEW n \in Nat, Len(q) = n,
         \A k \in 1..n : q[k] = first + k
  PROVE  q = Substring(first, n)
BY DEF Substring

\* SubSeq under a name that the provers leave alone.
Part(q, m, n) == SubSeq(q, m, n)

\* A part of a part.
LEMMA SubstringPart ==
  ASSUME NEW first \in Nat, NEW n \in Nat, NEW m \in Nat \ {0}, NEW upto \in Nat,
         m <= upto + 1, upto <= n,
         NEW start, start = first + m - 1, NEW size, size = upto - m + 1
  PROVE  Part(Substring(first, n), m, upto) = Substring(start, size)
<1> DEFINE whole == Substring(first, n)
           part  == SubSeq(whole, m, upto)
<1>1. /\ whole \in Seq(Byte) /\ Len(whole) = n
      /\ \A k \in 1..n : whole[k] = first + k
  BY SubstringBytes
<1> HIDE DEF whole
<1>2. /\ part \in Seq(Byte) /\ Len(part) = size
      /\ \A k \in 1..size : part[k] = whole[m + k - 1]
  BY <1>1, SubSeqInside
<1>3. ASSUME NEW k \in 1..size
      PROVE  part[k] = start + k
  <2>1. m + k - 1 \in 1..n /\ part[k] = whole[m + k - 1]
    BY <1>2
  <2>2. part[k] = first + (m + k - 1)
    BY <1>1, <2>1
  <2> QED BY <2>2
<1> HIDE DEF part
<1>4. part = Substring(start, size)
  <2>1. start \in Nat /\ size \in Nat
    OBVIOUS
  <2> QED BY <1>2, <1>3, <2>1, BytesAreSubstring
<1> QED BY <1>4, Zenon DEF part, whole, Part

\* Two parts that continue one another.
LEMMA SubstringJoin ==
  ASSUME NEW first \in Nat, NEW n \in Nat, NEW m \in Nat
  PROVE  Substring(first, n) \o Substring(first + n, m) = Substring(first, n + m)
<1> DEFINE p    == Substring(first, n)
           q    == Substring(first + n, m)
           both == p \o q
<1>1. /\ p \in Seq(Byte) /\ Len(p) = n /\ \A k \in 1..n : p[k] = first + k
      /\ q \in Seq(Byte) /\ Len(q) = m /\ \A k \in 1..m : q[k] = first + n + k
  <2>1. first + n \in Nat
    OBVIOUS
  <2> QED BY <2>1, SubstringBytes
<1> HIDE DEF p, q
<1>2. /\ both \in Seq(Byte) /\ Len(both) = n + m
      /\ \A k \in 1..(n + m) :
           IF k <= n THEN k \in 1..n /\ both[k] = p[k]
           ELSE k - n \in 1..m /\ both[k] = q[k - n]
  BY <1>1, Concatenation
<1> HIDE DEF both
<1>3. ASSUME NEW k \in 1..(n + m)
      PROVE  both[k] = first + k
  <2>1. CASE k <= n
    BY <1>1, <1>2, <2>1
  <2>2. CASE ~(k <= n)
    <3>1. both[k] = first + n + (k - n)
      BY <1>1, <1>2, <2>2
    <3>2. first + n + (k - n) = first + k
      OBVIOUS
    <3> QED BY <3>1, <3>2
  <2> QED BY <2>1, <2>2
<1>4. both = Substring(first, n + m)
  <2>1. n + m \in Nat
    OBVIOUS
  <2> QED BY <1>2, <1>3, <2>1, BytesAreSubstring
<1> QED BY <1>4 DEF both, p, q

-----------------------------------------------------------------------------
(* Reading and writing.                                                     *)

\* Popping from a stream keeps it well formed and counts what is popped.
LEMMA PopAccounts ==
  ASSUME NEW b \in ByteStreams, StreamOk(b), NEW n \in Nat,
         n <= Len(b.buffer)
  PROVE  /\ ReaderPop(b, n) \in ByteStreams
         /\ StreamOk(ReaderPop(b, n))
         /\ ReaderPop(b, n).total_popped = b.total_popped + n
         /\ ReaderPop(b, n).total_pushed = b.total_pushed
         /\ ReaderPop(b, n).capacity = b.capacity
         /\ ReaderPop(b, n).closed = b.closed /\ ReaderPop(b, n).error = b.error
         /\ n = Len(b.buffer) => ReaderPop(b, n).buffer = <<>>
<1>1. b.buffer \in Seq(Byte) /\ b.total_popped \in Nat /\ Len(b.buffer) \in Nat
  BY DEF ByteStreams
<1>2. Least(n, Len(b.buffer)) = n
  BY <1>1 DEF Least
<1>3. ReaderPop(b, n) =
        [b EXCEPT !.buffer = SubSeq(b.buffer, n + 1, Len(b.buffer)),
                  !.total_popped = b.total_popped + n]
  BY <1>2 DEF ReaderPop
<1>4. /\ SubSeq(b.buffer, n + 1, Len(b.buffer)) \in Seq(Byte)
      /\ Len(SubSeq(b.buffer, n + 1, Len(b.buffer))) = Len(b.buffer) - n
  <2>1. n + 1 \in Nat \ {0} /\ n + 1 <= Len(b.buffer) + 1
    BY <1>1
  <2> QED BY <1>1, <2>1, SubSeqInside
<1>5. ReaderPop(b, n) \in ByteStreams
  <2>1. b.total_popped + n \in Nat
    BY <1>1
  <2> QED BY <1>3, <1>4, <2>1 DEF ByteStreams
<1>6. /\ ReaderPop(b, n).total_popped = b.total_popped + n
      /\ ReaderPop(b, n).buffer = SubSeq(b.buffer, n + 1, Len(b.buffer))
      /\ ReaderPop(b, n).total_pushed = b.total_pushed
      /\ ReaderPop(b, n).capacity = b.capacity
      /\ ReaderPop(b, n).closed = b.closed /\ ReaderPop(b, n).error = b.error
  BY <1>3 DEF ByteStreams
<1>7. StreamOk(ReaderPop(b, n))
  BY <1>1, <1>4, <1>6 DEF StreamOk, ByteStreams
<1>8. n = Len(b.buffer) => ReaderPop(b, n).buffer = <<>>
  BY <1>1, <1>4, <1>6
<1> QED BY <1>5, <1>6, <1>7, <1>8

\* Reading a stream in two goes.
LEMMA PopTwice ==
  ASSUME NEW b \in ByteStreams, StreamOk(b), NEW m \in Nat, NEW n \in Nat,
         m + n <= Len(b.buffer)
  PROVE  /\ ReaderPop(ReaderPop(b, m), n) = ReaderPop(b, m + n)
         /\ ReaderPop(b, m).buffer = SubSeq(b.buffer, m + 1, Len(b.buffer))
         /\ Len(ReaderPop(b, m).buffer) = Len(b.buffer) - m
<1> DEFINE buf  == b.buffer
           L    == Len(buf)
           rest == SubSeq(buf, m + 1, L)
           one  == ReaderPop(b, m)
<1>1. buf \in Seq(Byte) /\ L \in Nat /\ b.total_popped \in Nat
  BY DEF ByteStreams
<1>2. rest \in Seq(Byte) /\ Len(rest) = L - m
  BY <1>1, PartOfSequence
<1>3. one = [b EXCEPT !.buffer = rest, !.total_popped = b.total_popped + m]
  <2>1. Least(m, L) = m
    BY <1>1 DEF Least
  <2> QED BY <2>1 DEF ReaderPop
<1>4. one.buffer = rest /\ one.total_popped = b.total_popped + m
  BY <1>3 DEF ByteStreams
<1>5. ReaderPop(one, n) =
        [one EXCEPT !.buffer = SubSeq(rest, n + 1, Len(rest)),
                    !.total_popped = b.total_popped + (m + n)]
  <2>1. Least(n, Len(rest)) = n
    BY <1>1, <1>2 DEF Least
  <2>2. (b.total_popped + m) + n = b.total_popped + (m + n)
    BY <1>1
  <2> HIDE DEF one, rest
  <2> QED BY <1>4, <2>1, <2>2 DEF ReaderPop
<1>6. SubSeq(rest, n + 1, Len(rest)) = SubSeq(buf, (m + n) + 1, L)
  <2>1. n <= L - m /\ m + (L - m) <= L /\ L - m \in Nat /\ m + (L - m) = L
    BY <1>1
  <2>2. SubSeq(SubSeq(buf, m + 1, Len(buf)), n + 1, L - m) =
          SubSeq(buf, (m + n) + 1, m + (L - m))
    <3> HIDE DEF buf, L
    <3>1. m + (L - m) <= Len(buf)
      BY <2>1 DEF L
    <3> QED BY <1>1, <2>1, <3>1, PartOfRest
  <2> QED BY <1>2, <2>1, <2>2
<1>7. ReaderPop(b, m + n) =
        [b EXCEPT !.buffer = SubSeq(buf, (m + n) + 1, L),
                  !.total_popped = b.total_popped + (m + n)]
  <2>1. Least(m + n, L) = m + n
    BY <1>1 DEF Least
  <2> QED BY <2>1 DEF ReaderPop
<1>8. ReaderPop(one, n) = ReaderPop(b, m + n)
  <2> DEFINE tail  == SubSeq(buf, (m + n) + 1, L)
             count == b.total_popped + (m + n)
  <2>1. ReaderPop(one, n) = [one EXCEPT !.buffer = tail, !.total_popped = count]
    BY <1>5, <1>6
  <2> HIDE DEF tail, count, rest
  <2>2. [one EXCEPT !.buffer = tail, !.total_popped = count] =
          [b EXCEPT !.buffer = tail, !.total_popped = count]
    BY <1>3 DEF ByteStreams
  <2> QED BY <1>7, <2>1, <2>2 DEF tail, count
<1> QED BY <1>2, <1>4, <1>8

\* Reading nothing.
LEMMA PopNothing ==
  ASSUME NEW b \in ByteStreams
  PROVE  ReaderPop(b, 0) = b
<1>1. b.buffer \in Seq(Byte) /\ Len(b.buffer) \in Nat /\ b.total_popped \in Nat
  BY DEF ByteStreams
<1>2. Least(0, Len(b.buffer)) = 0
  BY <1>1 DEF Least
<1>3. SubSeq(b.buffer, 0 + 1, Len(b.buffer)) = b.buffer
  BY <1>1
<1>4. b.total_popped + 0 = b.total_popped
  BY <1>1
<1>5. ReaderPop(b, 0) = [b EXCEPT !.buffer = b.buffer, !.total_popped = b.total_popped]
  BY <1>2, <1>3, <1>4 DEF ReaderPop
<1> QED BY <1>5 DEF ByteStreams

\* What is left of a stream that is read still follows what was read.
LEMMA PopKeepsContent ==
  ASSUME NEW b \in ByteStreams, StreamOk(b), NEW n \in Nat, n <= Len(b.buffer),
         b.buffer = Substring(b.total_popped, Len(b.buffer))
  PROVE  ReaderPop(b, n).buffer =
           Substring(b.total_popped + n, Len(ReaderPop(b, n).buffer))
<1> DEFINE size == Len(b.buffer)
<1>1. size \in Nat /\ b.total_popped \in Nat /\ size - n \in Nat
  BY DEF ByteStreams
<1>2. ReaderPop(b, n).buffer = SubSeq(b.buffer, n + 1, size)
  <2>1. Least(n, size) = n
    BY <1>1 DEF Least
  <2> QED BY <2>1 DEF ReaderPop, ByteStreams
<1>3. SubSeq(Substring(b.total_popped, size), n + 1, size) =
        Substring(b.total_popped + n, size - n)
  <2> DEFINE m      == n + 1
             popped == b.total_popped
             start  == b.total_popped + n
             left   == size - n
  <2>1. /\ m \in Nat \ {0} /\ m <= size + 1 /\ size <= size
        /\ start = popped + m - 1 /\ left = size - m + 1
        /\ size \in Nat /\ popped \in Nat
    BY <1>1
  <2> HIDE DEF size, m, popped, start, left
  <2>2. Part(Substring(popped, size), m, size) = Substring(start, left)
    BY <2>1, SubstringPart
  <2> QED BY <2>2, Zenon DEF Part, m, popped, start, left
<1>4. Len(Substring(b.total_popped + n, size - n)) = size - n
  <2>1. b.total_popped + n \in Nat
    BY <1>1
  <2> QED BY <1>1, <2>1, SubstringBytes
<1> QED BY <1>2, <1>3, <1>4

\* Writing the bytes that come next: what fits is kept, in its place.
LEMMA PushAppends ==
  ASSUME NEW b \in ByteStreams, StreamOk(b), NEW size \in Nat,
         b.buffer = Substring(b.total_popped, Len(b.buffer)),
         NEW n, n = Least(AvailableCapacity(b), size),
         NEW c, c = WriterPush(b, Substring(b.total_pushed, size))
  PROVE  /\ n \in Nat
         /\ c \in ByteStreams /\ StreamOk(c)
         /\ c.total_pushed = b.total_pushed + n
         /\ c.total_popped = b.total_popped /\ c.capacity = b.capacity
         /\ c.closed = b.closed /\ c.error = b.error
         /\ c.buffer = Substring(c.total_popped, Len(c.buffer))
<1> DEFINE old    == Len(b.buffer)
           data   == Substring(b.total_pushed, size)
           popped == b.total_popped
           more   == Substring(b.total_pushed, n)
<1>1. /\ popped \in Nat /\ old \in Nat /\ b.capacity \in Nat /\ b.total_pushed \in Nat
      /\ old <= b.capacity /\ b.total_pushed = popped + old
      /\ b.buffer = Substring(popped, old)
  BY DEF ByteStreams, StreamOk
<1>2. Len(data) = size
  BY <1>1, SubstringBytes
<1>3. n \in Nat /\ n <= size /\ n <= b.capacity - old
  BY <1>1 DEF Least, AvailableCapacity
<1>4. SubSeq(data, 1, n) = more
  <2>1. /\ 1 \in Nat \ {0} /\ 1 <= n + 1
        /\ b.total_pushed = b.total_pushed + 1 - 1 /\ n = n - 1 + 1
    BY <1>1, <1>3
  <2>2. Part(Substring(b.total_pushed, size), 1, n) = more
    BY <1>1, <1>3, <2>1, SubstringPart
  <2> QED BY <2>2, Zenon DEF Part
<1> DEFINE buffer == Substring(popped, old + n)
           pushed == b.total_pushed + n
<1>5. b.buffer \o more = buffer
  <2> HIDE DEF old, popped
  <2>1. Substring(popped, old) \o Substring(popped + old, n) = Substring(popped, old + n)
    BY <1>1, <1>3, SubstringJoin, ZenonT(40)
  <2> QED BY <1>1, <2>1
<1>6. c = [b EXCEPT !.buffer = buffer, !.total_pushed = pushed]
  BY <1>2, <1>4, <1>5 DEF WriterPush
<1>7. buffer \in Seq(Byte) /\ Len(buffer) = old + n /\ pushed \in Nat
  <2> HIDE DEF old, popped
  <2>1. old + n \in Nat /\ pushed \in Nat
    BY <1>1, <1>3
  <2> QED BY <1>1, <2>1, SubstringBytes
<1> HIDE DEF buffer, pushed
<1>8. /\ c \in ByteStreams /\ c.buffer = buffer /\ c.total_pushed = pushed
      /\ c.total_popped = popped /\ c.capacity = b.capacity /\ c.closed = b.closed
      /\ c.error = b.error
  BY <1>6, <1>7 DEF ByteStreams
<1>9. c.buffer = Substring(c.total_popped, Len(c.buffer))
  BY <1>7, <1>8 DEF buffer
<1>10. StreamOk(c)
  <2> HIDE DEF old, popped
  <2>1. Len(c.buffer) = old + n
    BY <1>7, <1>8
  <2>2. old + n <= b.capacity /\ b.total_pushed + n = popped + (old + n)
    BY <1>1, <1>3
  <2>3. c.total_pushed = b.total_pushed + n
    BY <1>8 DEF pushed
  <2>4. Len(c.buffer) <= c.capacity /\ c.total_pushed = c.total_popped + Len(c.buffer)
    BY <1>8, <2>1, <2>2, <2>3
  <2> QED BY <2>4 DEF StreamOk
<1> QED BY <1>3, <1>6, <1>8, <1>9, <1>10 DEF pushed

-----------------------------------------------------------------------------
(* III. TCPSender.                                                          *)

(* Arithmetic and sequence numbers.                                         *)

\* Wrapped numbers are below the modulus (Wrap32::wrap).
LEMMA WrapInRange ==
  ASSUME NEW n \in Int, NEW zero \in Int
  PROVE  Wrap(n, zero) \in 0..(MOD - 1)
BY ModAssumption DEF Wrap

\* What unwrap() returns is an integer (Wrap32::unwrap).
LEMMA UnwrapIsInteger ==
  ASSUME NEW raw \in Int, NEW zero \in Int, NEW checkpoint \in Int
  PROVE  Unwrap(raw, zero, checkpoint) \in Int
<1>1. /\ (raw + MOD - zero) % MOD \in Int
      /\ checkpoint % MOD \in Int
      /\ Half \in Int
  BY ModAssumption DEF Half
<1> QED BY <1>1, ModAssumption DEF Unwrap

\* Division rounded up (the number of segments that fill_window() cuts): all
\* but the last of the q pieces of size b are full.
LEMMA PiecesCover ==
  ASSUME NEW a \in Nat \ {0}, NEW b \in Nat \ {0},
         NEW q, q = (a + b - 1) \div b
  PROVE  /\ q \in Nat /\ q >= 1
         /\ (q - 1) * b < a
         /\ a <= q * b
<1>1. /\ q \in Int
      /\ b * q <= a + b - 1
      /\ a + b - 1 < b * q + b
  BY Z3
<1>2. q >= 1
  <2>1. SUFFICES ASSUME q <= 0 PROVE FALSE
    BY <1>1
  <2>2. b * q <= 0
    BY <1>1, <2>1, Z3
  <2> QED BY <1>1, <2>2
<1> QED BY <1>1, <1>2, Z3

-----------------------------------------------------------------------------
(* push(): what one call sends fits in the window and is contiguous.        *)

\* A message made from the parts of the sender is well formed.
LEMMA MessageTyped ==
  ASSUME NEW s \in Senders, NEW start \in Nat, NEW syn \in BOOLEAN,
         NEW payload \in Seq(Byte), NEW fin \in BOOLEAN
  PROVE  SenderMessage(s, start, syn, payload, fin) \in Messages
<1>1. s.isn \in Int /\ s.input.error \in BOOLEAN
  BY ModAssumption DEF Senders, ByteStreams
<1>2. Wrap(start, s.isn) \in 0..(MOD - 1)
  <2>1. start \in Int
    OBVIOUS
  <2> QED BY <1>1, <2>1, WrapInRange, Zenon
<1> QED BY <1>1, <1>2 DEF SenderMessage, Messages

\* fill_window() never uses more numbers than there is room for, and reads no
\* more bytes than there are.
LEMMA FilledFits ==
  ASSUME NEW s \in Senders
  PROVE  /\ Room(s) \in Nat
         /\ SynSpace(s) \in {0, 1}
         /\ PayloadTotal(s) \in Nat
         /\ PayloadTotal(s) <= Len(s.input.buffer)
         /\ Room(s) > 0 => SynSpace(s) + PayloadTotal(s) <= Room(s)
         /\ Room(s) = 0 => PayloadTotal(s) = 0 /\ ~SendsFin(s)
         /\ SendsFin(s) \in BOOLEAN
         /\ Filled(s) \in Nat /\ Filled(s) <= Room(s)
<1>1. /\ s.receiver_window \in Nat /\ s.bytes_in_flight \in Nat
      /\ s.fin_sent \in BOOLEAN /\ s.syn_sent \in BOOLEAN
      /\ Len(s.input.buffer) \in Nat /\ s.input.closed \in BOOLEAN
  BY DEF Senders, ByteStreams
<1>2. Room(s) \in Nat /\ SynSpace(s) \in {0, 1}
  BY <1>1 DEF Room, SynSpace
<1>3. /\ PayloadTotal(s) \in Nat
      /\ PayloadTotal(s) <= Len(s.input.buffer)
      /\ Room(s) > 0 => SynSpace(s) + PayloadTotal(s) <= Room(s)
      /\ Room(s) = 0 => PayloadTotal(s) = 0
  BY <1>1, <1>2 DEF PayloadTotal, Least
<1>4. /\ SendsFin(s) \in BOOLEAN
      /\ SendsFin(s) => SynSpace(s) + PayloadTotal(s) + 1 <= Room(s)
  BY <1>1, <1>2, <1>3 DEF SendsFin
<1>5. Room(s) = 0 => ~SendsFin(s)
  BY <1>2, <1>3, <1>4
<1>6. Filled(s) \in Nat /\ Filled(s) <= Room(s)
  BY <1>2, <1>3, <1>4, <1>5 DEF Filled
<1> QED BY <1>2, <1>3, <1>4, <1>5, <1>6

\* The number of segments, and the length of the data in each of them.
LEMMA DataOfSegments ==
  ASSUME NEW s \in Senders
  PROVE  /\ SegmentCount(s) \in Nat
         /\ SegmentCount(s) = 0 <=> Filled(s) = 0
         /\ PayloadTotal(s) = 0 => SegmentCount(s) <= 1
         /\ Room(s) = 0 => SegmentCount(s) = 0
         /\ PayloadTotal(s) > 0 =>
              /\ SegmentCount(s) >= 1
              /\ (SegmentCount(s) - 1) * MAX_PAYLOAD_SIZE < PayloadTotal(s)
              /\ PayloadTotal(s) <= SegmentCount(s) * MAX_PAYLOAD_SIZE
<1>1. CASE Room(s) = 0
  BY <1>1, FilledFits DEF SegmentCount, Filled
<1>2. CASE Room(s) > 0 /\ PayloadTotal(s) = 0
  BY <1>2, FilledFits DEF SegmentCount, Filled
<1>3. CASE Room(s) > 0 /\ PayloadTotal(s) > 0
  <2>1. SegmentCount(s) = (PayloadTotal(s) + MAX_PAYLOAD_SIZE - 1) \div MAX_PAYLOAD_SIZE
    BY <1>3, FilledFits DEF SegmentCount
  <2>2. /\ SegmentCount(s) \in Nat /\ SegmentCount(s) >= 1
        /\ (SegmentCount(s) - 1) * MAX_PAYLOAD_SIZE < PayloadTotal(s)
        /\ PayloadTotal(s) <= SegmentCount(s) * MAX_PAYLOAD_SIZE
    <3>1. PayloadTotal(s) \in Nat \ {0} /\ MAX_PAYLOAD_SIZE \in Nat \ {0}
      BY <1>3, FilledFits, SenderAssumption
    <3> QED BY <2>1, <3>1, PiecesCover, Zenon
  <2>3. Filled(s) > 0
    BY <1>3, FilledFits DEF Filled
  <2> QED BY <1>3, <2>2, <2>3, FilledFits
<1> QED BY <1>1, <1>2, <1>3, FilledFits

\* Where the k-th of the new segments starts and how many numbers it takes.
SegmentStart(s, k) ==
  s.next_seqno + (IF k = 1 THEN 0 ELSE SynSpace(s) + (k - 1) * MAX_PAYLOAD_SIZE)

SegmentData(s, k) ==
  SubSeq(s.input.buffer, (k - 1) * MAX_PAYLOAD_SIZE + 1,
         Least(k * MAX_PAYLOAD_SIZE, PayloadTotal(s)))

SegmentLength(s, k) ==
  (IF k = 1 THEN SynSpace(s) ELSE 0)
    + Least(k * MAX_PAYLOAD_SIZE, PayloadTotal(s)) - (k - 1) * MAX_PAYLOAD_SIZE
    + (IF k = SegmentCount(s) /\ SendsFin(s) THEN 1 ELSE 0)

\* Each new segment is well formed.
LEMMA SegmentShape ==
  ASSUME NEW s \in Senders, NEW k \in 1..SegmentCount(s)
  PROVE  /\ NewSegments(s)[k] \in Segments
         /\ NewSegments(s)[k].seq_start = SegmentStart(s, k)
         /\ NewSegments(s)[k].len = SegmentLength(s, k)
         /\ SegmentLength(s, k) > 0
<1> DEFINE M     == MAX_PAYLOAD_SIZE
           total == PayloadTotal(s)
           count == SegmentCount(s)
           from  == (k - 1) * M
           upto  == Least(k * M, total)
           data  == SegmentData(s, k)
           fin   == k = count /\ SendsFin(s)
           syn   == k = 1 /\ ~s.syn_sent
           msg   == SenderMessage(s, SegmentStart(s, k), syn, data, fin)
<1>1. M \in Nat \ {0} /\ k \in Nat /\ count \in Nat /\ k <= count
  BY SenderAssumption, DataOfSegments
<1>2. /\ from \in Nat /\ k * M \in Nat /\ k * M = from + M
      /\ from <= (count - 1) * M /\ (k = 1 => from = 0)
  BY <1>1, Z3
<1>3. /\ upto \in Nat /\ upto <= total
      /\ total > 0 => from < upto
      /\ total = 0 => k = 1 /\ upto = 0 /\ from = 0
  <2>1. total \in Nat
    BY FilledFits
  <2>2. CASE total = 0
    BY <1>1, <1>2, <2>1, <2>2, DataOfSegments DEF Least
  <2>3. CASE total > 0
    BY <1>1, <1>2, <2>1, <2>3, DataOfSegments DEF Least
  <2> QED BY <2>1, <2>2, <2>3
<1>4. data \in Seq(Byte) /\ Len(data) = upto - from
  <2>1. s.input.buffer \in Seq(Byte) /\ upto <= Len(s.input.buffer)
    BY <1>3, FilledFits, SMTT(30) DEF Senders, ByteStreams
  <2>2. from + 1 \in Nat \ {0} /\ upto \in Nat /\ from <= upto
    BY <1>2, <1>3, FilledFits
  <2>3. /\ SubSeq(s.input.buffer, from + 1, upto) \in Seq(Byte)
        /\ Len(SubSeq(s.input.buffer, from + 1, upto)) = upto - from
    <3> HIDE DEF from, upto
    <3>1. from \in Nat
      BY <1>2
    <3>2. from + 1 <= upto + 1
      BY <2>2, <3>1
    <3> QED BY <2>1, <2>2, <3>1, <3>2, SubSeqInside
  <2>4. data = SubSeq(s.input.buffer, from + 1, upto)
    BY DEF SegmentData
  <2> QED BY <2>3, <2>4
<1>5. /\ SegmentStart(s, k) \in Nat
      /\ fin \in BOOLEAN /\ syn \in BOOLEAN
  <2>1. s.next_seqno \in Nat
    BY DEF Senders
  <2>2. SegmentStart(s, k) \in Nat
    <3> HIDE DEF from
    <3>1. SegmentStart(s, k) = s.next_seqno + (IF k = 1 THEN 0 ELSE SynSpace(s) + from)
      BY DEF SegmentStart, from
    <3> QED BY <1>2, <2>1, <3>1, FilledFits
  <2> QED BY <2>2
<1>6. msg \in Messages /\ msg.SYN = syn /\ msg.payload = data /\ msg.FIN = fin
  BY <1>4, <1>5, MessageTyped DEF SenderMessage
<1>7. SequenceLength(msg) = SegmentLength(s, k)
  BY <1>2, <1>3, <1>4, <1>6, FilledFits DEF SequenceLength, SegmentLength, SynSpace
<1>8. SegmentLength(s, k) \in Nat /\ SegmentLength(s, k) > 0
  <2>1. CASE total > 0
    BY <1>2, <1>3, <2>1, FilledFits DEF SegmentLength
  <2>2. CASE total = 0
    <3>1. k = 1 /\ upto = 0 /\ from = 0 /\ count = 1
      BY <1>1, <1>3, <2>2, DataOfSegments
    <3>2. SynSpace(s) = 1 \/ SendsFin(s)
      BY <2>2, <3>1, FilledFits DEF SegmentCount
    <3> QED BY <3>1, <3>2, FilledFits DEF SegmentLength
  <2> QED BY <2>1, <2>2, FilledFits
<1>9. NewSegments(s)[k] =
        [msg |-> msg, seq_start |-> SegmentStart(s, k), len |-> SequenceLength(msg)]
  BY DEF NewSegments, SegmentStart, SegmentData
<1> QED BY <1>5, <1>6, <1>7, <1>8, <1>9 DEF Segments

\* A segment ends where the next one starts, and the last one ends where the
\* next call of push() will start.
LEMMA SegmentsJoin ==
  ASSUME NEW s \in Senders, NEW k \in 1..SegmentCount(s)
  PROVE  SegmentStart(s, k) + SegmentLength(s, k) =
           IF k < SegmentCount(s) THEN SegmentStart(s, k + 1)
           ELSE s.next_seqno + Filled(s)
<1> DEFINE M     == MAX_PAYLOAD_SIZE
           total == PayloadTotal(s)
           count == SegmentCount(s)
<1>1. /\ M \in Nat \ {0} /\ k \in Nat /\ count \in Nat /\ k >= 1 /\ k <= count
      /\ total \in Nat /\ s.next_seqno \in Nat /\ SynSpace(s) \in {0, 1}
  BY SenderAssumption, DataOfSegments, FilledFits DEF Senders
<1>2. /\ (k - 1) * M \in Nat /\ k * M \in Nat /\ ((k + 1) - 1) * M = k * M
      /\ (k = 1 => (k - 1) * M = 0)
  BY <1>1, Z3
<1>3. Room(s) \in Nat /\ Room(s) > 0
  BY <1>1, DataOfSegments, FilledFits
<1>4. CASE k < count
  <2>1. total > 0 /\ (count - 1) * M < total
    BY <1>1, <1>4, DataOfSegments
  <2>2. k * M <= (count - 1) * M
    BY <1>1, <1>4, Z3
  <2>3. (count - 1) * M \in Int
    BY <1>1
  <2>4. Least(k * M, total) = k * M
    BY <1>1, <1>2, <2>1, <2>2, <2>3 DEF Least
  <2>5. SegmentLength(s, k) = (IF k = 1 THEN SynSpace(s) ELSE 0) + k * M - (k - 1) * M
    BY <1>1, <1>2, <1>4, <2>4 DEF SegmentLength
  <2>6. SegmentStart(s, k + 1) = s.next_seqno + SynSpace(s) + k * M
    BY <1>1, <1>2 DEF SegmentStart
  <2>7. SegmentStart(s, k) =
          s.next_seqno + (IF k = 1 THEN 0 ELSE SynSpace(s) + (k - 1) * M)
    BY DEF SegmentStart
  <2> HIDE DEF M, total, count
  <2>8. SegmentStart(s, k) + SegmentLength(s, k) = SegmentStart(s, k + 1)
    BY <1>1, <1>2, <2>5, <2>6, <2>7
  <2> QED BY <1>4, <2>8 DEF count
<1>5. CASE k = count
  <2>1. Least(k * M, total) = total
    <3>1. CASE total = 0
      BY <1>1, <1>2, <3>1 DEF Least
    <3>2. CASE total > 0
      BY <1>1, <1>2, <1>5, <3>2, DataOfSegments DEF Least
    <3> QED BY <1>1, <3>1, <3>2
  <2>2. SegmentLength(s, k) = (IF k = 1 THEN SynSpace(s) ELSE 0) + total - (k - 1) * M
                                + (IF SendsFin(s) THEN 1 ELSE 0)
    BY <1>1, <1>2, <1>5, <2>1 DEF SegmentLength
  <2>3. SegmentStart(s, k) =
          s.next_seqno + (IF k = 1 THEN 0 ELSE SynSpace(s) + (k - 1) * M)
    BY DEF SegmentStart
  <2>4. Filled(s) = SynSpace(s) + total + (IF SendsFin(s) THEN 1 ELSE 0)
    BY <1>3 DEF Filled
  <2>5. SegmentStart(s, k) + SegmentLength(s, k) = s.next_seqno + Filled(s)
    <3> HIDE DEF M, total, count
    <3> QED BY <1>1, <1>2, <2>2, <2>3, <2>4
  <2> QED BY <1>5, <2>5
<1> QED BY <1>1, <1>4, <1>5

\* What send_segment() records in the loop of push(): well formed, non-empty
\* segments that continue one another from next_seqno_ on.
LEMMA NewSegmentsContinue ==
  ASSUME NEW s \in Senders
  PROVE  /\ NewSegments(s) \in Seq(Segments)
         /\ Len(NewSegments(s)) = SegmentCount(s)
         /\ \A k \in 1..SegmentCount(s) : NewSegments(s)[k].len > 0
         /\ SegmentCount(s) > 0 => NewSegments(s)[1].seq_start = s.next_seqno
         /\ \A k \in 1..(SegmentCount(s) - 1) :
              SegmentEnd(NewSegments(s)[k]) = NewSegments(s)[k + 1].seq_start
         /\ SegmentCount(s) > 0 =>
              SegmentEnd(NewSegments(s)[SegmentCount(s)]) = s.next_seqno + Filled(s)
<1>1. SegmentCount(s) \in Nat
  BY DataOfSegments
<1>2. /\ DOMAIN NewSegments(s) = 1..SegmentCount(s)
      /\ NewSegments(s) = [k \in 1..SegmentCount(s) |-> NewSegments(s)[k]]
  BY DEF NewSegments
<1>3. \A k \in 1..SegmentCount(s) : NewSegments(s)[k] \in Segments
  BY SegmentShape
<1>4. NewSegments(s) \in Seq(Segments) /\ Len(NewSegments(s)) = SegmentCount(s)
  BY <1>1, <1>2, <1>3
<1>5. \A k \in 1..SegmentCount(s) : NewSegments(s)[k].len > 0
  BY SegmentShape
<1>6. ASSUME SegmentCount(s) > 0
      PROVE  NewSegments(s)[1].seq_start = s.next_seqno
  <2>1. 1 \in 1..SegmentCount(s) /\ s.next_seqno \in Nat
    BY <1>1, <1>6 DEF Senders
  <2> QED BY <2>1, SegmentShape DEF SegmentStart
<1>7. ASSUME NEW k \in 1..(SegmentCount(s) - 1)
      PROVE  SegmentEnd(NewSegments(s)[k]) = NewSegments(s)[k + 1].seq_start
  <2>1. k \in 1..SegmentCount(s) /\ k + 1 \in 1..SegmentCount(s) /\ k < SegmentCount(s)
    BY <1>1
  <2> QED BY <2>1, SegmentShape, SegmentsJoin DEF SegmentEnd
<1>8. ASSUME SegmentCount(s) > 0
      PROVE  SegmentEnd(NewSegments(s)[SegmentCount(s)]) = s.next_seqno + Filled(s)
  <2>1. SegmentCount(s) \in 1..SegmentCount(s) /\ ~(SegmentCount(s) < SegmentCount(s))
    BY <1>1, <1>8
  <2> QED BY <2>1, SegmentShape, SegmentsJoin DEF SegmentEnd
<1> QED BY <1>4, <1>5, <1>6, <1>7, <1>8

-----------------------------------------------------------------------------
(* receive(): what an acknowledgment removes.                               *)

\* The pop_front loop stops: some number of segments at the front are fully
\* acknowledged and the next one is not.
LEMMA FullyAckedStops ==
  ASSUME NEW out \in Seq(Segments), NEW ack \in Nat
  PROVE  /\ FullyAcked(out, ack) \in 0..Len(out)
         /\ \A i \in 1..FullyAcked(out, ack) : SegmentEnd(out[i]) <= ack
         /\ FullyAcked(out, ack) < Len(out) =>
              SegmentEnd(out[FullyAcked(out, ack) + 1]) > ack
<1> DEFINE kept == {i \in 1..Len(out) : SegmentEnd(out[i]) > ack}
           Stops(n) == /\ \A i \in 1..n : SegmentEnd(out[i]) <= ack
                       /\ n < Len(out) => SegmentEnd(out[n + 1]) > ack
<1>1. Len(out) \in Nat /\ \A i \in 1..Len(out) : SegmentEnd(out[i]) \in Nat
  <2>1. ASSUME NEW i \in 1..Len(out) PROVE SegmentEnd(out[i]) \in Nat
    <3>1. out[i] \in Segments
      OBVIOUS
    <3> QED BY <3>1 DEF Segments, SegmentEnd
  <2> QED BY <2>1
<1>2. \E n \in 0..Len(out) : Stops(n)
  <2>1. CASE kept = {}
    <3>1. Len(out) \in 0..Len(out) /\ Stops(Len(out))
      BY <1>1, <2>1
    <3> QED BY <3>1
  <2>2. CASE kept # {}
    <3>1. PICK m \in kept : \A k \in kept : m <= k
      <4>1. kept \subseteq Nat
        BY <1>1
      <4> HIDE DEF kept
      <4> QED BY <2>2, <4>1, LeastNumber, Zenon
    <3>2. m - 1 \in 0..Len(out) /\ Stops(m - 1)
      BY <1>1, <3>1
    <3> QED BY <3>2
  <2> QED BY <2>1, <2>2
<1>3. FullyAcked(out, ack) = CHOOSE n \in 0..Len(out) : Stops(n)
  BY DEF FullyAcked
<1> HIDE DEF Stops
<1>4. FullyAcked(out, ack) \in 0..Len(out) /\ Stops(FullyAcked(out, ack))
  BY <1>2, <1>3, Zenon
<1> QED BY <1>4 DEF Stops

-----------------------------------------------------------------------------
(* Each method keeps the sender consistent.                                 *)

\* The constructor makes a consistent sender.
LEMMA NewSenderIsConsistent ==
  ASSUME NEW isn \in 0..(MOD - 1), NEW capacity \in Nat
  PROVE  Consistent(NewSender(isn, capacity))
<1> DEFINE s == NewSender(isn, capacity)
<1>1. s.input \in ByteStreams /\ StreamOk(s.input)
  BY DEF NewSender, NewByteStream, ByteStreams, StreamOk
<1>2. s \in Senders /\ s.RTO > 0
  BY <1>1, SenderAssumption DEF NewSender, Senders
<1>3. /\ s.outstanding = <<>> /\ s.next_seqno = 0 /\ s.bytes_in_flight = 0
      /\ s.receiver_ackno = 0 /\ ~s.timer_running /\ s.timer_elapsed_ms = 0
      /\ ~s.syn_sent /\ ~s.fin_sent /\ s.input.total_popped = 0
  BY DEF NewSender, NewByteStream
<1>4. Contiguous(s.outstanding, s.next_seqno) /\ Unacked(s)
  BY <1>3 DEF Contiguous, Unacked
<1>5. TimerMatches(s) /\ NumbersAddUp(s)
  BY <1>2, <1>3 DEF TimerMatches, NumbersAddUp, Senders
<1> QED BY <1>1, <1>2, <1>4, <1>5 DEF Consistent

\* What the application does to the stream leaves the books alone, as long as
\* nothing is taken out and a stream whose FIN is sent does not grow.
LEMMA StreamChangeKeepsConsistent ==
  ASSUME NEW s, Consistent(s), NEW b \in ByteStreams, StreamOk(b),
         b.total_popped = s.input.total_popped,
         s.fin_sent => IsFinished(b)
  PROVE  Consistent([s EXCEPT !.input = b])
<1> DEFINE t == [s EXCEPT !.input = b]
<1>1. s \in Senders
  BY DEF Consistent
<1>2. t \in Senders
  BY <1>1 DEF Senders
<1>3. /\ t.input = b /\ t.outstanding = s.outstanding
      /\ t.next_seqno = s.next_seqno /\ t.bytes_in_flight = s.bytes_in_flight
      /\ t.receiver_ackno = s.receiver_ackno /\ t.RTO = s.RTO
      /\ t.timer_running = s.timer_running
      /\ t.timer_elapsed_ms = s.timer_elapsed_ms
      /\ t.syn_sent = s.syn_sent /\ t.fin_sent = s.fin_sent
  BY <1>1 DEF Senders
<1> HIDE DEF t
<1>4. TimerMatches(t) /\ Unacked(t) /\ Contiguous(t.outstanding, t.next_seqno)
  BY <1>3 DEF Consistent, TimerMatches, Unacked
<1>5. NumbersAddUp(t)
  BY <1>3 DEF Consistent, NumbersAddUp
<1>6. t.RTO > 0 /\ StreamOk(t.input)
  BY <1>3 DEF Consistent
<1>7. Consistent(t)
  BY <1>2, <1>4, <1>5, <1>6 DEF Consistent
<1> QED BY <1>7 DEF t

\* Appending segments that continue a contiguous deque keeps it contiguous.
LEMMA ContiguousAppend ==
  ASSUME NEW out \in Seq(Segments), NEW more \in Seq(Segments),
         NEW next \in Nat, NEW end \in Nat,
         Contiguous(out, next), Contiguous(more, end),
         more # <<>> => more[1].seq_start = next,
         more = <<>> => end = next
  PROVE  Contiguous(out \o more, end)
<1> DEFINE both == out \o more
<1>1. /\ Len(out) \in Nat /\ Len(more) \in Nat
      /\ Len(both) = Len(out) + Len(more)
      /\ both \in Seq(Segments)
  OBVIOUS
<1>2. \A i \in 1..Len(both) :
        both[i] = IF i <= Len(out) THEN out[i] ELSE more[i - Len(out)]
  OBVIOUS
<1>3. (out = <<>> <=> Len(out) = 0) /\ (more = <<>> <=> Len(more) = 0)
  OBVIOUS
<1>4. (both = <<>>) <=> (Len(both) = 0)
  BY <1>1
<1> HIDE DEF both
<1>5. \A i \in 1..Len(both) : both[i].len > 0
  <2>1. ASSUME NEW i \in 1..Len(both) PROVE both[i].len > 0
    <3>1. CASE i <= Len(out)
      BY <1>1, <1>2, <3>1 DEF Contiguous
    <3>2. CASE i > Len(out)
      <4>1. i - Len(out) \in 1..Len(more)
        BY <1>1, <3>2
      <4> QED BY <1>1, <1>2, <3>2, <4>1 DEF Contiguous
    <3> QED BY <1>1, <3>1, <3>2
  <2> QED BY <2>1
<1>6. \A i \in 1..(Len(both) - 1) : SegmentEnd(both[i]) = both[i + 1].seq_start
  <2>1. ASSUME NEW i \in 1..(Len(both) - 1)
        PROVE  SegmentEnd(both[i]) = both[i + 1].seq_start
    <3>1. i \in 1..Len(both) /\ i + 1 \in 1..Len(both)
      BY <1>1
    <3>2. CASE i < Len(out)
      <4>1. both[i] = out[i] /\ both[i + 1] = out[i + 1] /\ i \in 1..(Len(out) - 1)
        BY <1>1, <1>2, <3>1, <3>2
      <4> QED BY <4>1 DEF Contiguous
    <3>3. CASE i = Len(out)
      <4>1. both[i] = out[Len(out)] /\ both[i + 1] = more[1]
        <5>1. /\ i <= Len(out) /\ ~(i + 1 <= Len(out))
              /\ (i + 1) - Len(out) = 1
          BY <1>1, <3>1, <3>3
        <5>2. both[i] = out[i]
          BY <1>2, <3>1, <5>1
        <5>3. both[i + 1] = more[(i + 1) - Len(out)]
          BY <1>2, <3>1, <5>1
        <5> QED BY <3>3, <5>1, <5>2, <5>3
      <4>2. out # <<>> /\ more # <<>>
        BY <1>1, <1>3, <3>3
      <4> QED BY <4>1, <4>2 DEF Contiguous
    <3>4. CASE i > Len(out)
      <4>1. /\ both[i] = more[i - Len(out)]
            /\ both[i + 1] = more[(i - Len(out)) + 1]
            /\ i - Len(out) \in 1..(Len(more) - 1)
        BY <1>1, <1>2, <3>1, <3>4
      <4> QED BY <4>1 DEF Contiguous
    <3> QED BY <1>1, <3>2, <3>3, <3>4
  <2> QED BY <2>1
<1>7. ASSUME both # <<>> PROVE SegmentEnd(both[Len(both)]) = end
  <2>1. CASE more = <<>>
    <3>1. /\ Len(both) = Len(out) /\ out # <<>> /\ end = next
          /\ both[Len(both)] = out[Len(out)]
      BY <1>1, <1>2, <1>3, <1>4, <1>7, <2>1
    <3> QED BY <3>1 DEF Contiguous
  <2>2. CASE more # <<>>
    <3>1. both[Len(both)] = more[Len(more)]
      <4>1. /\ Len(both) \in 1..Len(both) /\ ~(Len(both) <= Len(out))
            /\ Len(both) - Len(out) = Len(more)
        BY <1>1, <1>3, <2>2
      <4> QED BY <1>2, <4>1
    <3> QED BY <2>2, <3>1 DEF Contiguous
  <2> QED BY <2>1, <2>2
<1> QED BY <1>5, <1>6, <1>7 DEF Contiguous, both

\* The front of a deque of segments (a typing fact).
LEMMA FrontTyped ==
  ASSUME NEW out \in Seq(Segments), NEW i \in 1..Len(out)
  PROVE  out[i].seq_start \in Nat /\ out[i].len \in Nat
<1>1. out[i] \in Segments
  OBVIOUS
<1> QED BY <1>1 DEF Segments

\* push() keeps the sender consistent.
LEMMA PushKeepsConsistent ==
  ASSUME NEW s, Consistent(s)
  PROVE  Consistent(Push(s))
<1> DEFINE t     == Push(s)
           new   == NewSegments(s)
           count == SegmentCount(s)
           input == ReaderPop(s.input, PayloadTotal(s))
<1>1. /\ s \in Senders /\ StreamOk(s.input)
      /\ s.input \in ByteStreams /\ s.outstanding \in Seq(Segments)
      /\ s.next_seqno \in Nat /\ s.bytes_in_flight \in Nat
      /\ s.receiver_ackno \in Nat /\ s.RTO \in Nat /\ s.RTO > 0
      /\ s.timer_elapsed_ms \in Nat /\ s.timer_elapsed_ms < s.RTO
      /\ s.timer_running \in BOOLEAN /\ s.syn_sent \in BOOLEAN
      /\ s.fin_sent \in BOOLEAN
  BY DEF Consistent, Senders, TimerMatches
<1>2. /\ Room(s) \in Nat /\ PayloadTotal(s) \in Nat /\ Filled(s) \in Nat
      /\ SendsFin(s) \in BOOLEAN /\ count \in Nat
      /\ (count = 0 <=> Filled(s) = 0)
      /\ PayloadTotal(s) <= Len(s.input.buffer)
  BY <1>1, FilledFits, DataOfSegments
<1>3. /\ input \in ByteStreams /\ StreamOk(input)
      /\ input.total_popped = s.input.total_popped + PayloadTotal(s)
      /\ input.closed = s.input.closed
      /\ PayloadTotal(s) = Len(s.input.buffer) => input.buffer = <<>>
  BY <1>1, <1>2, PopAccounts
<1>4. /\ new \in Seq(Segments) /\ Len(new) = count
      /\ (new = <<>> <=> count = 0)
      /\ Contiguous(new, s.next_seqno + Filled(s))
      /\ new # <<>> => new[1].seq_start = s.next_seqno
                       /\ SegmentEnd(new[1]) > s.next_seqno
  <2>1. new \in Seq(Segments) /\ Len(new) = count
    BY <1>1, NewSegmentsContinue
  <2>2. new = <<>> <=> count = 0
    BY <2>1
  <2>3. Contiguous(new, s.next_seqno + Filled(s))
    BY <1>1, <1>2, <2>1, <2>2, NewSegmentsContinue, SMTT(30) DEF Contiguous
  <2>4. ASSUME new # <<>>
        PROVE  new[1].seq_start = s.next_seqno /\ SegmentEnd(new[1]) > s.next_seqno
    <3>1. count > 0 /\ 1 \in 1..count
      BY <1>2, <2>2, <2>4
    <3>2. new[1].seq_start = s.next_seqno /\ new[1].len > 0
      BY <1>1, <3>1, NewSegmentsContinue
    <3>3. new[1].len \in Nat
      BY <2>1, <3>1, FrontTyped
    <3> QED BY <1>1, <3>2, <3>3 DEF SegmentEnd
  <2> QED BY <2>1, <2>2, <2>3, <2>4
<1>5. /\ t.input = input
      /\ t.next_seqno = s.next_seqno + Filled(s)
      /\ t.bytes_in_flight = s.bytes_in_flight + Filled(s)
      /\ t.outstanding = s.outstanding \o new
      /\ t.receiver_ackno = s.receiver_ackno
      /\ t.syn_sent = (s.syn_sent \/ Room(s) > 0)
      /\ t.fin_sent = (s.fin_sent \/ SendsFin(s))
      /\ t.timer_running = (s.timer_running \/ count > 0)
      /\ t.timer_elapsed_ms =
           (IF count > 0 /\ ~s.timer_running THEN 0 ELSE s.timer_elapsed_ms)
      /\ t.RTO = s.RTO
  BY <1>1 DEF Push, Senders
<1>6. t \in Senders
  <2> DEFINE next    == s.next_seqno + Filled(s)
             flight  == s.bytes_in_flight + Filled(s)
             out     == s.outstanding \o new
             syn     == s.syn_sent \/ Room(s) > 0
             fin     == s.fin_sent \/ SendsFin(s)
             running == s.timer_running \/ count > 0
             elapsed == IF count > 0 /\ ~s.timer_running THEN 0
                        ELSE s.timer_elapsed_ms
  <2>1. /\ next \in Nat /\ flight \in Nat /\ out \in Seq(Segments)
        /\ syn \in BOOLEAN /\ fin \in BOOLEAN /\ running \in BOOLEAN
        /\ elapsed \in Nat
    BY <1>1, <1>2, <1>4
  <2>2. t = [s EXCEPT !.input = input, !.next_seqno = next,
                      !.bytes_in_flight = flight, !.outstanding = out,
                      !.syn_sent = syn, !.fin_sent = fin,
                      !.timer_running = running, !.timer_elapsed_ms = elapsed]
    BY DEF Push
  <2> HIDE DEF t, new, count, input, next, flight, out, syn, fin, running, elapsed
  <2>3. [s EXCEPT !.input = input, !.next_seqno = next,
                  !.bytes_in_flight = flight, !.outstanding = out,
                  !.syn_sent = syn, !.fin_sent = fin,
                  !.timer_running = running, !.timer_elapsed_ms = elapsed] \in Senders
    BY <1>1, <1>3, <2>1 DEF Senders
  <2> QED BY <2>2, <2>3
<1> HIDE DEF t, new, count, input
<1>7. Contiguous(t.outstanding, t.next_seqno)
  <2>1. s.next_seqno + Filled(s) \in Nat
    BY <1>1, <1>2
  <2>2. Contiguous(s.outstanding, s.next_seqno)
    BY DEF Consistent
  <2>3. new = <<>> => s.next_seqno + Filled(s) = s.next_seqno
    BY <1>1, <1>2, <1>4
  <2> QED BY <1>1, <1>4, <1>5, <2>1, <2>2, <2>3, ContiguousAppend
<1>8. Unacked(t)
  <2>1. CASE s.outstanding = <<>> /\ new = <<>>
    <3>1. Filled(s) = 0 /\ t.outstanding = <<>>
      BY <1>2, <1>4, <1>5, <2>1
    <3>2. s.bytes_in_flight = 0 /\ s.receiver_ackno = s.next_seqno
      BY <2>1 DEF Consistent, Unacked
    <3> QED BY <1>1, <1>5, <3>1, <3>2 DEF Unacked
  <2>2. CASE s.outstanding = <<>> /\ new # <<>>
    <3>1. t.outstanding = new
      BY <1>4, <1>5, <2>2
    <3>2. s.bytes_in_flight = 0 /\ s.receiver_ackno = s.next_seqno
      BY <2>2 DEF Consistent, Unacked
    <3> QED BY <1>1, <1>2, <1>4, <1>5, <2>2, <3>1, <3>2 DEF Unacked
  <2>3. CASE s.outstanding # <<>>
    <3>1. t.outstanding # <<>> /\ t.outstanding[1] = s.outstanding[1]
      BY <1>1, <1>4, <1>5, <2>3
    <3>2. s.outstanding[1].seq_start \in Nat
      BY <1>1, <2>3, FrontTyped
    <3>3. /\ s.bytes_in_flight = s.next_seqno - s.outstanding[1].seq_start
          /\ s.outstanding[1].seq_start <= s.receiver_ackno
          /\ s.receiver_ackno < SegmentEnd(s.outstanding[1])
      BY <2>3 DEF Consistent, Unacked
    <3>4. t.bytes_in_flight = t.next_seqno - t.outstanding[1].seq_start
      <4>1. s.next_seqno \in Nat /\ Filled(s) \in Nat
        BY <1>1, <1>2 DEF Senders
      <4>2. s.bytes_in_flight + Filled(s)
              = (s.next_seqno + Filled(s)) - s.outstanding[1].seq_start
        BY <3>2, <3>3, <4>1
      <4>3. /\ t.next_seqno = s.next_seqno + Filled(s)
            /\ t.bytes_in_flight = s.bytes_in_flight + Filled(s)
        BY <1>5
      <4>4. t.outstanding[1].seq_start = s.outstanding[1].seq_start
        BY <3>1
      <4> QED BY ONLY <4>2, <4>3, <4>4
    <3>5. /\ t.outstanding[1].seq_start <= t.receiver_ackno
          /\ t.receiver_ackno < SegmentEnd(t.outstanding[1])
      BY <1>5, <3>1, <3>3
    <3> QED BY <3>1, <3>4, <3>5 DEF Unacked
  <2> QED BY <2>1, <2>2, <2>3
<1>9. TimerMatches(t)
  <2>1. t.outstanding # <<>> <=> (s.outstanding # <<>> \/ count > 0)
    BY <1>1, <1>2, <1>4, <1>5
  <2>2. s.timer_running <=> s.outstanding # <<>>
    BY DEF Consistent, TimerMatches
  <2> QED BY <1>1, <1>5, <2>1, <2>2 DEF TimerMatches
<1>10. NumbersAddUp(t)
  <2>1. /\ s.next_seqno = (IF s.syn_sent THEN 1 ELSE 0) + s.input.total_popped
                            + (IF s.fin_sent THEN 1 ELSE 0)
        /\ s.fin_sent => s.syn_sent /\ s.input.closed /\ s.input.buffer = <<>>
    BY DEF Consistent, NumbersAddUp, IsFinished
  <2>2. s.fin_sent => Room(s) = 0
    BY DEF Room
  <2>3. Room(s) = 0 => PayloadTotal(s) = 0 /\ ~SendsFin(s)
    BY <1>1, FilledFits
  <2>4. s.input.total_popped \in Nat
    BY <1>1 DEF ByteStreams
  <2>5. t.next_seqno = (IF t.syn_sent THEN 1 ELSE 0) + t.input.total_popped
                         + (IF t.fin_sent THEN 1 ELSE 0)
    <3>1. CASE Room(s) = 0
      <4>1. Filled(s) = 0 /\ PayloadTotal(s) = 0 /\ ~SendsFin(s)
        BY <2>3, <3>1 DEF Filled
      <4> QED BY <1>1, <1>3, <1>5, <2>1, <2>4, <3>1, <4>1
    <3>2. CASE Room(s) > 0
      <4>1. /\ Filled(s) = SynSpace(s) + PayloadTotal(s)
                            + (IF SendsFin(s) THEN 1 ELSE 0)
            /\ ~s.fin_sent
        BY <2>2, <3>2 DEF Filled
      <4>2. SynSpace(s) + (IF s.syn_sent THEN 1 ELSE 0) = 1 /\ SynSpace(s) \in Nat
        BY <1>1 DEF SynSpace
      <4>3. t.syn_sent /\ (t.fin_sent <=> SendsFin(s))
        BY <1>1, <1>2, <1>5, <3>2, <4>1
      <4>4. s.next_seqno = (IF s.syn_sent THEN 1 ELSE 0) + s.input.total_popped
        BY <2>1, <2>4, <4>1
      <4>5. s.next_seqno + SynSpace(s) = 1 + s.input.total_popped
        BY <1>1, <2>4, <4>2, <4>4
      <4>6. t.next_seqno = 1 + t.input.total_popped + (IF SendsFin(s) THEN 1 ELSE 0)
        <5>1. /\ t.next_seqno = s.next_seqno + Filled(s)
              /\ t.input.total_popped = s.input.total_popped + PayloadTotal(s)
          BY <1>3, <1>5
        <5>2. s.next_seqno \in Nat /\ PayloadTotal(s) \in Nat
          BY <1>1, <1>2
        <5>3. t.next_seqno = s.next_seqno + SynSpace(s) + PayloadTotal(s)
                               + (IF SendsFin(s) THEN 1 ELSE 0)
          BY <4>1, <4>2, <5>1, <5>2
        <5> QED BY <2>4, <4>2, <4>5, <5>1, <5>2, <5>3
      <4> QED BY <4>3, <4>6
    <3> QED BY <1>2, <3>1, <3>2
  <2>6. CASE SendsFin(s)
    <3>1. PayloadTotal(s) = Len(s.input.buffer) /\ s.input.closed /\ Room(s) > 0
      BY <1>2, <2>3, <2>6 DEF SendsFin
    <3> QED BY <1>1, <1>3, <1>5, <2>5, <3>1 DEF NumbersAddUp, IsFinished
  <2>7. CASE ~SendsFin(s) /\ s.fin_sent
    <3>1. Len(s.input.buffer) = 0 /\ PayloadTotal(s) = 0
      BY <2>1, <2>2, <2>3, <2>7
    <3> QED BY <1>1, <1>3, <1>5, <2>1, <2>5, <2>7, <3>1 DEF NumbersAddUp, IsFinished
  <2>8. CASE ~SendsFin(s) /\ ~s.fin_sent
    BY <1>5, <2>5, <2>8 DEF NumbersAddUp
  <2> QED BY <2>6, <2>7, <2>8
<1>11. t.RTO > 0 /\ StreamOk(t.input)
  BY <1>1, <1>3, <1>5
<1>12. Consistent(t)
  BY <1>6, <1>7, <1>8, <1>9, <1>10, <1>11 DEF Consistent
<1> QED BY <1>12 DEF t

\* A new window leaves the books alone.
LEMMA WindowKeepsConsistent ==
  ASSUME NEW s, Consistent(s), NEW w \in Nat
  PROVE  Consistent([s EXCEPT !.receiver_window = w])
<1> DEFINE t == [s EXCEPT !.receiver_window = w]
<1>1. s \in Senders
  BY DEF Consistent
<1>2. t \in Senders
  BY <1>1 DEF Senders
<1>3. /\ t.input = s.input /\ t.outstanding = s.outstanding
      /\ t.next_seqno = s.next_seqno /\ t.bytes_in_flight = s.bytes_in_flight
      /\ t.receiver_ackno = s.receiver_ackno /\ t.RTO = s.RTO
      /\ t.timer_running = s.timer_running
      /\ t.timer_elapsed_ms = s.timer_elapsed_ms
      /\ t.syn_sent = s.syn_sent /\ t.fin_sent = s.fin_sent
  BY <1>1 DEF Senders
<1> HIDE DEF t
<1>4. TimerMatches(t) /\ Unacked(t) /\ Contiguous(t.outstanding, t.next_seqno)
  BY <1>3 DEF Consistent, TimerMatches, Unacked
<1>5. NumbersAddUp(t) /\ t.RTO > 0 /\ StreamOk(t.input)
  BY <1>3 DEF Consistent, NumbersAddUp
<1>6. Consistent(t)
  BY <1>2, <1>4, <1>5 DEF Consistent
<1> QED BY <1>6 DEF t

\* In a contiguous deque no segment starts before the front.
LEMMA StartsIncrease ==
  ASSUME NEW out \in Seq(Segments), NEW next, Contiguous(out, next),
         NEW j \in 1..Len(out)
  PROVE  out[1].seq_start <= out[j].seq_start
<1> DEFINE early == {i \in 1..Len(out) : out[i].seq_start < out[1].seq_start}
<1>1. \A i \in 1..Len(out) : out[i].seq_start \in Nat /\ out[i].len \in Nat
  BY FrontTyped
<1>2. Len(out) \in Nat /\ 1 \in 1..Len(out)
  OBVIOUS
<1>3. ASSUME early # {} PROVE FALSE
  <2>1. PICK m \in early : \A k \in early : m <= k
    <3>1. early \subseteq Nat
      BY <1>2
    <3> QED BY <1>3, <3>1, LeastNumber
  <2>2. /\ m \in 1..Len(out) /\ m # 1
        /\ out[m].seq_start < out[1].seq_start
    BY <1>1, <1>2
  <2>3. m - 1 \in 1..(Len(out) - 1) /\ m - 1 \in 1..Len(out) /\ (m - 1) + 1 = m
    BY <1>2, <2>2
  <2>4. SegmentEnd(out[m - 1]) = out[m].seq_start
    <3>1. SegmentEnd(out[m - 1]) = out[(m - 1) + 1].seq_start
      BY <2>3 DEF Contiguous
    <3> QED BY <2>3, <3>1
  <2>5. out[m - 1].seq_start <= out[m].seq_start
    BY <1>1, <2>2, <2>3, <2>4 DEF SegmentEnd
  <2>6. m - 1 \in early
    BY <1>1, <1>2, <2>2, <2>3, <2>5
  <2>7. m <= m - 1
    BY <2>1, <2>6
  <2> QED BY <2>2, <2>7
<1> HIDE DEF early
<1>4. ~(out[j].seq_start < out[1].seq_start)
  BY <1>3 DEF early
<1> QED BY <1>1, <1>2, <1>4

\* An acknowledgment of new data keeps the sender consistent: what is popped
\* is what bytes_in_flight_ loses, and the new front holds the ackno.
LEMMA AcknowledgeKeepsConsistent ==
  ASSUME NEW s, Consistent(s), NEW ack \in Nat,
         ack > s.receiver_ackno, ack <= s.next_seqno
  PROVE  Consistent(Acknowledge(s, ack))
<1> DEFINE t     == Acknowledge(s, ack)
           out   == s.outstanding
           n     == FullyAcked(out, ack)
           kept  == SubSeq(out, n + 1, Len(out))
           freed == IF n = 0 THEN 0 ELSE SegmentEnd(out[n]) - out[1].seq_start
<1>1. /\ s \in Senders /\ out \in Seq(Segments) /\ Len(out) \in Nat
      /\ s.next_seqno \in Nat /\ s.bytes_in_flight \in Nat
      /\ s.receiver_ackno \in Nat
      /\ Contiguous(out, s.next_seqno) /\ Unacked(s)
  BY DEF Consistent, Senders
<1>2. /\ out # <<>> /\ Len(out) > 0
      /\ s.bytes_in_flight = s.next_seqno - out[1].seq_start
      /\ out[1].seq_start <= s.receiver_ackno
  <2>1. out # <<>>
    BY <1>1 DEF Unacked
  <2> QED BY <1>1, <2>1 DEF Unacked
<1>3. /\ n \in 0..Len(out) /\ n \in Nat
      /\ \A i \in 1..n : SegmentEnd(out[i]) <= ack
      /\ n < Len(out) => SegmentEnd(out[n + 1]) > ack
  <2>1. /\ n \in 0..Len(out)
        /\ \A i \in 1..n : SegmentEnd(out[i]) <= ack
        /\ n < Len(out) => SegmentEnd(out[n + 1]) > ack
    BY <1>1, FullyAckedStops
  <2> HIDE DEF n, out
  <2>2. n \in Nat
    BY <1>1, <2>1
  <2> QED BY <2>1, <2>2
<1>4. \A i \in 1..Len(out) : /\ out[i].seq_start \in Nat /\ out[i].len \in Nat
                             /\ SegmentEnd(out[i]) \in Nat
  BY <1>1, FrontTyped DEF SegmentEnd
<1> HIDE DEF n, out
<1>5. /\ kept \in Seq(Segments) /\ Len(kept) = Len(out) - n
      /\ \A i \in 1..Len(kept) : kept[i] = out[n + i]
  <2>1. n + 1 \in Nat \ {0} /\ n + 1 <= Len(out) + 1
    BY <1>1, <1>3
  <2>2. /\ kept \in Seq(Segments) /\ Len(kept) = Len(out) - (n + 1) + 1
        /\ \A i \in 1..(Len(out) - (n + 1) + 1) : kept[i] = out[(n + 1) + i - 1]
    BY <1>1, <2>1, SubSeqInside
  <2>3. Len(kept) = Len(out) - n
    BY <1>1, <1>3, <2>2
  <2>4. \A i \in 1..Len(kept) : kept[i] = out[n + i]
    <3>1. ASSUME NEW i \in 1..Len(kept) PROVE (n + 1) + i - 1 = n + i
      BY <1>1, <1>3, <2>3
    <3> QED BY <2>2, <3>1
  <2> QED BY <2>2, <2>3, <2>4
<1>6. kept = <<>> <=> n = Len(out)
  <2>1. kept \in Seq(Segments) /\ Len(kept) = Len(out) - n
    BY <1>5
  <2> HIDE DEF kept
  <2> QED BY <1>1, <1>3, <2>1
<1>7. freed \in Nat /\ freed <= s.bytes_in_flight
  <2>1. CASE n = 0
    BY <1>1, <2>1
  <2>2. CASE n # 0
    <3>1. n \in 1..Len(out) /\ n \in 1..n /\ 1 \in 1..n /\ 1 \in 1..Len(out)
      BY <1>1, <1>3, <2>2
    <3>2. SegmentEnd(out[n]) <= ack /\ freed = SegmentEnd(out[n]) - out[1].seq_start
      BY <1>3, <2>2, <3>1
    <3>3. out[1].seq_start <= out[n].seq_start
      BY <1>1, <3>1, StartsIncrease
    <3>4. out[n].seq_start <= SegmentEnd(out[n])
      BY <1>4, <3>1 DEF SegmentEnd
    <3> QED BY <1>1, <1>2, <1>4, <3>1, <3>2, <3>3, <3>4
  <2> QED BY <2>1, <2>2
<1>8. /\ t.input = s.input /\ t.outstanding = kept
      /\ t.next_seqno = s.next_seqno
      /\ t.bytes_in_flight = s.bytes_in_flight - freed
      /\ t.receiver_ackno = ack /\ t.RTO = InitialRTO
      /\ t.timer_running = (kept # <<>>)
      /\ t.timer_elapsed_ms = 0
      /\ t.syn_sent = s.syn_sent /\ t.fin_sent = s.fin_sent
  BY <1>1 DEF Acknowledge, Senders, n, out
<1>9. t \in Senders
  <2> DEFINE flight  == s.bytes_in_flight - freed
             running == kept # <<>>
  <2>1. /\ flight \in Nat /\ running \in BOOLEAN
        /\ InitialRTO \in Nat /\ 0 \in Nat
    BY <1>1, <1>7, SenderAssumption
  <2>2. t = [s EXCEPT !.receiver_ackno = ack, !.outstanding = kept,
                      !.bytes_in_flight = flight, !.RTO = InitialRTO,
                      !.consecutive_retx = 0, !.timer_running = running,
                      !.timer_elapsed_ms = 0]
    BY DEF Acknowledge, n, out
  <2> HIDE DEF t, kept, freed, flight, running
  <2>3. [s EXCEPT !.receiver_ackno = ack, !.outstanding = kept,
                  !.bytes_in_flight = flight, !.RTO = InitialRTO,
                  !.consecutive_retx = 0, !.timer_running = running,
                  !.timer_elapsed_ms = 0] \in Senders
    BY <1>1, <1>5, <2>1 DEF Senders
  <2> QED BY <2>2, <2>3
<1> HIDE DEF t, kept
<1>10. Contiguous(kept, s.next_seqno)
  <2>1. ASSUME NEW i \in 1..Len(kept) PROVE kept[i].len > 0
    <3>1. n + i \in 1..Len(out)
      BY <1>1, <1>3, <1>5, <2>1
    <3> QED BY <1>1, <1>5, <2>1, <3>1 DEF Contiguous
  <2>2. ASSUME NEW i \in 1..(Len(kept) - 1)
        PROVE  SegmentEnd(kept[i]) = kept[i + 1].seq_start
    <3>1. /\ n + i \in 1..(Len(out) - 1) /\ (n + i) + 1 = n + (i + 1)
          /\ i \in 1..Len(kept) /\ i + 1 \in 1..Len(kept)
      BY <1>1, <1>3, <1>5, <2>2
    <3>2. SegmentEnd(out[n + i]) = out[(n + i) + 1].seq_start
      BY <1>1, <3>1 DEF Contiguous
    <3>3. kept[i] = out[n + i] /\ kept[i + 1] = out[n + (i + 1)]
      BY <1>5, <3>1
    <3> QED BY <3>1, <3>2, <3>3
  <2>3. ASSUME kept # <<>> PROVE SegmentEnd(kept[Len(kept)]) = s.next_seqno
    <3>1. Len(kept) \in 1..Len(kept) /\ n + Len(kept) = Len(out)
      BY <1>1, <1>3, <1>5, <2>3
    <3>2. kept[Len(kept)] = out[Len(out)]
      BY <1>5, <3>1
    <3> QED BY <1>1, <1>2, <3>2 DEF Contiguous
  <2> QED BY <2>1, <2>2, <2>3 DEF Contiguous
<1>11. Unacked(t)
  <2>1. CASE kept = <<>>
    <3>1. n = Len(out) /\ n \in 1..n /\ n # 0
      BY <1>1, <1>2, <1>3, <1>6, <2>1
    <3>2. SegmentEnd(out[n]) = s.next_seqno
      BY <1>1, <1>2, <3>1 DEF Contiguous
    <3>3. ack = s.next_seqno
      BY <1>1, <1>3, <3>1, <3>2
    <3>4. freed = s.bytes_in_flight
      BY <1>2, <3>1, <3>2
    <3> QED BY <1>1, <1>8, <2>1, <3>3, <3>4 DEF Unacked
  <2>2. CASE kept # <<>>
    <3>1. n < Len(out) /\ n + 1 \in 1..Len(out) /\ 1 \in 1..Len(kept)
      BY <1>1, <1>3, <1>5, <1>6, <2>2
    <3>2. kept[1] = out[n + 1] /\ ack < SegmentEnd(kept[1])
      BY <1>3, <1>4, <1>5, <3>1
    <3>3. /\ kept[1].seq_start <= ack
          /\ freed = kept[1].seq_start - out[1].seq_start
      <4>1. CASE n = 0
        BY <1>1, <1>2, <1>4, <3>1, <3>2, <4>1
      <4>2. CASE n # 0
        <5>1. n \in 1..n /\ n \in 1..(Len(out) - 1)
          BY <1>1, <1>3, <3>1, <4>2
        <5>2. SegmentEnd(out[n]) = out[n + 1].seq_start
          BY <1>1, <5>1 DEF Contiguous
        <5>3. SegmentEnd(out[n]) <= ack
          BY <1>3, <5>1
        <5> QED BY <3>2, <4>2, <5>2, <5>3
      <4> QED BY <4>1, <4>2
    <3>4. kept[1].seq_start \in Nat /\ out[1].seq_start \in Nat
      BY <1>1, <1>2, <1>4, <3>1, <3>2
    <3>5. s.bytes_in_flight - freed = s.next_seqno - kept[1].seq_start
      BY <1>1, <1>2, <3>3, <3>4
    <3> QED BY <1>8, <2>2, <3>2, <3>3, <3>5 DEF Unacked
  <2> QED BY <2>1, <2>2
<1>12. TimerMatches(t) /\ t.RTO > 0 /\ StreamOk(t.input) /\ NumbersAddUp(t)
  <2>1. InitialRTO \in Nat /\ InitialRTO > 0
    BY SenderAssumption
  <2>2. TimerMatches(t)
    BY <1>8, <2>1 DEF TimerMatches
  <2>3. StreamOk(t.input) /\ NumbersAddUp(t)
    BY <1>8 DEF Consistent, NumbersAddUp
  <2> QED BY <1>8, <2>1, <2>2, <2>3
<1>13. Consistent(t)
  BY <1>8, <1>9, <1>10, <1>11, <1>12 DEF Consistent
<1> QED BY <1>13 DEF t

\* receive() keeps the sender consistent, whatever the message says.
LEMMA ReceiveKeepsConsistent ==
  ASSUME NEW s, Consistent(s), NEW m,
         m.window_size \in Nat, m.ackno \in 0..(MOD - 1) \union {NoAckno}
  PROVE  Consistent(SenderReceive(s, m))
<1>1. /\ s \in Senders /\ s.isn \in Int /\ s.receiver_ackno \in Nat
      /\ s.input \in ByteStreams /\ StreamOk(s.input)
      /\ s.fin_sent => IsFinished(s.input)
  BY ModAssumption DEF Consistent, Senders, NumbersAddUp
<1>2. m.window_size \in Nat /\ m.ackno \in Int \union {NoAckno}
  BY ModAssumption
<1>3. CASE m.RST
  <2> DEFINE b == SetError(s.input)
  <2>1. /\ b \in ByteStreams /\ b.total_popped = s.input.total_popped
        /\ b.closed = s.input.closed /\ b.buffer = s.input.buffer
        /\ b.total_pushed = s.input.total_pushed /\ b.capacity = s.input.capacity
    BY <1>1 DEF SetError, ByteStreams
  <2>2. SenderReceive(s, m) = [s EXCEPT !.input = b]
    BY <1>3 DEF SenderReceive
  <2> HIDE DEF b
  <2>3. StreamOk(b) /\ (s.fin_sent => IsFinished(b))
    BY <1>1, <2>1 DEF StreamOk, IsFinished
  <2> QED BY <1>1, <2>1, <2>2, <2>3, StreamChangeKeepsConsistent
<1>4. CASE ~m.RST /\ AcksNewData(s, m.ackno)
  <2> DEFINE ack == Unwrap(m.ackno, s.isn, s.receiver_ackno)
  <2>1. ack > s.receiver_ackno /\ ack <= s.next_seqno /\ m.ackno # NoAckno
    BY <1>4 DEF AcksNewData
  <2>2. ack \in Int
    <3>1. m.ackno \in Int /\ s.receiver_ackno \in Int
      BY <1>1, <1>2, <2>1
    <3> QED BY <1>1, <3>1, UnwrapIsInteger
  <2>3. SenderReceive(s, m) =
          [Acknowledge(s, ack) EXCEPT !.receiver_window = m.window_size]
    BY <1>4 DEF SenderReceive
  <2> HIDE DEF ack
  <2>4. ack \in Nat
    BY <1>1, <2>1, <2>2
  <2>5. Consistent(Acknowledge(s, ack))
    BY <2>1, <2>4, AcknowledgeKeepsConsistent
  <2> QED BY <1>2, <2>3, <2>5, WindowKeepsConsistent
<1>5. CASE ~m.RST /\ ~AcksNewData(s, m.ackno)
  <2>1. SenderReceive(s, m) = [s EXCEPT !.receiver_window = m.window_size]
    BY <1>5 DEF SenderReceive
  <2> QED BY <1>2, <2>1, WindowKeepsConsistent
<1> QED BY <1>3, <1>4, <1>5

\* The segment that a timeout retransmits: well formed, and still the same
\* numbers.
LEMMA OldestTyped ==
  ASSUME NEW s \in Senders, s.outstanding # <<>>
  PROVE  /\ Oldest(s) \in Segments
         /\ Oldest(s).seq_start = s.outstanding[1].seq_start
         /\ Oldest(s).len = s.outstanding[1].len
<1> DEFINE front == s.outstanding[1]
           RST   == front.msg.RST \/ s.input.error
<1>1. front \in Segments /\ s.input.error \in BOOLEAN
  <2>1. s.outstanding \in Seq(Segments)
    BY DEF Senders
  <2>2. 1 \in 1..Len(s.outstanding)
    BY <2>1
  <2> QED BY <2>1, <2>2 DEF Senders, ByteStreams
<1>2. front.msg \in Messages /\ RST \in BOOLEAN
  BY <1>1 DEF Segments, Messages
<1>3. Oldest(s) = [front EXCEPT !.msg = [front.msg EXCEPT !.RST = RST]]
  BY DEF Oldest
<1> HIDE DEF front, RST
<1>4. [front.msg EXCEPT !.RST = RST] \in Messages
  BY <1>2 DEF Messages
<1>5. Oldest(s) \in Segments
  BY <1>1, <1>3, <1>4 DEF Segments
<1>6. Oldest(s).seq_start = front.seq_start /\ Oldest(s).len = front.len
  BY <1>1, <1>3 DEF Segments
<1> QED BY <1>5, <1>6 DEF front

\* tick() keeps the sender consistent.
LEMMA TickKeepsConsistent ==
  ASSUME NEW s, Consistent(s), NEW ms \in Nat
  PROVE  Consistent(SenderTick(s, ms))
<1> DEFINE out == s.outstanding
<1>1. /\ s \in Senders /\ out \in Seq(Segments)
      /\ s.RTO \in Nat /\ s.RTO > 0 /\ s.timer_elapsed_ms \in Nat
      /\ s.consecutive_retx \in Nat /\ s.receiver_window \in Nat
      /\ s.timer_running <=> out # <<>>
      /\ StreamOk(s.input) /\ Contiguous(out, s.next_seqno) /\ Unacked(s)
      /\ NumbersAddUp(s)
  BY DEF Consistent, Senders, TimerMatches
<1>2. CASE ~s.timer_running
  BY <1>2 DEF SenderTick
<1>3. CASE s.timer_running /\ ~TimerFires(s, ms)
  <2> DEFINE elapsed == s.timer_elapsed_ms + ms
             t       == [s EXCEPT !.timer_elapsed_ms = elapsed]
  <2>1. SenderTick(s, ms) = t /\ elapsed \in Nat /\ elapsed < s.RTO
    BY <1>1, <1>3 DEF SenderTick, TimerFires
  <2> HIDE DEF elapsed
  <2>2. t \in Senders
    BY <1>1, <2>1 DEF Senders
  <2>3. /\ t.input = s.input /\ t.outstanding = s.outstanding
        /\ t.next_seqno = s.next_seqno /\ t.bytes_in_flight = s.bytes_in_flight
        /\ t.receiver_ackno = s.receiver_ackno /\ t.RTO = s.RTO
        /\ t.timer_running = s.timer_running /\ t.timer_elapsed_ms = elapsed
        /\ t.syn_sent = s.syn_sent /\ t.fin_sent = s.fin_sent
    BY <1>1 DEF Senders
  <2> HIDE DEF t
  <2>4. Unacked(t) /\ NumbersAddUp(t)
    BY <1>1, <2>3 DEF Unacked, NumbersAddUp
  <2>5. TimerMatches(t) /\ t.RTO > 0
    BY <1>1, <2>1, <2>3 DEF TimerMatches
  <2>6. Consistent(t)
    BY <1>1, <2>2, <2>3, <2>4, <2>5 DEF Consistent
  <2> QED BY <2>1, <2>6
<1>4. CASE s.timer_running /\ TimerFires(s, ms)
  <2> DEFINE t      == SenderTick(s, ms)
             newout == [out EXCEPT ![1] = Oldest(s)]
             open   == s.receiver_window > 0
             RTO    == IF open THEN 2 * s.RTO ELSE s.RTO
             retx   == IF open THEN s.consecutive_retx + 1 ELSE s.consecutive_retx
  <2>1. out # <<>> /\ Len(out) \in Nat /\ 1 \in 1..Len(out)
    BY <1>1, <1>4
  <2>2. /\ Oldest(s) \in Segments
        /\ Oldest(s).seq_start = out[1].seq_start
        /\ Oldest(s).len = out[1].len
    BY <1>1, <2>1, OldestTyped
  <2>3. RTO \in Nat /\ RTO > 0 /\ retx \in Nat
    BY <1>1
  <2>4. t = [BackedOff(s) EXCEPT !.outstanding = newout, !.timer_elapsed_ms = 0]
    <3>1. BackedOff(s).outstanding = out
      BY <1>1 DEF BackedOff, Senders
    <3> QED BY <1>4, <2>1, <3>1 DEF SenderTick
  <2>5. BackedOff(s) = [s EXCEPT !.consecutive_retx = retx, !.RTO = RTO]
    BY <1>1 DEF BackedOff, Senders
  <2>6. newout \in Seq(Segments) /\ Len(newout) = Len(out)
    BY <1>1, <2>1, <2>2
  <2>7. \A i \in 1..Len(out) : /\ newout[i].seq_start = out[i].seq_start
                               /\ newout[i].len = out[i].len
                               /\ SegmentEnd(newout[i]) = SegmentEnd(out[i])
    <3>1. ASSUME NEW i \in 1..Len(out)
          PROVE  newout[i].seq_start = out[i].seq_start /\ newout[i].len = out[i].len
      <4>1. CASE i = 1
        BY <1>1, <2>1, <2>2, <4>1
      <4>2. CASE i # 1
        BY <1>1, <4>2
      <4> QED BY <4>1, <4>2
    <3> QED BY <3>1 DEF SegmentEnd
  <2> HIDE DEF newout, RTO, retx
  <2>8. t \in Senders
    <3>1. BackedOff(s) \in Senders
      BY <1>1, <2>3, <2>5 DEF Senders
    <3>2. 0 \in Nat
      OBVIOUS
    <3> HIDE DEF t
    <3> QED BY <2>4, <2>6, <3>1, <3>2 DEF Senders
  <2>9. /\ t.input = s.input /\ t.outstanding = newout
        /\ t.next_seqno = s.next_seqno /\ t.bytes_in_flight = s.bytes_in_flight
        /\ t.receiver_ackno = s.receiver_ackno /\ t.RTO = RTO
        /\ t.timer_running = s.timer_running /\ t.timer_elapsed_ms = 0
        /\ t.syn_sent = s.syn_sent /\ t.fin_sent = s.fin_sent
    <3> HIDE DEF t
    <3> QED BY <1>1, <2>4, <2>5 DEF Senders
  <2> HIDE DEF t, out
  <2>10. newout # <<>>
    BY <2>1, <2>6
  <2>11. Contiguous(newout, s.next_seqno)
    <3>1. \A i \in 1..Len(newout) : newout[i].len > 0
      BY <1>1, <2>6, <2>7 DEF Contiguous
    <3>2. ASSUME NEW i \in 1..(Len(newout) - 1)
          PROVE  SegmentEnd(newout[i]) = newout[i + 1].seq_start
      <4>1. i \in 1..Len(out) /\ i + 1 \in 1..Len(out) /\ i \in 1..(Len(out) - 1)
        BY <2>1, <2>6
      <4>2. SegmentEnd(out[i]) = out[i + 1].seq_start
        BY <1>1, <4>1 DEF Contiguous
      <4> QED BY <2>7, <4>1, <4>2
    <3>3. SegmentEnd(newout[Len(newout)]) = s.next_seqno
      <4>1. Len(newout) \in 1..Len(out)
        BY <2>1, <2>6
      <4> QED BY <1>1, <2>1, <2>6, <2>7, <4>1 DEF Contiguous
    <3> QED BY <3>1, <3>2, <3>3 DEF Contiguous
  <2>12. Unacked(t)
    <3>1. /\ s.bytes_in_flight = s.next_seqno - out[1].seq_start
          /\ out[1].seq_start <= s.receiver_ackno
          /\ s.receiver_ackno < SegmentEnd(out[1])
      BY <1>1, <2>1 DEF Unacked, out
    <3>2. newout[1].seq_start = out[1].seq_start /\ SegmentEnd(newout[1]) = SegmentEnd(out[1])
      BY <2>1, <2>7
    <3> QED BY <2>9, <2>10, <3>1, <3>2 DEF Unacked
  <2>13. TimerMatches(t) /\ NumbersAddUp(t) /\ t.RTO > 0 /\ StreamOk(t.input)
    BY <1>1, <1>4, <2>3, <2>9, <2>10 DEF TimerMatches, NumbersAddUp
  <2>14. Contiguous(t.outstanding, t.next_seqno)
    BY <2>9, <2>11
  <2>15. Consistent(t)
    BY <2>8, <2>12, <2>13, <2>14 DEF Consistent
  <2> QED BY <2>15 DEF t
<1> QED BY <1>2, <1>3, <1>4

\* The application writes to an open stream: it keeps what fits.
LEMMA WriteKeepsConsistent ==
  ASSUME NEW s, Consistent(s), NEW data \in Seq(Byte), ~s.input.closed
  PROVE  Consistent([s EXCEPT !.input = WriterPush(s.input, data)])
<1> DEFINE old == s.input
           n   == Least(AvailableCapacity(old), Len(data))
           b   == WriterPush(old, data)
<1>1. /\ old \in ByteStreams /\ StreamOk(old)
      /\ old.buffer \in Seq(Byte) /\ old.capacity \in Nat
      /\ old.total_pushed \in Nat /\ old.total_popped \in Nat
      /\ s.fin_sent => IsFinished(old)
  BY DEF Consistent, Senders, ByteStreams, NumbersAddUp
<1>2. ~s.fin_sent
  BY <1>1 DEF IsFinished
<1>3. /\ n \in Nat /\ n <= Len(data) /\ n <= old.capacity - Len(old.buffer)
  BY <1>1 DEF Least, AvailableCapacity, StreamOk
<1>4. /\ SubSeq(data, 1, n) \in Seq(Byte) /\ Len(SubSeq(data, 1, n)) = n
  <2> HIDE DEF n
  <2>1. 1 \in Nat \ {0} /\ 1 <= n + 1
    BY <1>3
  <2>2. Len(SubSeq(data, 1, n)) = n - 1 + 1
    BY <1>3, <2>1, SubSeqInside
  <2> QED BY <1>3, <2>1, <2>2, SubSeqInside
<1> DEFINE part   == SubSeq(data, 1, n)
           buffer == old.buffer \o part
           pushed == old.total_pushed + n
<1>5. b = [old EXCEPT !.buffer = buffer, !.total_pushed = pushed]
  BY DEF WriterPush
<1>6. /\ buffer \in Seq(Byte) /\ pushed \in Nat
      /\ Len(buffer) = Len(old.buffer) + n
  <2>1. part \in Seq(Byte) /\ Len(part) = n /\ n \in Nat
    BY <1>3, <1>4
  <2> HIDE DEF part, n, old
  <2>2. buffer \in Seq(Byte) /\ Len(buffer) = Len(old.buffer) + n
    BY <1>1, <2>1
  <2>3. pushed \in Nat
    BY <1>1, <2>1
  <2> QED BY <2>2, <2>3
<1> HIDE DEF part, buffer, b, n
<1>7. b \in ByteStreams
  <2> HIDE DEF pushed
  <2> QED BY <1>1, <1>5, <1>6 DEF ByteStreams
<1>8. /\ b.total_popped = old.total_popped /\ b.total_pushed = pushed
      /\ b.buffer = buffer /\ b.capacity = old.capacity
  BY <1>1, <1>5 DEF ByteStreams
<1>9. StreamOk(b)
  <2>1. /\ Len(old.buffer) \in Nat /\ n \in Nat
        /\ old.total_pushed = old.total_popped + Len(old.buffer)
        /\ n <= old.capacity - Len(old.buffer)
    BY <1>1, <1>3 DEF StreamOk
  <2>2. Len(b.buffer) = Len(old.buffer) + n
    BY <1>6, <1>8
  <2>3. Len(b.buffer) <= b.capacity
    BY <1>1, <1>8, <2>1, <2>2
  <2>4. b.total_pushed = b.total_popped + Len(b.buffer)
    BY <1>1, <1>8, <2>1, <2>2
  <2> QED BY <2>3, <2>4 DEF StreamOk
<1>10. Consistent([s EXCEPT !.input = b])
  BY <1>2, <1>7, <1>8, <1>9, StreamChangeKeepsConsistent
<1> QED BY <1>10 DEF b

\* The application closes its stream or sets its error flag.
LEMMA MarkKeepsConsistent ==
  ASSUME NEW s, Consistent(s), NEW closed \in BOOLEAN, NEW error \in BOOLEAN,
         s.input.closed => closed
  PROVE  Consistent([s EXCEPT !.input = [s.input EXCEPT !.closed = closed,
                                                        !.error = error]])
<1> DEFINE old == s.input
           b   == [old EXCEPT !.closed = closed, !.error = error]
<1>1. /\ old \in ByteStreams /\ StreamOk(old)
      /\ s.fin_sent => IsFinished(old)
  BY DEF Consistent, Senders, NumbersAddUp
<1>2. /\ b \in ByteStreams /\ b.total_popped = old.total_popped
      /\ b.closed = closed /\ b.buffer = old.buffer
      /\ b.total_pushed = old.total_pushed /\ b.capacity = old.capacity
  BY <1>1 DEF ByteStreams
<1> HIDE DEF b
<1>3. StreamOk(b) /\ (s.fin_sent => IsFinished(b))
  BY <1>1, <1>2 DEF StreamOk, IsFinished
<1>4. Consistent([s EXCEPT !.input = b])
  BY <1>2, <1>3, StreamChangeKeepsConsistent
<1> QED BY <1>4 DEF b

\* What push() and tick() transmit are well formed messages.
LEMMA TransmissionsTyped ==
  ASSUME NEW s, Consistent(s), NEW ms \in Nat
  PROVE  PushTransmits(s) \in Seq(Messages) /\ TickTransmits(s, ms) \in Seq(Messages)
<1>1. s \in Senders
  BY DEF Consistent
<1>2. PushTransmits(s) \in Seq(Messages)
  <2> DEFINE new == NewSegments(s)
  <2>1. new \in Seq(Segments) /\ Len(new) \in Nat /\ DOMAIN new = 1..Len(new)
    BY <1>1, NewSegmentsContinue
  <2>2. PushTransmits(s) = [k \in 1..Len(new) |-> new[k].msg]
    BY <2>1 DEF PushTransmits
  <2> HIDE DEF new
  <2>3. ASSUME NEW k \in 1..Len(new) PROVE new[k].msg \in Messages
    <3>1. new[k] \in Segments
      BY <2>1
    <3> QED BY <3>1 DEF Segments
  <2> QED BY <2>1, <2>2, <2>3
<1>3. TickTransmits(s, ms) \in Seq(Messages)
  <2>1. CASE TimerFires(s, ms)
    <3>1. Oldest(s) \in Segments
      BY <1>1, <2>1, OldestTyped DEF TimerFires
    <3>2. Oldest(s).msg \in Messages
      BY <3>1 DEF Segments
    <3> QED BY <2>1, <3>2 DEF TickTransmits
  <2>2. CASE ~TimerFires(s, ms)
    BY <2>2 DEF TickTransmits
  <2> QED BY <2>1, <2>2
<1> QED BY <1>2, <1>3

\* push() takes the flight to the window in force at most (a zero window
\* counts as one), and sends nothing new once the FIN is out.
LEMMA PushFitsWindow ==
  ASSUME NEW s \in Senders, Push(s).next_seqno > s.next_seqno
  PROVE  /\ \/ Push(s).bytes_in_flight <= s.receiver_window
            \/ Push(s).bytes_in_flight = 1
         /\ ~s.fin_sent
<1>1. /\ s.next_seqno \in Nat /\ s.bytes_in_flight \in Nat
      /\ s.receiver_window \in Nat
  BY DEF Senders
<1>2. /\ Push(s).next_seqno = s.next_seqno + Filled(s)
      /\ Push(s).bytes_in_flight = s.bytes_in_flight + Filled(s)
  BY DEF Push, Senders
<1>3. /\ Filled(s) \in Nat /\ Filled(s) > 0
      /\ Filled(s) <= Room(s) /\ Room(s) \in Nat
  BY <1>1, <1>2, FilledFits
<1>4. /\ ~s.fin_sent
      /\ s.receiver_window > 0 => Room(s) = s.receiver_window - s.bytes_in_flight
      /\ s.receiver_window = 0 => Room(s) = 1 - s.bytes_in_flight
  BY <1>1, <1>3 DEF Room
<1> QED BY <1>1, <1>2, <1>3, <1>4

-----------------------------------------------------------------------------
(* What the segments say.                                                   *)

\* A message takes a number of sequence numbers (TCPSenderMessage).
LEMMA SequenceLengthIsNat ==
  ASSUME NEW m \in Messages
  PROVE  SequenceLength(m) \in Nat
<1>1. Len(m.payload) \in Nat
  BY DEF Messages
<1>2. (IF m.SYN THEN 1 ELSE 0) \in Nat /\ (IF m.FIN THEN 1 ELSE 0) \in Nat
  OBVIOUS
<1>3. \A a, b, c \in Nat : a + b + c \in Nat
  OBVIOUS
<1> QED BY <1>1, <1>2, <1>3, Zenon DEF SequenceLength

\* The sender t is later than s: it has sent more, but nothing after the FIN.
Follows(s, t) ==
  /\ t.isn = s.isn
  /\ t.next_seqno >= s.next_seqno
  /\ s.fin_sent => t.fin_sent /\ t.next_seqno = s.next_seqno
  /\ t.fin_sent /\ ~s.fin_sent => t.next_seqno > s.next_seqno

\* A segment that was right stays right while the sender goes on.
LEMMA SaysLater ==
  ASSUME NEW s \in Senders, NEW t \in Senders, NEW m \in Messages, NEW start \in Nat,
         Says(s, m, start), Follows(s, t)
  PROVE  Says(t, m, start)
<1>1. SequenceLength(m) \in Nat
  BY SequenceLengthIsNat
<1>2. s.next_seqno \in Nat /\ t.next_seqno \in Nat
  BY DEF Senders
<1> QED BY <1>1, <1>2 DEF Says, Follows

\* The bytes in the k-th new segment: those of the buffer from one multiple of
\* the payload size to the next, or to the last byte that may be read.
LEMMA PieceOfSegment ==
  ASSUME NEW s \in Senders, NEW k \in 1..SegmentCount(s),
         NEW from, from = (k - 1) * MAX_PAYLOAD_SIZE
  PROVE  /\ from \in Nat /\ (k = 1 <=> from = 0)
         /\ k * MAX_PAYLOAD_SIZE = from + MAX_PAYLOAD_SIZE
         /\ k < SegmentCount(s) => from + MAX_PAYLOAD_SIZE < PayloadTotal(s)
         /\ \E upto \in Nat :
              /\ from <= upto /\ upto <= PayloadTotal(s)
              /\ SegmentData(s, k) = SubSeq(s.input.buffer, from + 1, upto)
<1> DEFINE M     == MAX_PAYLOAD_SIZE
           total == PayloadTotal(s)
           count == SegmentCount(s)
           last  == (count - 1) * M
           upto  == Least(k * M, total)
<1>1. M \in Nat \ {0} /\ k \in Nat /\ k >= 1 /\ count \in Nat /\ k <= count
  BY SenderAssumption, DataOfSegments
<1>2. /\ from \in Nat /\ k * M = from + M /\ (k = 1 <=> from = 0)
      /\ last \in Nat /\ from <= last /\ (k < count => from + M <= last)
  BY <1>1, Z3
<1>3. /\ total \in Nat
      /\ total > 0 => last < total
      /\ total = 0 => count <= 1
  BY DataOfSegments, FilledFits
<1>4. SegmentData(s, k) = SubSeq(s.input.buffer, from + 1, upto)
  BY DEF SegmentData
<1>5. upto = Least(from + M, total)
  BY <1>2
<1> HIDE DEF M, total, count, last, upto
<1>6. upto \in Nat /\ from <= upto /\ upto <= total
  <2>1. CASE total = 0
    BY <1>1, <1>2, <1>3, <1>5, <2>1 DEF Least
  <2>2. CASE total > 0
    BY <1>1, <1>2, <1>3, <1>5, <2>2 DEF Least
  <2> QED BY <1>3, <2>1, <2>2
<1>7. k < count => from + M < total
  BY <1>1, <1>2, <1>3
<1> QED BY <1>2, <1>4, <1>6, <1>7 DEF M, total, count

\* Before the SYN the next number is 0, and afterwards it follows the SYN and
\* the bytes that were read.
LEMMA NumbersBefore ==
  ASSUME NEW s, Consistent(s), Honest(s), ~s.fin_sent
  PROVE  /\ s.next_seqno + SynSpace(s) = s.input.total_popped + 1
         /\ ~s.syn_sent => s.next_seqno = 0
         /\ s.syn_sent => s.next_seqno > 0
<1>1. /\ s.next_seqno \in Nat /\ s.input.total_popped \in Nat
      /\ s.syn_sent \in BOOLEAN
  BY DEF Consistent, Senders, ByteStreams
<1>2. s.next_seqno = (IF s.syn_sent THEN 1 ELSE 0) + s.input.total_popped
  BY <1>1 DEF Consistent, NumbersAddUp
<1>3. ~s.syn_sent => s.next_seqno = 0
  BY DEF Honest
<1> QED BY <1>1, <1>2, <1>3 DEF SynSpace

\* The payload of the k-th new segment is the bytes that its numbers mean.
LEMMA NewPayload ==
  ASSUME NEW s, Consistent(s), Honest(s), NEW k \in 1..SegmentCount(s),
         NEW from, from = (k - 1) * MAX_PAYLOAD_SIZE
  PROVE  SegmentData(s, k) =
           Substring(s.input.total_popped + from, Len(SegmentData(s, k)))
<1> DEFINE data   == SegmentData(s, k)
           buf    == s.input.buffer
           popped == s.input.total_popped
<1>1. s \in Senders /\ buf \in Seq(Byte) /\ popped \in Nat
  BY DEF Consistent, Senders, ByteStreams
<1>2. from \in Nat
  BY <1>1, PieceOfSegment
<1>3. PICK upto \in Nat : /\ from <= upto /\ upto <= Len(buf)
                          /\ data = SubSeq(buf, from + 1, upto)
  <2>1. PICK upto \in Nat : /\ from <= upto /\ upto <= PayloadTotal(s)
                            /\ data = SubSeq(buf, from + 1, upto)
    BY <1>1, PieceOfSegment
  <2>2. PayloadTotal(s) \in Nat /\ PayloadTotal(s) <= Len(buf)
    BY <1>1, FilledFits
  <2>3. Len(buf) \in Nat
    BY <1>1
  <2>4. upto <= Len(buf)
    BY <2>1, <2>2, <2>3
  <2> QED BY <2>1, <2>4
<1>4. \A j \in 1..Len(buf) : buf[j] = popped + j
  <2>1. buf = Substring(popped, Len(buf))
    BY DEF Honest
  <2> HIDE DEF buf, popped
  <2> QED BY <2>1 DEF Substring
<1> HIDE DEF data, buf, popped
<1>5. /\ data \in Seq(Byte) /\ Len(data) = upto - from
      /\ \A i \in 1..(upto - from) :
           from + i \in 1..Len(buf) /\ data[i] = buf[from + i]
  BY <1>1, <1>2, <1>3, PartOfSequence
<1>6. ASSUME NEW i \in 1..Len(data)
      PROVE  data[i] = popped + from + i
  <2>1. from + i \in 1..Len(buf) /\ data[i] = buf[from + i]
    BY <1>5
  <2>2. data[i] = popped + (from + i)
    BY <1>4, <2>1
  <2> QED BY <1>1, <1>2, <2>2
<1>7. data = [i \in 1..Len(data) |-> popped + from + i]
  BY <1>5, <1>6
<1> QED BY <1>7 DEF Substring, data, popped

\* The segments that push() makes say what their numbers mean: the SYN is on
\* number 0, the bytes follow those read before, the FIN ends the stream.
LEMMA NewSegmentsSay ==
  ASSUME NEW s, Consistent(s), Honest(s), NEW k \in 1..SegmentCount(s)
  PROVE  /\ Says(Push(s), NewSegments(s)[k].msg, NewSegments(s)[k].seq_start)
         /\ NewSegments(s)[k].len = SequenceLength(NewSegments(s)[k].msg)
<1> DEFINE M      == MAX_PAYLOAD_SIZE
           count  == SegmentCount(s)
           from   == (k - 1) * M
           data   == SegmentData(s, k)
           start  == SegmentStart(s, k)
           fin    == k = count /\ SendsFin(s)
           syn    == k = 1 /\ ~s.syn_sent
           msg    == SenderMessage(s, start, syn, data, fin)
           popped == s.input.total_popped
           total  == PayloadTotal(s)
           end    == start + SequenceLength(msg)
           next   == s.next_seqno + Filled(s)
<1>1. /\ s \in Senders /\ popped \in Nat /\ s.next_seqno \in Nat
      /\ s.syn_sent \in BOOLEAN /\ s.fin_sent \in BOOLEAN
  BY DEF Consistent, Senders, ByteStreams
<1>2. /\ M \in Nat \ {0} /\ k \in Nat /\ k >= 1 /\ count \in Nat /\ k <= count
      /\ total \in Nat /\ Filled(s) \in Nat /\ Room(s) \in Nat /\ Room(s) > 0
      /\ SynSpace(s) = IF s.syn_sent THEN 0 ELSE 1
  BY <1>1, SenderAssumption, DataOfSegments, FilledFits DEF SynSpace
<1>3. ~s.fin_sent
  BY <1>2 DEF Room
<1>4. /\ from \in Nat /\ (k = 1 <=> from = 0)
      /\ k < count => from + M < total
      /\ k * M = from + M
  BY <1>1, PieceOfSegment
<1>5. /\ s.next_seqno + SynSpace(s) = popped + 1
      /\ ~s.syn_sent => s.next_seqno = 0
      /\ s.syn_sent => s.next_seqno > 0
  BY <1>3, NumbersBefore
<1>6. data = Substring(popped + from, Len(data))
  BY NewPayload
<1>7. /\ NewSegments(s)[k] =
           [msg |-> msg, seq_start |-> start, len |-> SequenceLength(msg)]
      /\ msg.seqno = Wrap(start, s.isn) /\ msg.SYN = syn /\ msg.payload = data
      /\ msg.FIN = fin
  BY DEF NewSegments, SegmentStart, SegmentData, SenderMessage
<1>8. /\ end = IF k < count THEN SegmentStart(s, k + 1) ELSE next
      /\ SequenceLength(msg) = SegmentLength(s, k)
  BY <1>1, <1>7, SegmentShape, SegmentsJoin
<1>9. k < count => SegmentStart(s, k + 1) = s.next_seqno + (SynSpace(s) + from + M)
  <2>1. (k + 1) - 1 = k /\ k + 1 # 1
    BY <1>2
  <2> HIDE DEF from
  <2> QED BY <1>1, <1>2, <1>4, <2>1 DEF SegmentStart
<1>10. start = s.next_seqno + (IF k = 1 THEN 0 ELSE SynSpace(s) + from)
  BY DEF SegmentStart
<1>11. /\ NewSegments(s)[k].msg = msg /\ NewSegments(s)[k].seq_start = start
       /\ NewSegments(s)[k].len = SequenceLength(msg)
  BY <1>7
<1>12. /\ Push(s).isn = s.isn /\ Push(s).next_seqno = next
       /\ Push(s).fin_sent = (s.fin_sent \/ SendsFin(s))
  BY <1>1 DEF Push, Senders
<1>13. Filled(s) >= SynSpace(s) + total
  BY <1>1, <1>2 DEF Filled
<1>14. end = start + SequenceLength(msg) /\ next = s.next_seqno + Filled(s)
  OBVIOUS
<1>15. (syn <=> k = 1 /\ ~s.syn_sent) /\ (fin <=> k = count /\ SendsFin(s))
  OBVIOUS
<1> HIDE DEF M, count, from, data, start, fin, syn, msg, popped, total, end, next
<1>16. start \in Nat /\ (syn <=> start = 0) /\ (~syn => start - 1 = popped + from)
       /\ (syn => popped + from = 0)
  <2>1. CASE s.syn_sent
    BY <1>1, <1>2, <1>4, <1>5, <1>10, <1>15, <2>1
  <2>2. CASE ~s.syn_sent
    <3>1. s.next_seqno = 0 /\ popped = 0
      BY <1>1, <1>2, <1>5, <2>2
    <3>2. CASE k = 1
      BY <1>4, <1>10, <1>15, <2>2, <3>1, <3>2
    <3>3. CASE k # 1
      BY <1>2, <1>4, <1>10, <1>15, <2>2, <3>1, <3>3
    <3> QED BY <3>2, <3>3
  <2> QED BY <1>1, <2>1, <2>2
<1>17. data = Substring(IF syn THEN 0 ELSE start - 1, Len(data))
  <2>1. (IF syn THEN 0 ELSE start - 1) = popped + from
    BY <1>1, <1>4, <1>16
  <2> QED BY <1>6, <2>1
<1>18. SequenceLength(msg) > 0 /\ end <= next /\ (fin <=> SendsFin(s) /\ end = next)
  <2>1. SequenceLength(msg) > 0
    BY <1>1, <1>8, SegmentShape DEF count
  <2>2. CASE k < count
    <3>1. end = s.next_seqno + (SynSpace(s) + from + M)
      BY <1>8, <1>9, <2>2
    <3>2. end < next /\ ~fin
      BY <1>1, <1>2, <1>4, <1>13, <1>14, <1>15, <2>2, <3>1
    <3> QED BY <1>1, <1>2, <1>14, <2>1, <3>1, <3>2
  <2>3. CASE k = count
    <3>1. ~(k < count)
      BY <1>2, <2>3
    <3> QED BY <1>1, <1>2, <1>8, <1>14, <1>15, <2>3, <2>1, <3>1
  <2> QED BY <1>2, <2>2, <2>3
<1>19. Says(Push(s), msg, start)
  BY <1>3, <1>7, <1>12, <1>14, <1>15, <1>16, <1>17, <1>18 DEF Says
<1> QED BY <1>11, <1>19

\* The same segment, but for the RST flag of its message.
SameSegment(o, p) ==
  /\ o.seq_start = p.seq_start /\ o.len = p.len
  /\ o.msg.seqno = p.msg.seqno /\ o.msg.SYN = p.msg.SYN
  /\ o.msg.payload = p.msg.payload /\ o.msg.FIN = p.msg.FIN

\* A sender stays honest when nothing but its books change.
LEMMA SameSegmentsSay ==
  ASSUME NEW s \in Senders, Honest(s), NEW t \in Senders,
         t.isn = s.isn, t.next_seqno = s.next_seqno,
         t.syn_sent = s.syn_sent, t.fin_sent = s.fin_sent,
         t.input.buffer = Substring(t.input.total_popped, Len(t.input.buffer)),
         \A i \in 1..Len(t.outstanding) : \E j \in 1..Len(s.outstanding) :
           SameSegment(t.outstanding[i], s.outstanding[j])
  PROVE  Honest(t)
<1>1. ASSUME NEW i \in 1..Len(t.outstanding)
      PROVE  /\ Says(t, t.outstanding[i].msg, t.outstanding[i].seq_start)
             /\ t.outstanding[i].len = SequenceLength(t.outstanding[i].msg)
  <2>1. PICK j \in 1..Len(s.outstanding) :
          SameSegment(t.outstanding[i], s.outstanding[j])
    OBVIOUS
  <2> DEFINE old == s.outstanding[j]
             m   == t.outstanding[i].msg
  <2>2. Says(s, old.msg, old.seq_start) /\ old.len = SequenceLength(old.msg)
    BY DEF Honest
  <2>3. /\ t.outstanding[i].seq_start = old.seq_start /\ t.outstanding[i].len = old.len
        /\ m.seqno = old.msg.seqno /\ m.SYN = old.msg.SYN /\ m.FIN = old.msg.FIN
        /\ m.payload = old.msg.payload
    BY <2>1 DEF SameSegment
  <2> HIDE DEF old, m
  <2>4. SequenceLength(m) = SequenceLength(old.msg)
    BY <2>3 DEF SequenceLength
  <2>5. Says(t, m, old.seq_start)
    BY <2>2, <2>3, <2>4 DEF Says
  <2> QED BY <2>2, <2>3, <2>4, <2>5 DEF m
<1>2. ~t.syn_sent => t.next_seqno = 0
  BY DEF Honest
<1> QED BY <1>1, <1>2 DEF Honest

\* The constructor makes an honest sender.
LEMMA NewSenderIsHonest ==
  ASSUME NEW isn \in 0..(MOD - 1), NEW capacity \in Nat
  PROVE  Honest(NewSender(isn, capacity))
<1> DEFINE s == NewSender(isn, capacity)
<1>1. /\ s.next_seqno = 0 /\ s.outstanding = <<>>
      /\ s.input.buffer = <<>> /\ s.input.total_popped = 0
  BY DEF NewSender, NewByteStream
<1>2. Substring(0, 0) = <<>>
  BY DEF Substring
<1>3. Len(s.outstanding) = 0 /\ Len(s.input.buffer) = 0
  BY <1>1
<1> HIDE DEF s
<1>4. s.input.buffer = Substring(s.input.total_popped, Len(s.input.buffer))
  BY <1>1, <1>2, <1>3
<1>5. Honest(s)
  BY <1>1, <1>3, <1>4 DEF Honest
<1> QED BY <1>5 DEF s

\* push() only adds to what was sent, and adds nothing after the FIN.
LEMMA PushFollows ==
  ASSUME NEW s \in Senders
  PROVE  Follows(s, Push(s))
<1>1. /\ Push(s).isn = s.isn /\ Push(s).next_seqno = s.next_seqno + Filled(s)
      /\ Push(s).fin_sent = (s.fin_sent \/ SendsFin(s))
  BY DEF Push, Senders
<1>2. /\ Filled(s) \in Nat /\ Filled(s) <= Room(s) /\ Room(s) \in Nat
      /\ s.next_seqno \in Nat
  BY FilledFits DEF Senders
<1>3. s.next_seqno + Filled(s) >= s.next_seqno
  BY <1>2
<1>4. s.fin_sent => s.next_seqno + Filled(s) = s.next_seqno
  <2>1. s.fin_sent => Room(s) = 0
    BY DEF Room
  <2> QED BY <1>2, <2>1
<1>5. s.fin_sent => Push(s).fin_sent
  BY <1>1, Zenon
<1>6. Push(s).fin_sent /\ ~s.fin_sent => s.next_seqno + Filled(s) > s.next_seqno
  <2>1. Push(s).fin_sent /\ ~s.fin_sent => SendsFin(s)
    BY <1>1, Zenon
  <2>2. SendsFin(s) => Filled(s) >= 1
    BY FilledFits DEF Filled
  <2> QED BY <1>2, <2>1, <2>2
<1> QED BY <1>1, <1>3, <1>4, <1>5, <1>6 DEF Follows

\* push() keeps the sender honest.
LEMMA PushKeepsHonest ==
  ASSUME NEW s, Consistent(s), Honest(s)
  PROVE  Honest(Push(s))
<1> DEFINE t   == Push(s)
           out == s.outstanding
           new == NewSegments(s)
<1>1. /\ s \in Senders /\ s.input \in ByteStreams /\ StreamOk(s.input)
      /\ out \in Seq(Segments) /\ Len(out) \in Nat /\ s.next_seqno \in Nat
      /\ s.syn_sent \in BOOLEAN
  BY DEF Consistent, Senders
<1>2. t \in Senders
  BY PushKeepsConsistent DEF Consistent
<1>3. /\ t.isn = s.isn /\ t.next_seqno = s.next_seqno + Filled(s)
      /\ t.syn_sent = (s.syn_sent \/ Room(s) > 0)
      /\ t.fin_sent = (s.fin_sent \/ SendsFin(s))
      /\ t.input = ReaderPop(s.input, PayloadTotal(s))
      /\ t.outstanding = out \o new
  BY <1>1 DEF Push, Senders
<1>4. /\ Room(s) \in Nat /\ Filled(s) \in Nat /\ Filled(s) <= Room(s)
      /\ PayloadTotal(s) \in Nat /\ PayloadTotal(s) <= Len(s.input.buffer)
  BY <1>1, FilledFits
<1>5. new \in Seq(Segments) /\ Len(new) = SegmentCount(s) /\ SegmentCount(s) \in Nat
  BY <1>1, NewSegmentsContinue, DataOfSegments
<1>6. ~t.syn_sent => t.next_seqno = 0
  <2>1. ~s.syn_sent => s.next_seqno = 0
    BY DEF Honest
  <2>2. ~t.syn_sent => ~s.syn_sent /\ ~(Room(s) > 0)
    BY <1>1, <1>3, Zenon
  <2>3. ~(Room(s) > 0) => Filled(s) = 0
    BY <1>4
  <2>4. s.next_seqno = 0 /\ Filled(s) = 0 => s.next_seqno + Filled(s) = 0
    OBVIOUS
  <2> QED BY <1>3, <2>1, <2>2, <2>3, <2>4
<1>7. t.input.buffer = Substring(t.input.total_popped, Len(t.input.buffer))
  <2>1. s.input.buffer = Substring(s.input.total_popped, Len(s.input.buffer))
    BY DEF Honest
  <2>2. t.input.total_popped = s.input.total_popped + PayloadTotal(s)
    BY <1>1, <1>3, <1>4, PopAccounts
  <2> QED BY <1>1, <1>3, <1>4, <2>1, <2>2, PopKeepsContent
<1>8. ASSUME NEW i \in 1..Len(out)
      PROVE  Says(t, out[i].msg, out[i].seq_start) /\ out[i].len = SequenceLength(out[i].msg)
  <2>1. out[i] \in Segments
    BY <1>1
  <2>2. out[i].msg \in Messages /\ out[i].seq_start \in Nat
    BY <2>1 DEF Segments
  <2>3. Says(s, out[i].msg, out[i].seq_start) /\ out[i].len = SequenceLength(out[i].msg)
    BY DEF Honest
  <2>4. Follows(s, t)
    BY <1>1, PushFollows
  <2> QED BY <1>1, <1>2, <2>2, <2>3, <2>4, SaysLater
<1>9. ASSUME NEW k \in 1..Len(new)
      PROVE  Says(t, new[k].msg, new[k].seq_start) /\ new[k].len = SequenceLength(new[k].msg)
  BY <1>5, NewSegmentsSay
<1> HIDE DEF t, new, out
<1>10. ASSUME NEW i \in 1..Len(t.outstanding)
       PROVE  /\ Says(t, t.outstanding[i].msg, t.outstanding[i].seq_start)
              /\ t.outstanding[i].len = SequenceLength(t.outstanding[i].msg)
  <2>1. CASE i <= Len(out)
    <3>1. i \in 1..Len(out) /\ t.outstanding[i] = out[i]
      BY <1>1, <1>3, <1>5, <2>1
    <3> QED BY <1>8, <3>1
  <2>2. CASE i > Len(out)
    <3>1. i - Len(out) \in 1..Len(new) /\ t.outstanding[i] = new[i - Len(out)]
      BY <1>1, <1>3, <1>5, <2>2
    <3> QED BY <1>9, <3>1
  <2>3. i \in Nat
    BY <1>1, <1>3, <1>5
  <2> QED BY <1>1, <2>1, <2>2, <2>3
<1>11. Honest(t)
  BY <1>6, <1>7, <1>10 DEF Honest
<1> QED BY <1>11 DEF t

\* The application writes the next bytes of its stream: the sender stays honest.
LEMMA WriteKeepsHonest ==
  ASSUME NEW s, Consistent(s), Honest(s), NEW size \in Nat, ~s.input.closed
  PROVE  Honest([s EXCEPT !.input =
                   WriterPush(s.input, Substring(s.input.total_pushed, size))])
<1> DEFINE b == WriterPush(s.input, Substring(s.input.total_pushed, size))
           t == [s EXCEPT !.input = b]
<1>1. /\ s \in Senders /\ s.input \in ByteStreams /\ StreamOk(s.input)
      /\ s.input.buffer = Substring(s.input.total_popped, Len(s.input.buffer))
  BY DEF Consistent, Senders, Honest
<1>2. t \in Senders
  <2>1. s.input.total_pushed \in Nat
    BY <1>1 DEF ByteStreams
  <2>2. Substring(s.input.total_pushed, size) \in Seq(Byte)
    BY <2>1, SubstringBytes
  <2>3. Consistent(t)
    BY <2>2, WriteKeepsConsistent
  <2> QED BY <2>3 DEF Consistent
<1>3. b.buffer = Substring(b.total_popped, Len(b.buffer))
  BY <1>1, PushAppends, Zenon
<1> HIDE DEF b
<1>4. /\ t.isn = s.isn /\ t.next_seqno = s.next_seqno
      /\ t.syn_sent = s.syn_sent /\ t.fin_sent = s.fin_sent
      /\ t.outstanding = s.outstanding /\ t.input = b
  BY <1>1 DEF Senders
<1> HIDE DEF t
<1>5. \A i \in 1..Len(t.outstanding) : \E j \in 1..Len(s.outstanding) :
         SameSegment(t.outstanding[i], s.outstanding[j])
  BY <1>4 DEF SameSegment
<1>6. Honest(t)
  BY <1>1, <1>2, <1>3, <1>4, <1>5, SameSegmentsSay
<1> QED BY <1>6 DEF t, b

\* The application closes its stream or sets its error flag.
LEMMA MarkKeepsHonest ==
  ASSUME NEW s, Consistent(s), Honest(s), NEW closed \in BOOLEAN, NEW error \in BOOLEAN,
         s.input.closed => closed
  PROVE  Honest([s EXCEPT !.input = [s.input EXCEPT !.closed = closed, !.error = error]])
<1> DEFINE b == [s.input EXCEPT !.closed = closed, !.error = error]
           t == [s EXCEPT !.input = b]
<1>1. s \in Senders /\ s.input \in ByteStreams
  BY DEF Consistent, Senders
<1>2. t \in Senders
  <2>1. Consistent(t)
    BY MarkKeepsConsistent, Zenon
  <2> QED BY <2>1 DEF Consistent
<1>3. b.buffer = s.input.buffer /\ b.total_popped = s.input.total_popped
  BY <1>1 DEF ByteStreams
<1>4. /\ t.isn = s.isn /\ t.next_seqno = s.next_seqno
      /\ t.syn_sent = s.syn_sent /\ t.fin_sent = s.fin_sent
      /\ t.outstanding = s.outstanding /\ t.input = b
  BY <1>1 DEF Senders
<1> HIDE DEF b, t
<1>5. t.input.buffer = Substring(t.input.total_popped, Len(t.input.buffer))
  BY <1>3, <1>4 DEF Honest
<1>6. \A i \in 1..Len(t.outstanding) : \E j \in 1..Len(s.outstanding) :
         SameSegment(t.outstanding[i], s.outstanding[j])
  BY <1>4 DEF SameSegment
<1>7. Honest(t)
  BY <1>1, <1>2, <1>4, <1>5, <1>6, SameSegmentsSay
<1> QED BY <1>7 DEF t, b

\* What receive() leaves alone: an acknowledgment only removes segments.
LEMMA ReceiveLeaves ==
  ASSUME NEW s \in Senders, NEW m, m.window_size \in Nat,
         m.ackno \in 0..(MOD - 1) \union {NoAckno}
  PROVE  LET t == SenderReceive(s, m)  out == s.outstanding IN
         /\ t.isn = s.isn /\ t.next_seqno = s.next_seqno
         /\ t.syn_sent = s.syn_sent /\ t.fin_sent = s.fin_sent
         /\ t.input.buffer = s.input.buffer
         /\ t.input.total_popped = s.input.total_popped
         /\ ~m.RST => t.input = s.input
         /\ \/ t.receiver_ackno = s.receiver_ackno
            \/ /\ AcksNewData(s, m.ackno)
               /\ t.receiver_ackno = Unwrap(m.ackno, s.isn, s.receiver_ackno)
         /\ \/ t.outstanding = out
            \/ \E ack \in Int : ack > s.receiver_ackno
                 /\ t.outstanding = SubSeq(out, FullyAcked(out, ack) + 1, Len(out))
<1> DEFINE t   == SenderReceive(s, m)
           out == s.outstanding
<1>1. s \in Senders /\ s.input \in ByteStreams /\ out \in Seq(Segments)
  BY DEF Senders
<1>2. CASE m.RST
  BY <1>1, <1>2 DEF SenderReceive, SetError, Senders, ByteStreams
<1>3. CASE ~m.RST /\ ~AcksNewData(s, m.ackno)
  BY <1>1, <1>3 DEF SenderReceive, Senders
<1>4. CASE ~m.RST /\ AcksNewData(s, m.ackno)
  <2> DEFINE ack == Unwrap(m.ackno, s.isn, s.receiver_ackno)
             a   == Acknowledge(s, ack)
  <2>1. m.ackno \in Int /\ s.isn \in Int /\ s.receiver_ackno \in Int
    BY <1>1, <1>4, ModAssumption DEF AcksNewData, Senders
  <2>2. ack \in Int /\ ack > s.receiver_ackno
    BY <1>4, <2>1, UnwrapIsInteger DEF AcksNewData
  <2>3. t = [a EXCEPT !.receiver_window = m.window_size]
    BY <1>4 DEF SenderReceive
  <2> HIDE DEF t, ack
  <2>4. /\ a.isn = s.isn /\ a.next_seqno = s.next_seqno
        /\ a.syn_sent = s.syn_sent /\ a.fin_sent = s.fin_sent /\ a.input = s.input
        /\ a.outstanding = SubSeq(out, FullyAcked(out, ack) + 1, Len(out))
        /\ a.receiver_ackno = ack
        /\ DOMAIN a = DOMAIN s
    BY <1>1 DEF Acknowledge, Senders
  <2>5. DOMAIN s = {"input", "isn", "next_seqno", "bytes_in_flight", "outstanding",
                    "receiver_ackno", "receiver_window", "syn_sent", "fin_sent",
                    "RTO", "timer_elapsed_ms", "timer_running", "consecutive_retx"}
    BY <1>1 DEF Senders
  <2> HIDE DEF a
  <2>6. /\ t.isn = s.isn /\ t.next_seqno = s.next_seqno
        /\ t.syn_sent = s.syn_sent /\ t.fin_sent = s.fin_sent /\ t.input = s.input
        /\ t.outstanding = SubSeq(out, FullyAcked(out, ack) + 1, Len(out))
        /\ t.receiver_ackno = ack
    BY <2>3, <2>4, <2>5
  <2>7. AcksNewData(s, m.ackno) /\ t.receiver_ackno = Unwrap(m.ackno, s.isn, s.receiver_ackno)
    BY <1>4, <2>6 DEF ack
  <2> QED BY <2>2, <2>6, <2>7 DEF t
<1> QED BY <1>2, <1>3, <1>4

\* receive() keeps the sender honest.
LEMMA ReceiveKeepsHonest ==
  ASSUME NEW s, Consistent(s), Honest(s), NEW m, m.window_size \in Nat,
         m.ackno \in 0..(MOD - 1) \union {NoAckno}
  PROVE  Honest(SenderReceive(s, m))
<1> DEFINE t   == SenderReceive(s, m)
           out == s.outstanding
<1>1. s \in Senders /\ s.input \in ByteStreams /\ out \in Seq(Segments)
  BY DEF Consistent, Senders
<1>2. t \in Senders
  BY ReceiveKeepsConsistent DEF Consistent
<1>3. /\ t.isn = s.isn /\ t.next_seqno = s.next_seqno
      /\ t.syn_sent = s.syn_sent /\ t.fin_sent = s.fin_sent
      /\ t.input.buffer = s.input.buffer
      /\ t.input.total_popped = s.input.total_popped
      /\ \/ t.outstanding = out
         \/ \E ack \in Int : ack > s.receiver_ackno
              /\ t.outstanding = SubSeq(out, FullyAcked(out, ack) + 1, Len(out))
  BY <1>1, ReceiveLeaves
<1> HIDE DEF t, out
<1>4. t.input.buffer = Substring(t.input.total_popped, Len(t.input.buffer))
  BY <1>3 DEF Honest
<1>5. ASSUME NEW i \in 1..Len(t.outstanding)
      PROVE  \E j \in 1..Len(out) : SameSegment(t.outstanding[i], out[j])
  <2>1. CASE t.outstanding = out
    BY <2>1 DEF SameSegment
  <2>2. ASSUME NEW ack \in Int, ack > s.receiver_ackno,
               t.outstanding = SubSeq(out, FullyAcked(out, ack) + 1, Len(out))
        PROVE  \E j \in 1..Len(out) : SameSegment(t.outstanding[i], out[j])
    <3> DEFINE n == FullyAcked(out, ack)
    <3>1. n \in 0..Len(out) /\ Len(out) \in Nat
      <4>1. s.receiver_ackno \in Nat
        BY <1>1 DEF Senders
      <4>2. ack \in Nat
        BY <2>2, <4>1
      <4>3. n \in 0..Len(out)
        BY <1>1, <4>2, FullyAckedStops, Zenon
      <4> QED BY <1>1, <4>3
    <3>2. t.outstanding = SubSeq(out, n + 1, Len(out))
      BY <2>2
    <3> HIDE DEF n
    <3>3. /\ Len(t.outstanding) = Len(out) - n
          /\ \A k \in 1..(Len(out) - n) :
               n + k \in 1..Len(out) /\ t.outstanding[k] = out[n + k]
      BY <1>1, <3>1, <3>2, PartOfSequence
    <3>4. n + i \in 1..Len(out) /\ t.outstanding[i] = out[n + i]
      BY <3>3
    <3> QED BY <3>4 DEF SameSegment
  <2> QED BY <1>3, <2>1, <2>2
<1>6. Honest(t)
  BY <1>1, <1>2, <1>3, <1>4, <1>5, SameSegmentsSay DEF out
<1> QED BY <1>6 DEF t

\* The segment that a timeout retransmits is the front one but for its RST flag.
LEMMA OldestIsTheFront ==
  ASSUME NEW s \in Senders, s.outstanding # <<>>
  PROVE  SameSegment(Oldest(s), s.outstanding[1])
<1> DEFINE front == s.outstanding[1]
           RST   == front.msg.RST \/ s.input.error
<1>1. front \in Segments
  <2>1. s.outstanding \in Seq(Segments)
    BY DEF Senders
  <2> QED BY <2>1
<1>2. front.msg \in Messages
  BY <1>1 DEF Segments
<1>3. Oldest(s) = [front EXCEPT !.msg = [front.msg EXCEPT !.RST = RST]]
  BY DEF Oldest
<1> HIDE DEF front, RST
<1>4. SameSegment(Oldest(s), front)
  BY <1>1, <1>2, <1>3 DEF Segments, Messages, SameSegment
<1> QED BY <1>4 DEF front

\* What tick() leaves alone.
LEMMA TickLeaves ==
  ASSUME NEW s \in Senders, NEW ms \in Nat
  PROVE  LET t == SenderTick(s, ms) IN
         /\ t.isn = s.isn /\ t.next_seqno = s.next_seqno /\ t.input = s.input
         /\ t.syn_sent = s.syn_sent /\ t.fin_sent = s.fin_sent
         /\ t.receiver_ackno = s.receiver_ackno
         /\ t.bytes_in_flight = s.bytes_in_flight
         /\ t.outstanding = IF TimerFires(s, ms)
                              THEN [s.outstanding EXCEPT ![1] = Oldest(s)]
                              ELSE s.outstanding
<1>1. CASE TimerFires(s, ms)
  <2>1. /\ s.timer_running /\ s.outstanding # <<>>
        /\ BackedOff(s).outstanding = s.outstanding
        /\ DOMAIN BackedOff(s) = DOMAIN s
        /\ BackedOff(s).isn = s.isn /\ BackedOff(s).next_seqno = s.next_seqno
        /\ BackedOff(s).input = s.input /\ BackedOff(s).syn_sent = s.syn_sent
        /\ BackedOff(s).fin_sent = s.fin_sent
        /\ BackedOff(s).receiver_ackno = s.receiver_ackno
        /\ BackedOff(s).bytes_in_flight = s.bytes_in_flight
    BY <1>1 DEF TimerFires, BackedOff, Senders
  <2>2. DOMAIN s = {"input", "isn", "next_seqno", "bytes_in_flight", "outstanding",
                    "receiver_ackno", "receiver_window", "syn_sent", "fin_sent",
                    "RTO", "timer_elapsed_ms", "timer_running", "consecutive_retx"}
    BY DEF Senders
  <2> DEFINE out == [s.outstanding EXCEPT ![1] = Oldest(s)]
  <2>3. SenderTick(s, ms) = [BackedOff(s) EXCEPT !.outstanding = out, !.timer_elapsed_ms = 0]
    BY <1>1, <2>1 DEF SenderTick
  <2> HIDE DEF out
  <2>4. /\ SenderTick(s, ms).isn = s.isn /\ SenderTick(s, ms).next_seqno = s.next_seqno
        /\ SenderTick(s, ms).input = s.input /\ SenderTick(s, ms).syn_sent = s.syn_sent
        /\ SenderTick(s, ms).fin_sent = s.fin_sent
        /\ SenderTick(s, ms).receiver_ackno = s.receiver_ackno
        /\ SenderTick(s, ms).bytes_in_flight = s.bytes_in_flight
        /\ SenderTick(s, ms).outstanding = out
    BY <2>1, <2>2, <2>3
  <2> QED BY <1>1, <2>4 DEF out
<1>2. CASE ~TimerFires(s, ms)
  BY <1>2 DEF SenderTick, Senders
<1> QED BY <1>1, <1>2

\* tick() keeps the sender honest: a retransmission says what it said.
LEMMA TickKeepsHonest ==
  ASSUME NEW s, Consistent(s), Honest(s), NEW ms \in Nat
  PROVE  Honest(SenderTick(s, ms))
<1> DEFINE t   == SenderTick(s, ms)
           out == s.outstanding
<1>1. s \in Senders /\ out \in Seq(Segments)
  BY DEF Consistent, Senders
<1>2. t \in Senders
  BY TickKeepsConsistent DEF Consistent
<1>3. /\ t.isn = s.isn /\ t.next_seqno = s.next_seqno /\ t.input = s.input
      /\ t.syn_sent = s.syn_sent /\ t.fin_sent = s.fin_sent
      /\ t.outstanding = IF TimerFires(s, ms) THEN [out EXCEPT ![1] = Oldest(s)] ELSE out
  BY <1>1, TickLeaves
<1> HIDE DEF t
<1>4. ASSUME NEW i \in 1..Len(t.outstanding)
      PROVE  \E j \in 1..Len(out) : SameSegment(t.outstanding[i], out[j])
  <2>1. CASE ~TimerFires(s, ms)
    BY <1>3, <2>1 DEF SameSegment
  <2>2. CASE TimerFires(s, ms)
    <3>1. out # <<>> /\ SameSegment(Oldest(s), out[1]) /\ Oldest(s) \in Segments
      BY <1>1, <2>2, OldestIsTheFront, OldestTyped DEF TimerFires
    <3> HIDE DEF out
    <3>2. i \in 1..Len(out) /\ t.outstanding[i] = IF i = 1 THEN Oldest(s) ELSE out[i]
      BY <1>1, <1>3, <2>2, <3>1
    <3>3. CASE i = 1
      BY <3>1, <3>2, <3>3
    <3>4. CASE i # 1
      BY <3>2, <3>4 DEF SameSegment
    <3> QED BY <3>3, <3>4
  <2> QED BY <2>1, <2>2
<1>5. t.input.buffer = Substring(t.input.total_popped, Len(t.input.buffer))
  BY <1>3 DEF Honest
<1>6. Honest(t)
  BY <1>1, <1>2, <1>3, <1>4, <1>5, SameSegmentsSay
<1> QED BY <1>6 DEF t

\* What push() transmits says what its number means.
LEMMA PushSays ==
  ASSUME NEW s, Consistent(s), Honest(s), NEW i \in 1..Len(PushTransmits(s))
  PROVE  \E start \in 0..Push(s).next_seqno : Says(Push(s), PushTransmits(s)[i], start)
<1> DEFINE new == NewSegments(s)
<1>1. s \in Senders /\ Push(s) \in Senders
  BY PushKeepsConsistent DEF Consistent
<1>2. new \in Seq(Segments) /\ Len(new) = SegmentCount(s) /\ SegmentCount(s) \in Nat
  BY <1>1, NewSegmentsContinue, DataOfSegments
<1>3. PushTransmits(s) = [k \in 1..Len(new) |-> new[k].msg]
  BY <1>2 DEF PushTransmits
<1>4. i \in 1..SegmentCount(s)
  <2> HIDE DEF new
  <2> QED BY <1>2, <1>3
<1>5. PushTransmits(s)[i] = new[i].msg
  BY <1>2, <1>3, <1>4
<1>6. Says(Push(s), new[i].msg, new[i].seq_start)
  BY <1>4, NewSegmentsSay
<1>7. new[i].msg \in Messages /\ new[i].seq_start \in Nat
  <2>1. new[i] \in Segments
    BY <1>2, <1>4
  <2> QED BY <2>1 DEF Segments
<1>8. new[i].seq_start \in 0..Push(s).next_seqno
  <2>1. SequenceLength(new[i].msg) \in Nat
    BY <1>7, SequenceLengthIsNat
  <2>2. new[i].seq_start + SequenceLength(new[i].msg) <= Push(s).next_seqno
    BY <1>6 DEF Says
  <2>3. Push(s).next_seqno \in Nat
    BY <1>1 DEF Senders
  <2> QED BY <1>7, <2>1, <2>2, <2>3
<1> QED BY <1>5, <1>6, <1>8

\* What a timeout retransmits says what its number means, and holds the first
\* number that the peer has not acknowledged.
LEMMA TickSays ==
  ASSUME NEW s, Consistent(s), Honest(s), NEW ms \in Nat,
         NEW i \in 1..Len(TickTransmits(s, ms))
  PROVE  LET m == TickTransmits(s, ms)[i]
             t == SenderTick(s, ms)
         IN  \E start \in 0..t.next_seqno :
               /\ Says(t, m, start)
               /\ start <= s.receiver_ackno
               /\ s.receiver_ackno < start + SequenceLength(m)
<1> DEFINE m     == TickTransmits(s, ms)[i]
           t     == SenderTick(s, ms)
           front == s.outstanding[1]
<1>1. s \in Senders /\ t \in Senders /\ s.outstanding \in Seq(Segments)
  BY TickKeepsConsistent DEF Consistent, Senders
<1>2. TimerFires(s, ms) /\ m = Oldest(s).msg
  <2>1. TimerFires(s, ms)
    BY DEF TickTransmits
  <2>2. TickTransmits(s, ms) = << Oldest(s).msg >>
    BY <2>1 DEF TickTransmits
  <2> QED BY <2>1, <2>2
<1>3. s.outstanding # <<>>
  BY <1>2 DEF TimerFires
<1>4. front \in Segments /\ 1 \in 1..Len(s.outstanding)
  BY <1>1, <1>3
<1>5. front.msg \in Messages /\ front.seq_start \in Nat /\ front.len \in Nat
  BY <1>4 DEF Segments
<1>6. Says(s, front.msg, front.seq_start) /\ front.len = SequenceLength(front.msg)
  BY <1>4 DEF Honest
<1>7. /\ m.seqno = front.msg.seqno /\ m.SYN = front.msg.SYN
      /\ m.payload = front.msg.payload /\ m.FIN = front.msg.FIN
  BY <1>1, <1>2, <1>3, OldestIsTheFront DEF SameSegment
<1>8. /\ t.isn = s.isn /\ t.next_seqno = s.next_seqno /\ t.fin_sent = s.fin_sent
      /\ s.next_seqno \in Nat /\ s.receiver_ackno \in Nat
  BY <1>1, TickLeaves DEF Senders
<1>9. front.seq_start <= s.receiver_ackno /\ s.receiver_ackno < front.seq_start + front.len
  BY <1>3 DEF Consistent, Unacked, SegmentEnd
<1> HIDE DEF m, t, front
<1>10. SequenceLength(m) = front.len
  BY <1>6, <1>7 DEF SequenceLength
<1>11. Says(t, m, front.seq_start)
  BY <1>6, <1>7, <1>8, <1>10 DEF Says
<1>12. front.seq_start \in 0..t.next_seqno
  <2>1. front.seq_start + SequenceLength(front.msg) <= s.next_seqno
    BY <1>6 DEF Says
  <2> QED BY <1>5, <1>6, <1>8, <2>1
<1> QED BY <1>9, <1>10, <1>11, <1>12 DEF m, t

\* The empty message that carries an acknowledgment says nothing, once the SYN
\* is out.
LEMMA EmptySays ==
  ASSUME NEW s \in Senders, s.next_seqno > 0
  PROVE  Says(s, EmptyMessage(s), s.next_seqno)
<1> DEFINE m == EmptyMessage(s)
<1>1. /\ m.seqno = Wrap(s.next_seqno, s.isn) /\ m.SYN = FALSE /\ m.payload = <<>>
      /\ m.FIN = FALSE
  BY DEF EmptyMessage, SenderMessage
<1>2. s.next_seqno \in Nat
  BY DEF Senders
<1> HIDE DEF m
<1>3. Len(m.payload) = 0 /\ SequenceLength(m) = 0
  BY <1>1 DEF SequenceLength
<1>4. Substring(s.next_seqno - 1, 0) = <<>>
  BY DEF Substring
<1>5. Says(s, m, s.next_seqno)
  BY <1>1, <1>2, <1>3, <1>4 DEF Says
<1> QED BY <1>5 DEF m
-----------------------------------------------------------------------------
(* A sender whose stream has no error sends no RST.                         *)

Quiet(s) == \A i \in 1..Len(s.outstanding) : ~s.outstanding[i].msg.RST

\* push() makes segments with the error flag of the stream.
LEMMA PushIsQuiet ==
  ASSUME NEW s, Consistent(s), Quiet(s), ~s.input.error
  PROVE  /\ Quiet(Push(s))
         /\ \A i \in 1..Len(PushTransmits(s)) : ~PushTransmits(s)[i].RST
<1> DEFINE out == s.outstanding
           new == NewSegments(s)
           t   == Push(s)
<1>1. s \in Senders /\ out \in Seq(Segments) /\ Len(out) \in Nat
  BY DEF Consistent, Senders
<1>2. new \in Seq(Segments) /\ Len(new) \in Nat
  BY <1>1, NewSegmentsContinue
<1>3. ASSUME NEW k \in 1..Len(new)
      PROVE  ~new[k].msg.RST
  <2>1. Len(new) = SegmentCount(s) /\ SegmentCount(s) \in Nat
    BY <1>1, NewSegmentsContinue, DataOfSegments
  <2>2. k \in 1..SegmentCount(s)
    BY <2>1
  <2>3. new[k].msg.RST = s.input.error
    BY <2>2 DEF NewSegments, SenderMessage
  <2> QED BY <2>3
<1>4. t.outstanding = out \o new
  BY <1>1 DEF Push, Senders
<1>5. PushTransmits(s) = [k \in 1..Len(new) |-> new[k].msg]
  BY <1>2 DEF PushTransmits
<1> HIDE DEF new, out, t
<1>6. \A i \in 1..Len(PushTransmits(s)) : ~PushTransmits(s)[i].RST
  BY <1>2, <1>3, <1>5
<1>7. ASSUME NEW i \in 1..Len(t.outstanding)
      PROVE  ~t.outstanding[i].msg.RST
  <2>1. CASE i <= Len(out)
    <3>1. i \in 1..Len(out) /\ t.outstanding[i] = out[i]
      BY <1>1, <1>2, <1>4, <2>1
    <3> QED BY <3>1 DEF Quiet, out
  <2>2. CASE i > Len(out)
    <3>1. i - Len(out) \in 1..Len(new) /\ t.outstanding[i] = new[i - Len(out)]
      BY <1>1, <1>2, <1>4, <2>2
    <3> QED BY <1>3, <3>1
  <2>3. i \in Nat
    BY <1>1, <1>2, <1>4
  <2> QED BY <1>1, <2>1, <2>2, <2>3
<1> QED BY <1>6, <1>7 DEF Quiet, t

\* receive() only removes segments.
LEMMA ReceiveIsQuiet ==
  ASSUME NEW s, Consistent(s), Quiet(s), NEW m, m.window_size \in Nat,
         m.ackno \in 0..(MOD - 1) \union {NoAckno}
  PROVE  Quiet(SenderReceive(s, m))
<1> DEFINE t   == SenderReceive(s, m)
           out == s.outstanding
<1>1. s \in Senders /\ out \in Seq(Segments) /\ Len(out) \in Nat
  BY DEF Consistent, Senders
<1>2. \/ t.outstanding = out
      \/ \E ack \in Int : ack > s.receiver_ackno
           /\ t.outstanding = SubSeq(out, FullyAcked(out, ack) + 1, Len(out))
  BY <1>1, ReceiveLeaves
<1> HIDE DEF t, out
<1>3. CASE t.outstanding = out
  BY <1>3 DEF Quiet, t, out
<1>4. ASSUME NEW ack \in Int, ack > s.receiver_ackno,
             t.outstanding = SubSeq(out, FullyAcked(out, ack) + 1, Len(out))
      PROVE  Quiet(t)
  <2> DEFINE n == FullyAcked(out, ack)
  <2>1. n \in 0..Len(out)
    <3>1. s.receiver_ackno \in Nat
      BY <1>1 DEF Senders
    <3>2. ack \in Nat
      BY <1>4, <3>1
    <3> QED BY <1>1, <3>2, FullyAckedStops, Zenon
  <2>2. t.outstanding = SubSeq(out, n + 1, Len(out))
    BY <1>4
  <2> HIDE DEF n
  <2>3. /\ Len(t.outstanding) = Len(out) - n
        /\ \A k \in 1..(Len(out) - n) :
             n + k \in 1..Len(out) /\ t.outstanding[k] = out[n + k]
    BY <1>1, <2>1, <2>2, PartOfSequence
  <2>4. \A k \in 1..Len(t.outstanding) : ~t.outstanding[k].msg.RST
    BY <2>3 DEF Quiet, out
  <2> QED BY <2>4 DEF Quiet
<1> QED BY <1>2, <1>3, <1>4 DEF t

\* tick() sends the front segment again.
LEMMA TickIsQuiet ==
  ASSUME NEW s, Consistent(s), Quiet(s), ~s.input.error, NEW ms \in Nat
  PROVE  /\ Quiet(SenderTick(s, ms))
         /\ \A i \in 1..Len(TickTransmits(s, ms)) : ~TickTransmits(s, ms)[i].RST
<1> DEFINE t   == SenderTick(s, ms)
           out == s.outstanding
<1>1. s \in Senders /\ out \in Seq(Segments) /\ Len(out) \in Nat
  BY DEF Consistent, Senders
<1>2. t.outstanding = IF TimerFires(s, ms) THEN [out EXCEPT ![1] = Oldest(s)] ELSE out
  BY <1>1, TickLeaves
<1>3. CASE ~TimerFires(s, ms)
  <2>1. TickTransmits(s, ms) = <<>> /\ t.outstanding = out
    BY <1>2, <1>3 DEF TickTransmits
  <2> HIDE DEF t
  <2> QED BY <2>1 DEF Quiet, t
<1>4. CASE TimerFires(s, ms)
  <2>1. out # <<>> /\ 1 \in 1..Len(out)
    BY <1>1, <1>4 DEF TimerFires
  <2>4. ~Oldest(s).msg.RST
    <3>1. ASSUME NEW o \in Segments, ~o.msg.RST
          PROVE  ~[o EXCEPT !.msg.RST = @ \/ s.input.error].msg.RST
      BY <3>1 DEF Segments, Messages
    <3>2. out[1] \in Segments
      <4> HIDE DEF out
      <4> QED BY <1>1, <2>1
    <3>3. ~out[1].msg.RST
      BY <2>1 DEF Quiet
    <3>4. ~[out[1] EXCEPT !.msg.RST = @ \/ s.input.error].msg.RST
      <4> HIDE DEF out
      <4> QED BY <3>1, <3>2, <3>3, Zenon
    <3> QED BY <3>4, Zenon DEF Oldest
  <2>5. TickTransmits(s, ms) = << Oldest(s).msg >>
    BY <1>4 DEF TickTransmits
  <2>6. \A i \in 1..Len(TickTransmits(s, ms)) : ~TickTransmits(s, ms)[i].RST
    BY <2>4, <2>5
  <2> HIDE DEF t
  <2>7. \A i \in 1..Len(t.outstanding) :
          i \in 1..Len(out) /\ t.outstanding[i] = IF i = 1 THEN Oldest(s) ELSE out[i]
    BY <1>1, <1>2, <1>4, <2>1
  <2>8. Quiet(t)
    BY <2>4, <2>7 DEF Quiet
  <2> QED BY <2>6, <2>8 DEF t
<1> QED BY <1>3, <1>4

-----------------------------------------------------------------------------
(* IV. Reassembler.                                                         *)

(* The map of stored chunks.                                                *)

\* `p` holds non-empty chunks of the stream between the indices `low` and
\* `limit`, in their place, with a gap after each of them.
Chunks(p, low, limit) ==
  /\ p = [i \in DOMAIN p |-> p[i]]
  /\ DOMAIN p \subseteq Nat
  /\ \A i \in DOMAIN p :
       /\ Len(p[i]) \in Nat \ {0}
       /\ p[i] = Substring(i, Len(p[i]))
       /\ low <= i
       /\ ChunkEnd(p, i) <= limit
       /\ \A j \in DOMAIN p : i < j => ChunkEnd(p, i) < j

\* Index x is in some chunk.
Covered(p, x) == \E c \in DOMAIN p : c <= x /\ x < ChunkEnd(p, c)

\* A chunk, by the indices it covers.
LEMMA ChunkBytes ==
  ASSUME NEW p, NEW low \in Nat, NEW limit \in Nat, Chunks(p, low, limit),
         NEW i \in DOMAIN p
  PROVE  /\ i \in Nat /\ low <= i
         /\ ChunkEnd(p, i) \in Nat /\ i < ChunkEnd(p, i) /\ ChunkEnd(p, i) <= limit
         /\ p[i] \in Seq(Byte) /\ Len(p[i]) = ChunkEnd(p, i) - i
         /\ \A x \in i..(ChunkEnd(p, i) - 1) : p[i][x - i + 1] = x + 1
         /\ \A j \in DOMAIN p : i < j => ChunkEnd(p, i) < j
<1> DEFINE n == Len(p[i])
<1>1. /\ i \in Nat /\ n \in Nat \ {0} /\ p[i] = Substring(i, n) /\ low <= i
      /\ ChunkEnd(p, i) <= limit
      /\ \A j \in DOMAIN p : i < j => ChunkEnd(p, i) < j
  BY DEF Chunks
<1>2. ChunkEnd(p, i) = i + n
  BY DEF ChunkEnd
<1>3. p[i] \in Seq(Byte) /\ \A k \in 1..n : p[i][k] = i + k
  <2> HIDE DEF n
  <2>1. n \in Nat /\ i \in Nat
    BY <1>1
  <2> DEFINE q == Substring(i, n)
  <2>2. q \in Seq(Byte) /\ \A k \in 1..n : q[k] = i + k
    BY <2>1, SubstringBytes
  <2>3. p[i] = q
    BY <1>1
  <2> HIDE DEF q
  <2> QED BY <2>2, <2>3
<1>4. n = ChunkEnd(p, i) - i
  <2> HIDE DEF n
  <2> QED BY <1>1, <1>2
<1> HIDE DEF n
<1>5. ASSUME NEW x \in i..(ChunkEnd(p, i) - 1)
      PROVE  p[i][x - i + 1] = x + 1
  <2>1. x - i + 1 \in 1..n /\ x \in Nat
    BY <1>1, <1>2
  <2>2. p[i][x - i + 1] = i + (x - i + 1)
    BY <1>3, <2>1
  <2> QED BY <1>1, <2>1, <2>2
<1> QED BY <1>1, <1>2, <1>3, <1>4, <1>5 DEF n

\* Where the merged chunk starts and stops.
MergeStart(p, first) ==
  IF Previous(p, first) = {} THEN first ELSE CHOOSE i \in Previous(p, first) : TRUE

MergeStop(p, first, end) ==
  LET taken == Previous(p, first) \union Following(p, first, end)
  IN  CHOOSE e \in {end} \union {ChunkEnd(p, i) : i \in taken} :
        e >= end /\ \A i \in taken : e >= ChunkEnd(p, i)

\* The chunks that a new one touches, and how far the merged chunk reaches.
LEMMA MergedChunk ==
  ASSUME NEW p, NEW low \in Nat, NEW limit \in Nat, Chunks(p, low, limit),
         NEW first \in Nat, low <= first, NEW end \in Nat, first < end, end <= limit,
         NEW before, before = Previous(p, first),
         NEW after, after = Following(p, first, end),
         NEW start, start = MergeStart(p, first),
         NEW stop, stop = MergeStop(p, first, end)
  PROVE  /\ before \subseteq DOMAIN p /\ after \subseteq DOMAIN p
         /\ start \in Nat /\ low <= start /\ start <= first
         /\ before = IF start = first THEN {} ELSE {start}
         /\ start # first => first <= ChunkEnd(p, start)
         /\ stop \in Nat /\ end <= stop /\ stop <= limit
         /\ \A i \in before \union after : ChunkEnd(p, i) <= stop
         /\ stop = end \/ \E i \in before \union after : stop = ChunkEnd(p, i)
         /\ \A i \in DOMAIN p : i \notin before /\ i \notin after =>
              ChunkEnd(p, i) < start \/ stop < i
<1> DEFINE taken == before \union after
           ends  == {end} \union {ChunkEnd(p, i) : i \in taken}
<1>1. \A i \in DOMAIN p : /\ i \in Nat /\ low <= i
                          /\ ChunkEnd(p, i) \in Nat /\ i < ChunkEnd(p, i)
                          /\ ChunkEnd(p, i) <= limit
                          /\ \A j \in DOMAIN p : i < j => ChunkEnd(p, i) < j
  BY ChunkBytes
<1>2. /\ before \subseteq DOMAIN p /\ after \subseteq DOMAIN p
      /\ \A i \in DOMAIN p : i \in before <=>
           /\ i < first /\ ChunkEnd(p, i) >= first
           /\ \A j \in DOMAIN p : j < first => j <= i
      /\ \A i \in DOMAIN p : i \in after <=> first <= i /\ i <= end
  BY DEF Previous, Following
<1>3. \A i, j \in before : i = j
  BY <1>1, <1>2
<1>4. /\ start \in Nat /\ low <= start /\ start <= first
      /\ before = IF start = first THEN {} ELSE {start}
      /\ start # first => first <= ChunkEnd(p, start)
  <2>1. CASE before = {}
    BY <2>1 DEF MergeStart
  <2>2. CASE before # {}
    <3>1. start \in before
      BY <2>2 DEF MergeStart
    <3>2. start \in Nat /\ low <= start /\ start < first /\ first <= ChunkEnd(p, start)
      BY <1>1, <1>2, <3>1
    <3>3. before = {start}
      BY <1>3, <3>1
    <3>4. start # first
      BY <3>2
    <3> QED BY <3>2, <3>3, <3>4
  <2> QED BY <2>1, <2>2
<1>5. \E m \in ends : \A k \in ends : m >= k
  <2>1. /\ ends \subseteq Nat /\ ends # {}
        /\ \A k \in ends : k <= limit
    BY <1>1, <1>2
  <2> HIDE DEF ends
  <2> QED BY <2>1, GreatestNumber, Zenon
<1>6. /\ stop \in ends /\ stop >= end
      /\ \A i \in taken : stop >= ChunkEnd(p, i)
  <2> DEFINE Tops(e) == e >= end /\ \A i \in taken : e >= ChunkEnd(p, i)
  <2>1. \E e \in ends : Tops(e)
    BY <1>5
  <2>2. stop = CHOOSE e \in ends : Tops(e)
    BY DEF MergeStop
  <2> HIDE DEF Tops
  <2>3. stop \in ends /\ Tops(stop)
    BY <2>1, <2>2, Zenon
  <2> QED BY <2>3 DEF Tops
<1>7. /\ stop \in Nat /\ end <= stop /\ stop <= limit
      /\ \A i \in taken : ChunkEnd(p, i) <= stop
      /\ stop = end \/ \E i \in taken : stop = ChunkEnd(p, i)
  <2>1. stop \in Nat /\ stop <= limit
    BY <1>1, <1>2, <1>6
  <2>2. stop = end \/ \E i \in taken : stop = ChunkEnd(p, i)
    BY <1>6
  <2>3. \A i \in taken : ChunkEnd(p, i) \in Nat
    BY <1>1, <1>2
  <2> QED BY <1>6, <2>1, <2>2, <2>3
<1>8. ASSUME NEW i \in DOMAIN p, i \notin before, i \notin after
      PROVE  ChunkEnd(p, i) < start \/ stop < i
  <2>1. CASE i < first
    <3> DEFINE earlier == {j \in DOMAIN p : j < first}
    <3>1. PICK m \in earlier : \A k \in earlier : m >= k
      <4>1. /\ earlier \subseteq Nat /\ earlier # {}
            /\ \A k \in earlier : k <= first
        BY <1>1, <2>1
      <4> HIDE DEF earlier
      <4> QED BY <4>1, GreatestNumber, Zenon
    <3>2. /\ m \in DOMAIN p /\ m < first /\ m \in Nat
          /\ \A j \in DOMAIN p : j < first => j <= m
      BY <1>1, <3>1
    <3>3. i <= m
      BY <2>1, <3>2
    <3>4. CASE m \in before
      <4>1. m = start
        BY <1>4, <3>4
      <4>2. i < m
        BY <1>1, <1>8, <3>2, <3>3, <3>4
      <4> QED BY <1>1, <3>2, <4>1, <4>2
    <3>5. CASE m \notin before
      <4>1. ChunkEnd(p, m) < first /\ before = {}
        BY <1>1, <1>2, <3>2, <3>5
      <4>2. start = first
        BY <4>1 DEF MergeStart
      <4>3. i = m \/ ChunkEnd(p, i) < m
        BY <1>1, <3>2, <3>3
      <4> QED BY <1>1, <3>2, <4>1, <4>2, <4>3
    <3> QED BY <3>4, <3>5
  <2>2. CASE ~(i < first)
    <3>1. i > end
      BY <1>1, <1>2, <1>8, <2>2
    <3>2. CASE stop = end
      BY <3>1, <3>2
    <3>3. ASSUME NEW k \in taken, stop = ChunkEnd(p, k)
          PROVE  stop < i
      <4>1. k < i /\ k \in DOMAIN p
        BY <1>1, <1>2, <3>1
      <4> QED BY <1>1, <3>3, <4>1
    <3> QED BY <1>7, <3>2, <3>3
  <2> QED BY <2>1, <2>2
<1> QED BY <1>2, <1>4, <1>7, <1>8

\* Storing a chunk keeps the map in order, and adds what the chunk covers.
LEMMA StoreMergedKeeps ==
  ASSUME NEW p, NEW low \in Nat, NEW limit \in Nat, Chunks(p, low, limit),
         NEW first \in Nat, low <= first, NEW n \in Nat \ {0}, first + n <= limit,
         NEW q, q = StoreMerged(p, first, Substring(first, n))
  PROVE  /\ Chunks(q, low, limit)
         /\ \A x \in Nat : Covered(q, x) <=> Covered(p, x) \/ (first <= x /\ x < first + n)
<1> DEFINE data   == Substring(first, n)
           end    == first + n
           before == Previous(p, first)
           after  == Following(p, first, end)
           taken  == before \union after
           start  == MergeStart(p, first)
           stop   == MergeStop(p, first, end)
           old(x) == {i \in before : x < ChunkEnd(p, i)}
           new(x) == {i \in after : i <= x /\ x < ChunkEnd(p, i)}
           byte(x) == IF old(x) # {} THEN p[start][x - start + 1]
                      ELSE IF x < end THEN data[x - first + 1]
                      ELSE LET i == CHOOSE i \in new(x) : TRUE IN p[i][x - i + 1]
           merged == [k \in 1..(stop - start) |-> byte(start + k - 1)]
           dom    == (DOMAIN p \ taken) \union {start}
<1>1. /\ data \in Seq(Byte) /\ Len(data) = n /\ \A k \in 1..n : data[k] = first + k
  BY SubstringBytes
<1>2. q = [i \in dom |-> IF i = start THEN merged ELSE p[i]]
  BY <1>1 DEF StoreMerged, MergeStart, MergeStop
<1>3. end \in Nat /\ first < end /\ end <= limit /\ n = end - first
  OBVIOUS
<1>4. \A i \in DOMAIN p : /\ i \in Nat /\ low <= i
                          /\ ChunkEnd(p, i) \in Nat /\ i < ChunkEnd(p, i)
                          /\ ChunkEnd(p, i) <= limit
                          /\ \A x \in i..(ChunkEnd(p, i) - 1) : p[i][x - i + 1] = x + 1
                          /\ \A j \in DOMAIN p : i < j => ChunkEnd(p, i) < j
  BY ChunkBytes
<1> HIDE DEF end
<1>5. /\ before \subseteq DOMAIN p /\ after \subseteq DOMAIN p
      /\ start \in Nat /\ low <= start /\ start <= first
      /\ before = IF start = first THEN {} ELSE {start}
      /\ start # first => first <= ChunkEnd(p, start)
      /\ stop \in Nat /\ end <= stop /\ stop <= limit
      /\ \A i \in taken : ChunkEnd(p, i) <= stop
      /\ stop = end \/ \E i \in taken : stop = ChunkEnd(p, i)
      /\ \A i \in DOMAIN p : i \notin before /\ i \notin after =>
           ChunkEnd(p, i) < start \/ stop < i
  BY <1>3, MergedChunk
<1>6. \A i \in DOMAIN p : i \in after <=> first <= i /\ i <= end
  BY DEF Following
<1> HIDE DEF before, after, start, stop, data
\* Which of the three sources a byte comes from.
<1>7. ASSUME NEW x \in start..(stop - 1)
      PROVE  /\ byte(x) = x + 1
             /\ Covered(p, x) \/ (first <= x /\ x < end)
  <2>1. x \in Nat /\ start <= x /\ x < stop
    BY <1>5
  <2>2. CASE old(x) # {}
    <3>1. start \in before /\ start \in DOMAIN p /\ x < ChunkEnd(p, start)
      BY <1>5, <2>2
    <3>2. x \in start..(ChunkEnd(p, start) - 1)
      BY <1>4, <2>1, <3>1
    <3>3. p[start][x - start + 1] = x + 1
      BY <1>4, <3>1, <3>2
    <3>4. byte(x) = p[start][x - start + 1]
      BY <2>2
    <3>5. Covered(p, x)
      BY <2>1, <3>1 DEF Covered
    <3> QED BY <3>3, <3>4, <3>5
  <2>3. CASE old(x) = {}
    <3>1. first <= x
      <4>1. CASE start = first
        BY <2>1, <4>1
      <4>2. CASE start # first
        <5>1. start \in before /\ start \in DOMAIN p
          BY <1>5, <4>2
        <5>2. ~(x < ChunkEnd(p, start))
          BY <2>3, <5>1
        <5> QED BY <1>4, <1>5, <2>1, <4>2, <5>1, <5>2
      <4> QED BY <4>1, <4>2
    <3>2. CASE x < end
      <4>1. byte(x) = data[x - first + 1]
        BY <2>3, <3>2
      <4>2. x - first + 1 \in 1..n
        BY <1>3, <2>1, <3>1, <3>2
      <4>3. data[x - first + 1] = first + (x - first + 1)
        BY <1>1, <4>2
      <4>4. first + (x - first + 1) = x + 1
        BY <2>1
      <4> QED BY <3>1, <3>2, <4>1, <4>3, <4>4
    <3>3. CASE ~(x < end)
      <4>1. PICK i \in taken : stop = ChunkEnd(p, i)
        BY <1>3, <1>5, <2>1, <3>3
      <4>2. i \notin before
        BY <2>1, <2>3, <4>1
      <4>3. i \in after /\ i <= end /\ i \in DOMAIN p /\ i \in Nat
        BY <1>4, <1>5, <1>6, <4>2
      <4>4. i \in new(x)
        BY <1>3, <2>1, <3>3, <4>1, <4>3
      <4> DEFINE c == CHOOSE j \in new(x) : TRUE
      <4>5. c \in new(x)
        BY <4>4
      <4>6. byte(x) = p[c][x - c + 1]
        BY <2>3, <3>3
      <4> HIDE DEF c
      <4>7. c \in DOMAIN p /\ c <= x /\ x < ChunkEnd(p, c)
        BY <1>5, <4>5
      <4>8. x \in c..(ChunkEnd(p, c) - 1)
        BY <1>4, <2>1, <4>7
      <4>9. p[c][x - c + 1] = x + 1
        BY <1>4, <4>7, <4>8
      <4>10. Covered(p, x)
        BY <4>7 DEF Covered
      <4> QED BY <4>6, <4>9, <4>10
    <3> QED BY <3>2, <3>3
  <2> QED BY <2>2, <2>3
<1>8. merged = Substring(start, stop - start)
  <2>1. ASSUME NEW k \in 1..(stop - start)
        PROVE  byte(start + k - 1) = start + k
    <3>1. start + k - 1 \in start..(stop - 1) /\ start + k = (start + k - 1) + 1
      BY <1>5
    <3> HIDE DEF byte
    <3> QED BY <1>7, <3>1
  <2> HIDE DEF byte
  <2> QED BY <2>1 DEF Substring
<1> HIDE DEF merged, byte
<1>9. /\ stop - start \in Nat \ {0} /\ start < stop
      /\ Len(merged) = stop - start
  <2>1. stop - start \in Nat \ {0} /\ start < stop
    BY <1>3, <1>5
  <2>2. Len(Substring(start, stop - start)) = stop - start
    BY <1>5, <2>1, SubstringBytes
  <2> QED BY <1>8, <2>1, <2>2
\* The chunks of the new map.
<1>10. /\ DOMAIN q = dom /\ q[start] = merged
       /\ \A i \in DOMAIN q : i # start =>
            i \in DOMAIN p /\ i \notin before /\ i \notin after /\ q[i] = p[i]
  BY <1>2
<1>11. /\ ChunkEnd(q, start) = stop
       /\ \A i \in DOMAIN q : i # start => ChunkEnd(q, i) = ChunkEnd(p, i)
  <2>1. start + (stop - start) = stop
    BY <1>5
  <2> QED BY <1>9, <1>10, <2>1 DEF ChunkEnd
<1>12. \A i \in DOMAIN q : /\ i \in Nat /\ low <= i
                           /\ ChunkEnd(q, i) <= limit
                           /\ \A j \in DOMAIN q : i < j => ChunkEnd(q, i) < j
  <2>1. ASSUME NEW i \in DOMAIN q
        PROVE  i \in Nat /\ low <= i /\ ChunkEnd(q, i) <= limit
    BY <1>4, <1>5, <1>10, <1>11
  <2>2. ASSUME NEW i \in DOMAIN q, NEW j \in DOMAIN q, i < j
        PROVE  ChunkEnd(q, i) < j
    <3>1. CASE i = start
      <4>1. j \in DOMAIN p /\ j \notin before /\ j \notin after /\ j # start
        BY <1>5, <1>10, <2>2, <3>1
      <4>2. ~(ChunkEnd(p, j) < start)
        BY <1>4, <1>5, <2>2, <3>1, <4>1
      <4> QED BY <1>5, <1>11, <3>1, <4>1, <4>2
    <3>2. CASE j = start
      <4>1. i \in DOMAIN p /\ i \notin before /\ i \notin after /\ i # start
        BY <1>5, <1>10, <2>2, <3>2
      <4>2. ~(stop < i)
        BY <1>4, <1>5, <1>9, <2>2, <3>2, <4>1
      <4> QED BY <1>5, <1>11, <3>2, <4>1, <4>2
    <3>3. CASE i # start /\ j # start
      BY <1>4, <1>10, <1>11, <2>2, <3>3
    <3> QED BY <3>1, <3>2, <3>3
  <2> QED BY <2>1, <2>2
<1>13. Chunks(q, low, limit)
  <2>1. q = [i \in DOMAIN q |-> q[i]]
    BY <1>2
  <2>2. ASSUME NEW i \in DOMAIN q
        PROVE  Len(q[i]) \in Nat \ {0} /\ q[i] = Substring(i, Len(q[i]))
    <3>1. CASE i = start
      BY <1>8, <1>9, <1>10, <3>1
    <3>2. CASE i # start
      BY <1>10, <3>2 DEF Chunks
    <3> QED BY <3>1, <3>2
  <2> HIDE DEF dom
  <2> QED BY <1>12, <2>1, <2>2 DEF Chunks
\* What they cover.
<1>14. ASSUME NEW x \in Nat
       PROVE  Covered(q, x) <=> Covered(p, x) \/ (first <= x /\ x < end)
  <2>1. ASSUME NEW c \in DOMAIN q, c <= x, x < ChunkEnd(q, c)
        PROVE  Covered(p, x) \/ (first <= x /\ x < end)
    <3>1. CASE c = start
      <4>1. x \in start..(stop - 1)
        BY <1>5, <1>11, <2>1, <3>1
      <4> QED BY <1>7, <4>1
    <3>2. CASE c # start
      BY <1>10, <1>11, <2>1, <3>2 DEF Covered
    <3> QED BY <3>1, <3>2
  <2>2. ASSUME first <= x, x < end
        PROVE  Covered(q, x)
    <3>1. start \in DOMAIN q /\ start <= x /\ x < ChunkEnd(q, start)
      BY <1>3, <1>5, <1>10, <1>11, <2>2
    <3> QED BY <3>1 DEF Covered
  <2>3. ASSUME NEW c \in DOMAIN p, c <= x, x < ChunkEnd(p, c)
        PROVE  Covered(q, x)
    <3>1. CASE c \in taken
      <4>1. start <= c /\ ChunkEnd(p, c) <= stop /\ c \in Nat /\ ChunkEnd(p, c) \in Nat
        BY <1>4, <1>5, <1>6, <3>1
      <4>2. start \in DOMAIN q /\ start <= x /\ x < ChunkEnd(q, start)
        BY <1>5, <1>10, <1>11, <2>3, <4>1
      <4> QED BY <4>2 DEF Covered
    <3>2. CASE c \notin taken
      <4>1. c \in DOMAIN q
        BY <1>10, <3>2
      <4>2. c # start
        <5>1. CASE start = first
          BY <1>3, <1>6, <3>2, <5>1
        <5>2. CASE start # first
          BY <1>5, <3>2, <5>2
        <5> QED BY <5>1, <5>2
      <4> QED BY <1>11, <2>3, <4>1, <4>2 DEF Covered
    <3> QED BY <3>1, <3>2
  <2>4. Covered(q, x) => Covered(p, x) \/ (first <= x /\ x < end)
    BY <2>1 DEF Covered
  <2>5. Covered(p, x) => Covered(q, x)
    BY <2>3 DEF Covered
  <2> QED BY <2>2, <2>4, <2>5
<1> QED BY <1>13, <1>14 DEF end

-----------------------------------------------------------------------------
(* The reassembler of a stream of `length` bytes.                           *)

\* The output holds a prefix of the stream, and the chunks that wait are
\* beyond a gap and inside the window.
InPlace(r, length, capacity) ==
  /\ r = [output |-> r.output, pending |-> r.pending, next_index |-> r.next_index,
          last_index |-> r.last_index, last_seen |-> r.last_seen]
  /\ r.output \in ByteStreams /\ StreamOk(r.output) /\ r.output.capacity = capacity
  /\ r.output.buffer = Substring(r.output.total_popped, Len(r.output.buffer))
  /\ r.next_index = r.output.total_pushed /\ r.next_index <= length
  /\ Chunks(r.pending, r.next_index + 1, Least(length, r.output.total_popped + capacity))
  /\ r.last_seen \in BOOLEAN
  /\ r.last_seen => r.last_index = length

\* And the output is closed exactly when the last byte is in it.
Assembled(r, length, capacity) ==
  /\ InPlace(r, length, capacity)
  /\ r.output.closed <=> r.last_seen /\ r.next_index = length

\* Byte x is written or stored.
Has(r, x) == x < r.next_index \/ Covered(r.pending, x)

\* The constructor knows nothing.
LEMMA NewIsAssembled ==
  ASSUME NEW length \in Nat, NEW capacity \in Nat
  PROVE  Assembled(NewReassembler(capacity), length, capacity)
<1> DEFINE b == NewByteStream(capacity)
           r == NewReassembler(capacity)
<1>1. /\ b \in ByteStreams /\ b.capacity = capacity /\ b.buffer = <<>>
      /\ b.total_pushed = 0 /\ b.total_popped = 0 /\ b.closed = FALSE
  BY DEF NewByteStream, ByteStreams, Byte
<1>2. r = [output |-> b, pending |-> << >>, next_index |-> 0,
           last_index |-> UINT64_MAX, last_seen |-> FALSE]
  BY DEF NewReassembler
<1> HIDE DEF b, r
<1>3. StreamOk(b) /\ b.buffer = Substring(b.total_popped, Len(b.buffer))
  <2>1. Len(b.buffer) = 0
    BY <1>1
  <2>2. Substring(0, 0) = <<>>
    BY DEF Substring
  <2> QED BY <1>1, <2>1, <2>2 DEF StreamOk
<1>4. Chunks(<< >>, 1, Least(length, capacity))
  BY DEF Chunks
<1>5. /\ r.output = b /\ r.pending = << >> /\ r.next_index = 0 /\ r.last_seen = FALSE
      /\ r.last_index = UINT64_MAX
  BY <1>2
<1>6. r.output.total_popped + capacity = capacity /\ r.next_index + 1 = 1
  BY <1>1, <1>5
<1>7. Chunks(r.pending, r.next_index + 1, Least(length, r.output.total_popped + capacity))
  BY <1>4, <1>5, <1>6
<1>8. InPlace(r, length, capacity)
  BY <1>1, <1>2, <1>3, <1>5, <1>7 DEF InPlace
<1>9. Assembled(r, length, capacity)
  BY <1>1, <1>5, <1>8 DEF Assembled
<1> QED BY <1>9 DEF r

\* The parts of a reassembler and their types.
LEMMA InPlaceTypes ==
  ASSUME NEW r, NEW length \in Nat, NEW capacity \in Nat, InPlace(r, length, capacity)
  PROVE  /\ r.output \in ByteStreams /\ StreamOk(r.output) /\ r.output.capacity = capacity
         /\ r.output.total_popped \in Nat /\ Len(r.output.buffer) \in Nat
         /\ r.output.total_pushed \in Nat /\ r.output.closed \in BOOLEAN
         /\ r.next_index \in Nat /\ r.next_index <= length
         /\ r.next_index = r.output.total_popped + Len(r.output.buffer)
         /\ r.next_index = r.output.total_pushed
         /\ StreamLimit(r) = r.output.total_popped + capacity
         /\ Least(length, StreamLimit(r)) \in Nat
         /\ r.next_index <= Least(length, StreamLimit(r))
<1>1. /\ r.output \in ByteStreams /\ StreamOk(r.output) /\ r.output.capacity = capacity
      /\ r.next_index = r.output.total_pushed /\ r.next_index <= length
  BY DEF InPlace
<1>2. /\ r.output.total_popped \in Nat /\ Len(r.output.buffer) \in Nat
      /\ r.output.total_pushed \in Nat /\ r.output.closed \in BOOLEAN
      /\ Len(r.output.buffer) <= capacity
      /\ r.output.total_pushed = r.output.total_popped + Len(r.output.buffer)
  BY <1>1 DEF ByteStreams, StreamOk
<1> DEFINE popped == r.output.total_popped
           size   == Len(r.output.buffer)
           next   == r.next_index
           limit  == popped + capacity
<1>3. StreamLimit(r) = next + (capacity - size)
  BY <1>1 DEF StreamLimit, AvailableCapacity
<1>4. popped \in Nat /\ size \in Nat /\ size <= capacity /\ next = popped + size /\ next <= length
  BY <1>1, <1>2
<1> HIDE DEF popped, size, next, limit
<1>5. next \in Nat /\ StreamLimit(r) = limit
  BY <1>3, <1>4 DEF limit
<1>6. limit \in Nat /\ next <= limit
  BY <1>4 DEF limit
<1>7. Least(length, limit) \in Nat /\ next <= Least(length, limit)
  BY <1>4, <1>6 DEF Least
<1> QED BY <1>1, <1>2, <1>4, <1>5, <1>7 DEF popped, size, next, limit

\* Chunks stay chunks when there is room for more.
LEMMA ChunksWiden ==
  ASSUME NEW p, NEW low \in Nat, NEW limit \in Nat, Chunks(p, low, limit),
         NEW l \in Nat, l <= low, NEW m \in Nat, limit <= m
  PROVE  Chunks(p, l, m)
<1>1. \A i \in DOMAIN p : i \in Nat /\ low <= i /\ ChunkEnd(p, i) \in Nat
                            /\ ChunkEnd(p, i) <= limit
  BY ChunkBytes
<1>2. \A i \in DOMAIN p : l <= i /\ ChunkEnd(p, i) <= m
  BY <1>1
<1> QED BY <1>2 DEF Chunks

\* Reading the output changes nothing else, and makes room.
Popped(t, r, n, length, capacity) ==
  /\ Assembled(t, length, capacity)
  /\ t.output = ReaderPop(r.output, n) /\ t.pending = r.pending
  /\ t.next_index = r.next_index /\ t.last_seen = r.last_seen
  /\ t.output.total_popped = r.output.total_popped + n
  /\ t.output.total_pushed = r.output.total_pushed
  /\ t.output.closed = r.output.closed /\ t.output.error = r.output.error

\* The reader pops.
LEMMA PopKeepsAssembled ==
  ASSUME NEW r, NEW length \in Nat, NEW capacity \in Nat, Assembled(r, length, capacity),
         NEW n \in Nat, n <= Len(r.output.buffer),
         NEW t, t = [r EXCEPT !.output = ReaderPop(r.output, n)]
  PROVE  Popped(t, r, n, length, capacity)
<1> DEFINE b == ReaderPop(r.output, n)
<1>1. /\ InPlace(r, length, capacity) /\ r.output \in ByteStreams /\ StreamOk(r.output)
      /\ r.output.total_popped \in Nat /\ r.next_index \in Nat
      /\ r.output.buffer = Substring(r.output.total_popped, Len(r.output.buffer))
      /\ r.output.capacity = capacity
  BY InPlaceTypes DEF Assembled, InPlace
<1>2. /\ b \in ByteStreams /\ StreamOk(b)
      /\ b.closed = r.output.closed /\ b.error = r.output.error
      /\ b.total_popped = r.output.total_popped + n
  BY <1>1, PopAccounts
<1>3. b.capacity = r.output.capacity /\ b.total_pushed = r.output.total_pushed
  BY <1>1, PopAccounts
<1>4. b.buffer = Substring(b.total_popped, Len(b.buffer))
  BY <1>1, <1>2, PopKeepsContent
<1> HIDE DEF b
<1>5. /\ t = [output |-> b, pending |-> r.pending, next_index |-> r.next_index,
              last_index |-> r.last_index, last_seen |-> r.last_seen]
  <2>1. DOMAIN r = {"output", "pending", "next_index", "last_index", "last_seen"}
    BY <1>1 DEF InPlace
  <2> QED BY <1>1, <2>1 DEF b, InPlace
<1>6. /\ t.output = b /\ t.pending = r.pending /\ t.next_index = r.next_index
      /\ t.last_index = r.last_index /\ t.last_seen = r.last_seen
  BY <1>5
<1>7. Chunks(r.pending, r.next_index + 1, Least(length, b.total_popped + capacity))
  <2> DEFINE low == r.next_index + 1
             old == Least(length, r.output.total_popped + capacity)
             new == Least(length, b.total_popped + capacity)
  <2>1. low \in Nat /\ old \in Nat /\ new \in Nat /\ old <= new /\ low <= low
    <3>1. \A a, d, e \in Nat : /\ a + d \in Nat /\ a + 1 \in Nat /\ a <= a
                              /\ a + d <= (a + e) + d
      BY ONLY TRUE
    <3>2. \A a, d, e \in Nat : d <= e => Least(a, d) \in Nat /\ Least(a, e) \in Nat
                                          /\ Least(a, d) <= Least(a, e)
      BY ONLY TRUE DEF Least
    <3>3. /\ r.output.total_popped \in Nat /\ r.next_index \in Nat
          /\ b.total_popped = r.output.total_popped + n
      BY <1>1, <1>2
    <3>4. low \in Nat /\ low <= low
      BY <3>1, <3>3
    <3>5. old \in Nat /\ new \in Nat /\ old <= new
      BY <3>1, <3>2, <3>3
    <3> QED BY <3>4, <3>5
  <2>2. Chunks(r.pending, low, old)
    BY <1>1 DEF InPlace
  <2> HIDE DEF low, old, new
  <2>3. Chunks(r.pending, low, new)
    BY <2>1, <2>2, ChunksWiden
  <2> QED BY <2>3 DEF low, new
<1>8. InPlace(t, length, capacity)
  BY <1>1, <1>2, <1>3, <1>4, <1>5, <1>6, <1>7 DEF InPlace
<1>9. Assembled(t, length, capacity)
  BY <1>2, <1>6, <1>8 DEF Assembled
<1> QED BY <1>2, <1>3, <1>6, <1>9 DEF b, Popped

-----------------------------------------------------------------------------
(* insert(), step by step.                                                  *)

\* Marking the end of the stream changes nothing else.
LEMMA MarkLastKeeps ==
  ASSUME NEW r, NEW length \in Nat, NEW capacity \in Nat, InPlace(r, length, capacity),
         UINT64_MAX \in Nat, length <= UINT64_MAX,
         NEW first \in Nat, NEW n \in Nat, NEW last \in BOOLEAN,
         last => first + n = length,
         NEW t, t = MarkLast(r, first, Substring(first, n), last)
  PROVE  /\ InPlace(t, length, capacity)
         /\ t.output = r.output /\ t.pending = r.pending /\ t.next_index = r.next_index
         /\ t.last_seen <=> r.last_seen \/ last
<1>1. CASE ~last
  BY <1>1 DEF MarkLast
<1>2. CASE last
  <2> DEFINE e == (first + Len(Substring(first, n))) % (UINT64_MAX + 1)
  <2>1. e = length
    <3>1. Len(Substring(first, n)) = n
      BY SubstringBytes
    <3>2. length % (UINT64_MAX + 1) = length
      BY ONLY UINT64_MAX \in Nat, length <= UINT64_MAX
    <3> QED BY <1>2, <3>1, <3>2
  <2>2. t = [r EXCEPT !.last_seen = TRUE, !.last_index = e]
    BY <1>2 DEF MarkLast
  <2> HIDE DEF e
  <2>3. DOMAIN r = {"output", "pending", "next_index", "last_index", "last_seen"}
    BY DEF InPlace
  <2>4. t = [output |-> r.output, pending |-> r.pending, next_index |-> r.next_index,
             last_index |-> length, last_seen |-> TRUE]
    BY <2>1, <2>2, <2>3 DEF InPlace
  <2>5. /\ t.output = r.output /\ t.pending = r.pending /\ t.next_index = r.next_index
        /\ t.last_index = length /\ t.last_seen = TRUE
    BY <2>4
  <2>6. InPlace(t, length, capacity)
    BY <2>4, <2>5 DEF InPlace
  <2> QED BY <1>2, <2>5, <2>6
<1> QED BY <1>1, <1>2

\* The output is closed once it has the last byte.
Untouched(t, r, length, capacity) ==
  /\ Assembled(t, length, capacity)
  /\ t.output.total_popped = r.output.total_popped
  /\ t.output.error = r.output.error
  /\ t.pending = r.pending /\ t.next_index = r.next_index
  /\ t.last_seen = r.last_seen

\* Closing the output when everything is written.
LEMMA CloseKeeps ==
  ASSUME NEW r, NEW length \in Nat, NEW capacity \in Nat, InPlace(r, length, capacity),
         r.output.closed => r.last_seen /\ r.next_index = length,
         NEW t, t = CloseIfAllWritten(r)
  PROVE  Untouched(t, r, length, capacity)
<1>1. AllWritten(r) <=> r.last_seen /\ r.next_index = length
  BY DEF AllWritten, InPlace
<1>2. CASE ~AllWritten(r)
  <2>1. t = r /\ r.output.closed \in BOOLEAN
    BY <1>2, InPlaceTypes DEF CloseIfAllWritten
  <2> QED BY <1>1, <1>2, <2>1 DEF Assembled, Untouched
<1>3. CASE AllWritten(r)
  <2> DEFINE b == WriterClose(r.output)
  <2>1. r.output \in ByteStreams /\ r.output.capacity = capacity /\ StreamOk(r.output)
    BY DEF InPlace
  <2>2. /\ b \in ByteStreams /\ b.closed = TRUE /\ b.buffer = r.output.buffer
        /\ b.capacity = r.output.capacity /\ b.total_pushed = r.output.total_pushed
        /\ b.total_popped = r.output.total_popped /\ b.error = r.output.error
    BY <2>1 DEF WriterClose, ByteStreams
  <2>3. t = [r EXCEPT !.output = b]
    BY <1>3 DEF CloseIfAllWritten
  <2> HIDE DEF b
  <2>4. DOMAIN r = {"output", "pending", "next_index", "last_index", "last_seen"}
    BY DEF InPlace
  <2>5. t = [output |-> b, pending |-> r.pending, next_index |-> r.next_index,
             last_index |-> r.last_index, last_seen |-> r.last_seen]
    BY <2>3, <2>4 DEF InPlace
  <2>6. /\ t.output = b /\ t.pending = r.pending /\ t.next_index = r.next_index
        /\ t.last_index = r.last_index /\ t.last_seen = r.last_seen
    BY <2>5
  <2>7. StreamOk(b)
    BY <2>1, <2>2 DEF StreamOk
  <2>8. InPlace(t, length, capacity)
    BY <2>1, <2>2, <2>5, <2>6, <2>7 DEF InPlace
  <2>9. Assembled(t, length, capacity)
    BY <1>1, <1>3, <2>2, <2>6, <2>8 DEF Assembled
  <2> QED BY <2>2, <2>6, <2>9 DEF Untouched
<1> QED BY <1>2, <1>3

\* The flush loop writes the first chunk if it is the next one; a gap follows it.
LEMMA FlushKeeps ==
  ASSUME NEW r, NEW length \in Nat, NEW capacity \in Nat, InPlace(r, length, capacity),
         NEW q, Chunks(q, r.next_index, Least(length, StreamLimit(r))),
         NEW t, t = Flush([r EXCEPT !.pending = q])
  PROVE  /\ InPlace(t, length, capacity)
         /\ t.last_seen = r.last_seen
         /\ t.output.closed = r.output.closed /\ t.output.error = r.output.error
         /\ t.output.total_popped = r.output.total_popped
         /\ t.next_index >= r.next_index
         /\ \A x \in Nat : Has(t, x) <=> x < r.next_index \/ Covered(q, x)
<1> DEFINE next  == r.next_index
           limit == Least(length, StreamLimit(r))
           old   == r.output
           s     == [r EXCEPT !.pending = q]
<1>1. /\ old \in ByteStreams /\ StreamOk(old) /\ old.capacity = capacity
      /\ old.total_popped \in Nat /\ Len(old.buffer) \in Nat
      /\ old.total_pushed \in Nat /\ next \in Nat /\ next <= length
      /\ next = old.total_popped + Len(old.buffer) /\ next = old.total_pushed
      /\ StreamLimit(r) = old.total_popped + capacity
      /\ limit \in Nat /\ limit <= length /\ limit <= old.total_popped + capacity
      /\ old.buffer = Substring(old.total_popped, Len(old.buffer))
  <2>1. \A a, d \in Nat : Least(a, d) \in Nat /\ Least(a, d) <= a /\ Least(a, d) <= d
    BY ONLY TRUE DEF Least
  <2>2. old.total_popped \in Nat /\ StreamLimit(r) = old.total_popped + capacity
    BY InPlaceTypes
  <2>3. StreamLimit(r) \in Nat
    BY <2>2
  <2>4. limit \in Nat /\ limit <= length /\ limit <= StreamLimit(r)
    BY <2>1, <2>3
  <2>5. old.buffer = Substring(old.total_popped, Len(old.buffer))
    BY DEF InPlace
  <2> QED BY <2>2, <2>4, <2>5, InPlaceTypes
<1>2. s = [output |-> old, pending |-> q, next_index |-> next,
           last_index |-> r.last_index, last_seen |-> r.last_seen]
  <2>1. DOMAIN r = {"output", "pending", "next_index", "last_index", "last_seen"}
    BY DEF InPlace
  <2> QED BY <2>1 DEF InPlace
<1>3. r.last_seen \in BOOLEAN /\ (r.last_seen => r.last_index = length)
  BY DEF InPlace
<1>4. Chunks(q, next, limit)
  OBVIOUS
<1>5. limit = Least(length, old.total_popped + capacity)
  BY <1>1
<1> HIDE DEF s, next, limit, old
<1>6. \A i \in DOMAIN q : /\ i \in Nat /\ next <= i /\ ChunkEnd(q, i) \in Nat
                          /\ i < ChunkEnd(q, i) /\ ChunkEnd(q, i) <= limit
                          /\ \A j \in DOMAIN q : i < j => ChunkEnd(q, i) < j
  BY <1>1, <1>4, ChunkBytes
<1>7. /\ s.output = old /\ s.pending = q /\ s.next_index = next
      /\ s.last_index = r.last_index /\ s.last_seen = r.last_seen
  BY <1>2
<1>8. CASE next \notin DOMAIN q
  <2>1. t = s
    BY <1>7, <1>8 DEF Flush, s
  <2>2. Chunks(q, next + 1, limit)
    <3>1. \A i \in DOMAIN q : i \in Nat /\ next <= i /\ i # next
      BY <1>6, <1>8
    <3>2. \A m, i \in Nat : m <= i /\ i # m => m + 1 <= i
      BY ONLY TRUE
    <3>3. \A i \in DOMAIN q : next + 1 <= i
      BY <1>1, <3>1, <3>2
    <3> QED BY <1>4, <3>3 DEF Chunks
  <2>3. InPlace(s, length, capacity)
    BY <1>1, <1>2, <1>3, <1>5, <1>7, <2>2 DEF InPlace
  <2>4. \A x \in Nat : Has(t, x) <=> x < next \/ Covered(q, x)
    BY <1>7, <2>1 DEF Has
  <2>5. next >= next
    BY <1>1
  <2> QED BY <1>7, <2>1, <2>3, <2>4, <2>5 DEF old, next
<1>9. CASE next \in DOMAIN q
  <2> DEFINE chunk == q[next]
             size  == Len(chunk)
             b     == WriterPush(old, chunk)
             rest  == [i \in DOMAIN q \ {next} |-> q[i]]
             end   == next + size
  <2>1. /\ chunk = Substring(next, size) /\ size \in Nat \ {0}
        /\ ChunkEnd(q, next) = end /\ end <= limit /\ end \in Nat
    <3>1. chunk = Substring(next, size) /\ size \in Nat \ {0}
      BY <1>4, <1>9 DEF Chunks
    <3>2. ChunkEnd(q, next) = end
      BY DEF ChunkEnd
    <3> QED BY <1>6, <1>9, <3>1, <3>2
  <2>2. t = [s EXCEPT !.output = b, !.next_index = end, !.pending = rest]
    <3>1. t = Flush(s)
      BY DEF s
    <3>2. s.next_index \in DOMAIN s.pending
      BY <1>7, <1>9
    <3>3. Flush(s) = [s EXCEPT
            !.output = WriterPush(s.output, s.pending[s.next_index]),
            !.next_index = s.next_index + Len(s.pending[s.next_index]),
            !.pending = [i \in DOMAIN s.pending \ {s.next_index} |-> s.pending[i]]]
      BY <3>2, Zenon DEF Flush
    <3> QED BY <1>7, <3>1, <3>3, Zenon
  <2> HIDE DEF rest, size, chunk, end
  <2>3. Least(AvailableCapacity(old), size) = size
    <3> DEFINE used == Len(old.buffer)
    <3>1. /\ size \in Nat /\ used \in Nat /\ old.total_popped \in Nat
          /\ next = old.total_popped + used
          /\ next + size <= limit /\ limit <= old.total_popped + capacity
          /\ limit \in Nat
      BY <1>1, <2>1 DEF end
    <3>2. \A p, u, z, m \in Nat : p + u + z <= m /\ m <= p + capacity => z <= capacity - u
      BY ONLY capacity \in Nat
    <3> HIDE DEF used
    <3>3. size <= capacity - used
      BY <3>1, <3>2
    <3>4. AvailableCapacity(old) = capacity - used /\ capacity - used \in Int
      BY <1>1, <3>1 DEF AvailableCapacity, used
    <3>5. \A a \in Int, z \in Nat : z <= a => Least(a, z) = z
      BY ONLY TRUE DEF Least
    <3> QED BY <3>1, <3>3, <3>4, <3>5
  <2>4. /\ b \in ByteStreams /\ StreamOk(b) /\ b.capacity = old.capacity
        /\ b.total_popped = old.total_popped
        /\ b.closed = old.closed /\ b.error = old.error
        /\ b.total_pushed = old.total_pushed + size
        /\ b.buffer = Substring(b.total_popped, Len(b.buffer))
    <3>1. /\ size \in Nat /\ b = WriterPush(old, Substring(old.total_pushed, size))
          /\ size = Least(AvailableCapacity(old), size)
      BY <1>1, <2>1, <2>3
    <3> HIDE DEF b
    <3>2. /\ old \in ByteStreams /\ StreamOk(old)
          /\ old.buffer = Substring(old.total_popped, Len(old.buffer))
      BY <1>1
    <3> QED BY <3>1, <3>2, PushAppends
  <2> HIDE DEF b
  <2>5. t = [output |-> b, pending |-> rest, next_index |-> end,
             last_index |-> r.last_index, last_seen |-> r.last_seen]
    BY <1>2, <2>2
  <2>6. /\ t.output = b /\ t.pending = rest /\ t.next_index = end
        /\ t.last_index = r.last_index /\ t.last_seen = r.last_seen
    BY <2>5
  <2>7. /\ DOMAIN rest = DOMAIN q \ {next}
        /\ \A i \in DOMAIN rest : rest[i] = q[i] /\ ChunkEnd(rest, i) = ChunkEnd(q, i)
    BY DEF rest, ChunkEnd
  <2>8. \A i \in DOMAIN rest : end + 1 <= i
    <3>1. \A i \in DOMAIN rest : i \in DOMAIN q /\ next < i /\ i \in Nat
      BY <1>1, <1>6, <2>7
    <3>2. \A i \in DOMAIN rest : end < i
      BY <1>6, <1>9, <2>1, <3>1
    <3> QED BY <2>1, <3>1, <3>2
  <2>9. Chunks(rest, end + 1, limit)
    <3>1. rest = [i \in DOMAIN rest |-> rest[i]]
      BY DEF rest
    <3> QED BY <1>4, <2>7, <2>8, <3>1 DEF Chunks
  <2>10. /\ end = b.total_pushed /\ end <= length /\ next <= end
         /\ limit = Least(length, b.total_popped + capacity)
    <3>1. end = b.total_pushed
      BY <1>1, <2>4 DEF end
    <3>2. end <= limit /\ limit <= length /\ end \in Nat /\ limit \in Nat
      BY <1>1, <2>1
    <3>3. next <= end
      BY <1>1, <2>1 DEF end
    <3>4. limit = Least(length, b.total_popped + capacity)
      BY <1>5, <2>4
    <3> QED BY <3>1, <3>2, <3>3, <3>4
  <2>11. InPlace(t, length, capacity)
    BY <1>1, <1>3, <2>4, <2>5, <2>6, <2>9, <2>10 DEF InPlace
  <2>12. ASSUME NEW x \in Nat
         PROVE  Has(t, x) <=> x < next \/ Covered(q, x)
    <3>1. Has(t, x) <=> x < end \/ Covered(rest, x)
      BY <2>6 DEF Has
    <3>2. Covered(q, x) <=> (next <= x /\ x < end) \/ Covered(rest, x)
      <4>1. Covered(q, x) <=> \E c \in DOMAIN q : c <= x /\ x < ChunkEnd(q, c)
        BY DEF Covered
      <4>2. Covered(rest, x) <=>
              \E c \in DOMAIN q \ {next} : c <= x /\ x < ChunkEnd(q, c)
        BY <2>7 DEF Covered
      <4>3. ChunkEnd(q, next) = end
        BY <2>1
      <4> QED BY <1>9, <4>1, <4>2, <4>3, Zenon
    <3>3. x < end <=> x < next \/ (next <= x /\ x < end)
      BY <1>1, <2>1, <2>10
    <3> QED BY <3>1, <3>2, <3>3
  <2>13. end >= next
    BY <1>1, <2>1, <2>10
  <2> QED BY <2>4, <2>6, <2>11, <2>12, <2>13 DEF old, next
<1> QED BY <1>8, <1>9

\* What arrives is cut to the window; the rest is a substring of the stream.
Window(first, n, next, limit, from, upto) ==
  /\ from \in Nat /\ upto \in Nat /\ next <= from /\ first <= from
  /\ upto <= first + n /\ upto <= limit
  /\ \A x \in Nat : next <= x => (from <= x <=> first <= x)
  /\ \A x \in Nat : x < upto <=> x < first + n /\ x < limit
  /\ from < upto =>
       /\ Part(Substring(first, n), from - first + 1, upto - first) =
            Substring(from, upto - from)
       /\ upto - from \in Nat \ {0} /\ from + (upto - from) = upto

\* What the two trims leave of first..first+n-1.
LEMMA TrimmedPart ==
  ASSUME NEW first \in Nat, NEW n \in Nat, NEW next \in Nat, NEW limit \in Nat,
         NEW from, from = Most(first, next),
         NEW upto, upto = Least(first + n, limit)
  PROVE  Window(first, n, next, limit, from, upto)
<1>1. \A a, d \in Nat : /\ Most(a, d) \in Nat /\ Most(a, d) >= a /\ Most(a, d) >= d
                        /\ \A x \in Nat : d <= x => (Most(a, d) <= x <=> a <= x)
  BY ONLY TRUE DEF Most
<1>2. \A a, d \in Nat : /\ Least(a, d) \in Nat /\ Least(a, d) <= a /\ Least(a, d) <= d
                        /\ \A x \in Nat : x < Least(a, d) <=> x < a /\ x < d
  BY ONLY TRUE DEF Least
<1>3. first + n \in Nat
  OBVIOUS
<1>4. /\ from \in Nat /\ upto \in Nat /\ next <= from /\ first <= from
      /\ upto <= first + n /\ upto <= limit
  BY <1>1, <1>2, <1>3
<1>5. ASSUME from < upto
      PROVE  /\ Part(Substring(first, n), from - first + 1, upto - first) =
                  Substring(from, upto - from)
             /\ upto - from \in Nat \ {0} /\ from + (upto - from) = upto
  <2> DEFINE m == from - first + 1
             e == upto - first
             size == upto - from
  <2>1. /\ m \in Nat \ {0} /\ e \in Nat /\ m <= e + 1 /\ e <= n
        /\ from = first + m - 1 /\ size = e - m + 1
        /\ size \in Nat \ {0} /\ from + size = upto
    BY <1>4, <1>5
  <2> HIDE DEF m, e, size
  <2>2. Part(Substring(first, n), m, e) = Substring(from, size)
    BY <2>1, SubstringPart
  <2> QED BY <2>1, <2>2 DEF m, e, size
<1> QED BY <1>1, <1>2, <1>3, <1>4, <1>5 DEF Window

\* insert(): a substring adds the bytes of it that are inside the window.
Inserted(t, r, first, n, last, length, capacity) ==
  /\ Assembled(t, length, capacity)
  /\ t.output.total_popped = r.output.total_popped
  /\ t.output.error = r.output.error
  /\ t.last_seen <=> r.last_seen \/ last
  /\ t.next_index >= r.next_index
  /\ \A x \in Nat : Has(t, x) <=>
       \/ Has(r, x)
       \/ first <= x /\ x < first + n /\ x < r.output.total_popped + capacity

\* insert(): marking the last byte, trimming, storing, flushing and closing.
LEMMA InsertKeeps ==
  ASSUME NEW r, NEW length \in Nat, NEW capacity \in Nat, Assembled(r, length, capacity),
         UINT64_MAX \in Nat, length <= UINT64_MAX,
         NEW first \in Nat, NEW n \in Nat, first + n <= length, NEW last \in BOOLEAN,
         last => first + n = length,
         NEW t, t = Insert(r, first, Substring(first, n), last)
  PROVE  Inserted(t, r, first, n, last, length, capacity)
<1> DEFINE next   == r.next_index
           room   == r.output.total_popped + capacity
           marked == MarkLast(r, first, Substring(first, n), last)
           from   == Most(first, next)
           upto   == Least(first + n, room)
<1>1. /\ next \in Nat /\ next <= length /\ room \in Nat /\ StreamLimit(r) = room
      /\ r.output.total_popped \in Nat
      /\ InPlace(r, length, capacity)
      /\ r.output.closed <=> r.last_seen /\ next = length
  <2>1. /\ InPlace(r, length, capacity)
        /\ r.output.closed <=> r.last_seen /\ next = length
    BY DEF Assembled
  <2>2. /\ r.output.total_popped \in Nat /\ r.next_index \in Nat /\ r.next_index <= length
        /\ StreamLimit(r) = r.output.total_popped + capacity
    BY <2>1, InPlaceTypes
  <2> QED BY <2>1, <2>2
<1>2. /\ InPlace(marked, length, capacity)
      /\ marked.output = r.output /\ marked.pending = r.pending /\ marked.next_index = next
      /\ marked.last_seen <=> r.last_seen \/ last
  <2> HIDE DEF marked
  <2>1. marked = MarkLast(r, first, Substring(first, n), last)
    BY DEF marked
  <2>2. InPlace(r, length, capacity)
    BY <1>1
  <2>3. InPlace(marked, length, capacity)
    BY <2>1, <2>2, MarkLastKeeps
  <2>4. /\ marked.output = r.output /\ marked.pending = r.pending
        /\ marked.next_index = next
    BY <2>1, <2>2, MarkLastKeeps
  <2>5. marked.last_seen <=> r.last_seen \/ last
    BY <2>1, <2>2, MarkLastKeeps
  <2> QED BY <2>3, <2>4, <2>5
<1>3. /\ marked.last_seen \in BOOLEAN
      /\ AllWritten(marked) <=> marked.last_seen /\ next = length
  BY <1>2 DEF InPlace, AllWritten
<1>4. Len(Substring(first, n)) = n
  BY SubstringBytes
<1>5. t = IF AllWritten(marked) THEN CloseIfAllWritten(marked)
          ELSE IF from >= upto THEN marked
          ELSE StoreAndFlush(marked, from, Trimmed(r, first, Substring(first, n)))
  BY <1>1, <1>4 DEF Insert
<1>6. Trimmed(r, first, Substring(first, n)) =
        Part(Substring(first, n), from - first + 1, upto - first)
  BY <1>1, <1>4, Zenon DEF Trimmed, Part
<1>7. /\ from \in Nat /\ upto \in Nat /\ next <= from /\ first <= from
      /\ upto <= first + n /\ upto <= room
      /\ \A x \in Nat : next <= x => (from <= x <=> first <= x)
      /\ \A x \in Nat : x < upto <=> x < first + n /\ x < room
      /\ from < upto =>
           /\ Part(Substring(first, n), from - first + 1, upto - first) =
                Substring(from, upto - from)
           /\ upto - from \in Nat \ {0} /\ from + (upto - from) = upto
  <2>1. from = Most(first, next) /\ upto = Least(first + n, room)
    OBVIOUS
  <2> HIDE DEF from, upto, next, room
  <2>2. next \in Nat /\ room \in Nat
    BY <1>1
  <2>3. Window(first, n, next, room, from, upto)
    BY <2>1, <2>2, TrimmedPart
  <2> QED BY <2>3, Zenon DEF Window
<1> HIDE DEF marked, from, upto, room, next
<1>8. \A x \in Nat : Has(r, x) <=> x < next \/ Covered(r.pending, x)
  BY DEF Has, next
<1>9. CASE AllWritten(marked)
  <2>1. t = CloseIfAllWritten(marked)
    BY <1>5, <1>9
  <2>2. marked.output.closed => marked.last_seen /\ marked.next_index = length
    BY <1>2, <1>3, <1>9
  <2>3. Untouched(t, marked, length, capacity)
    BY <1>2, <2>1, <2>2, CloseKeeps
  <2>4. ASSUME NEW x \in Nat, first <= x, x < first + n
        PROVE  Has(r, x)
    <3>1. x < next
      BY <1>1, <1>3, <1>9, <2>4
    <3> QED BY <1>8, <3>1
  <2>5. \A x \in Nat : Has(t, x) <=> Has(r, x)
    BY <1>2, <1>8, <2>3 DEF Has, Untouched
  <2>6. next >= next
    BY <1>1
  <2> QED BY <1>2, <2>3, <2>4, <2>5, <2>6 DEF next, room, Inserted, Untouched
<1>10. CASE ~AllWritten(marked) /\ from >= upto
  <2>1. t = marked
    BY <1>5, <1>10
  <2>2. Assembled(t, length, capacity)
    <3>1. ~(marked.last_seen /\ marked.next_index = length)
      BY <1>2, <1>3, <1>10
    <3>2. r.last_seen => marked.last_seen
      BY <1>2
    <3>3. r.output.closed \in BOOLEAN /\ ~r.output.closed
      BY <1>1, <1>2, <3>1, <3>2, InPlaceTypes
    <3> QED BY <1>2, <2>1, <3>1, <3>3 DEF Assembled
  <2>3. ASSUME NEW x \in Nat, first <= x, x < first + n, x < room
        PROVE  Has(r, x)
    <3>1. x < upto
      BY <1>7, <2>3
    <3>2. ~(from <= x)
      BY <1>7, <1>10, <3>1
    <3>3. ~(next <= x)
      BY <1>7, <2>3, <3>2
    <3>4. x < next
      BY <1>1, <3>3
    <3> QED BY <1>8, <3>4
  <2>4. \A x \in Nat : Has(t, x) <=> Has(r, x)
    BY <1>2, <1>8, <2>1 DEF Has
  <2>5. next >= next
    BY <1>1
  <2> QED BY <1>2, <2>1, <2>2, <2>3, <2>4, <2>5 DEF next, room, Inserted
<1>11. CASE ~AllWritten(marked) /\ ~(from >= upto)
  <2> DEFINE size  == upto - from
             q     == StoreMerged(r.pending, from, Substring(from, size))
             limit == Least(length, room)
             u     == Flush([marked EXCEPT !.pending = q])
  <2>1. /\ from < upto /\ size \in Nat \ {0} /\ from + size = upto
    BY <1>7, <1>11
  <2>2. t = CloseIfAllWritten(u)
    <3>1. t = StoreAndFlush(marked, from, Substring(from, size))
      BY <1>5, <1>6, <1>7, <1>11, <2>1
    <3>2. StoreAndFlush(marked, from, Substring(from, size)) =
            CloseIfAllWritten(Flush([marked EXCEPT
              !.pending = StoreMerged(marked.pending, from, Substring(from, size))]))
      BY Zenon DEF StoreAndFlush
    <3> QED BY <1>2, <3>1, <3>2, Zenon
  <2>3. /\ limit \in Nat /\ next <= limit /\ upto <= limit
    <3>1. /\ \A a, d \in Nat : Least(a, d) \in Nat
          /\ \A a, d, x \in Nat : x <= a /\ x <= d => x <= Least(a, d)
      BY ONLY TRUE DEF Least
    <3>2. first + n \in Nat /\ upto <= length
      BY <1>7
    <3>3. next <= limit
      BY <1>1, InPlaceTypes DEF next
    <3> QED BY <1>1, <1>7, <3>1, <3>2, <3>3
  <2>4. Chunks(r.pending, next, limit)
    <3>1. Chunks(r.pending, next + 1, limit)
      BY <1>1 DEF InPlace, next, room
    <3>2. next + 1 \in Nat /\ next <= next + 1 /\ limit <= limit
      BY <1>1, <2>3
    <3> QED BY <1>1, <2>3, <3>1, <3>2, ChunksWiden
  <2> HIDE DEF size, limit, q
  <2>5. /\ Chunks(q, next, limit)
        /\ \A x \in Nat : Covered(q, x) <=>
             Covered(r.pending, x) \/ (from <= x /\ x < from + size)
    <3>1. q = StoreMerged(r.pending, from, Substring(from, size))
      BY DEF q
    <3>2. next <= from /\ from + size <= limit /\ next \in Nat /\ from \in Nat
      BY <1>1, <1>7, <2>1, <2>3
    <3> QED BY <2>1, <2>3, <2>4, <3>1, <3>2, StoreMergedKeeps
  <2>6. StreamLimit(marked) = room
    BY <1>1, <1>2 DEF StreamLimit, next
  <2>7. Chunks(q, marked.next_index, Least(length, StreamLimit(marked)))
    BY <1>2, <2>5, <2>6 DEF limit
  <2>8. /\ InPlace(u, length, capacity)
        /\ u.last_seen = marked.last_seen
        /\ u.output.closed = marked.output.closed
        /\ u.output.error = marked.output.error
        /\ u.output.total_popped = marked.output.total_popped
        /\ u.next_index >= marked.next_index
        /\ \A x \in Nat : Has(u, x) <=> x < marked.next_index \/ Covered(q, x)
    BY <1>2, <2>7, FlushKeeps
  <2> HIDE DEF u
  <2>9. ~u.output.closed
    <3>1. ~(marked.last_seen /\ next = length)
      BY <1>3, <1>11
    <3>2. r.last_seen => marked.last_seen
      BY <1>2
    <3>3. r.output.closed \in BOOLEAN /\ ~r.output.closed
      BY <1>1, <3>1, <3>2, InPlaceTypes
    <3> QED BY <1>2, <2>8, <3>3
  <2>10. Untouched(t, u, length, capacity)
    BY <2>2, <2>8, <2>9, CloseKeeps
  <2>11. ASSUME NEW x \in Nat
         PROVE  Has(t, x) <=> Has(r, x) \/ (first <= x /\ x < first + n /\ x < room)
    <3>1. Has(t, x) <=> Has(u, x)
      BY <2>10 DEF Has, Untouched
    <3>2. Has(t, x) <=> x < next \/ Covered(r.pending, x) \/ (from <= x /\ x < upto)
      BY <1>2, <2>1, <2>5, <2>8, <3>1
    <3>3. ~(x < next) <=> next <= x
      BY <1>1
    <3>4. (from <= x /\ x < upto) \/ x < next <=>
            (first <= x /\ x < first + n /\ x < room) \/ x < next
      BY <1>7, <3>3
    <3> QED BY <1>8, <3>2, <3>4
  <2> QED BY <1>2, <2>8, <2>10, <2>11 DEF next, room, Inserted, Untouched
<1> QED BY <1>9, <1>10, <1>11
\* insert() of nothing: an empty substring that does not end the stream.
LEMMA InsertNothing ==
  ASSUME NEW r, NEW length \in Nat, NEW capacity \in Nat, Assembled(r, length, capacity),
         NEW first \in Nat, NEW t, t = Insert(r, first, << >>, FALSE)
  PROVE  Untouched(t, r, length, capacity)
<1>1. /\ InPlace(r, length, capacity) /\ r.next_index \in Nat
      /\ r.output.closed => r.last_seen /\ r.next_index = length
      /\ StreamLimit(r) \in Nat
  <2>1. InPlace(r, length, capacity)
    BY DEF Assembled
  <2>2. r.output.total_popped \in Nat /\ StreamLimit(r) = r.output.total_popped + capacity
    BY <2>1, InPlaceTypes
  <2> QED BY <2>1, <2>2, InPlaceTypes DEF Assembled
<1>2. MarkLast(r, first, << >>, FALSE) = r /\ Len(<< >>) = 0
  BY DEF MarkLast
<1>3. Most(first, r.next_index) >= Least(first + Len(<< >>), StreamLimit(r))
  <2>1. \A a, b, c \in Nat : Most(a, b) >= Least(a + 0, c)
    BY ONLY TRUE DEF Most, Least
  <2> QED BY <1>1, <1>2, <2>1
<1>4. t = IF AllWritten(r) THEN CloseIfAllWritten(r) ELSE r
  BY <1>2, <1>3, Zenon DEF Insert
<1>5. CASE AllWritten(r)
  <2>1. t = CloseIfAllWritten(r)
    BY <1>4, <1>5
  <2>2. InPlace(r, length, capacity)
    BY <1>1
  <2>3. r.output.closed => r.last_seen /\ r.next_index = length
    BY <1>1
  <2> QED BY <2>1, <2>2, <2>3, CloseKeeps
<1>6. CASE ~AllWritten(r)
  <2>1. t = r
    BY <1>4, <1>6
  <2> QED BY <2>1 DEF Untouched
<1> QED BY <1>5, <1>6

\* The stream may grow until its end is known.
LEMMA LongerStream ==
  ASSUME NEW r, NEW length \in Nat, NEW capacity \in Nat, Assembled(r, length, capacity),
         NEW more \in Nat, length <= more, r.last_seen => more = length
  PROVE  Assembled(r, more, capacity)
<1>1. CASE more = length
  BY <1>1
<1>2. CASE more # length
  <2>1. InPlace(r, length, capacity) /\ ~r.last_seen /\ ~r.output.closed
    BY <1>2, InPlaceTypes DEF Assembled
  <2>2. /\ r.next_index \in Nat /\ r.next_index <= length
        /\ r.output.total_popped \in Nat
        /\ Chunks(r.pending, r.next_index + 1, Least(length, r.output.total_popped + capacity))
    BY <2>1, InPlaceTypes DEF InPlace
  <2> DEFINE low == r.next_index + 1
             room == r.output.total_popped + capacity
             old == Least(length, room)
             new == Least(more, room)
  <2>3. low \in Nat /\ low <= low /\ r.next_index <= more /\ room \in Nat
    BY <2>2
  <2>4. old \in Nat /\ new \in Nat /\ old <= new
    <3>1. \A a, b, c \in Nat : a <= b => /\ Least(a, c) \in Nat /\ Least(b, c) \in Nat
                                         /\ Least(a, c) <= Least(b, c)
      BY ONLY TRUE DEF Least
    <3> QED BY <2>3, <3>1
  <2> HIDE DEF low, old, new
  <2>5. Chunks(r.pending, low, new)
    BY <2>2, <2>3, <2>4, ChunksWiden DEF low, old
  <2>6. InPlace(r, more, capacity)
    BY <2>1, <2>3, <2>5 DEF InPlace, low, new
  <2> QED BY <2>1, <2>6 DEF Assembled
<1> QED BY <1>1, <1>2
=============================================================================
