---------------------------- MODULE BasicLemmas -----------------------------
(* Sequences and numbers: what the other modules of proofs need of them and *)
(* no library says.                                                         *)
EXTENDS Integers, Basics, Functions, WellFoundedInduction, TLAPS

-----------------------------------------------------------------------------
(* Sequences and numbers.                                                   *)

\* A part of a sequence (string::substr).
LEMMA SubSeqInside ==
  ASSUME NEW S, NEW q \in Seq(S), NEW m \in Nat \ {0}, NEW n \in Nat,
         m <= n + 1, n <= Len(q)
  PROVE  /\ SubSeq(q, m, n) \in Seq(S)
         /\ Len(SubSeq(q, m, n)) = n - m + 1
         /\ \A i \in 1..(n - m + 1) : SubSeq(q, m, n)[i] = q[m + i - 1]
OBVIOUS

\* The same, from the end of one part to the end of the next.
LEMMA PartOfSequence ==
  ASSUME NEW S, NEW q \in Seq(S), NEW from \in Nat, NEW upto \in Nat,
         from <= upto, upto <= Len(q)
  PROVE  /\ SubSeq(q, from + 1, upto) \in Seq(S)
         /\ Len(SubSeq(q, from + 1, upto)) = upto - from
         /\ \A i \in 1..(upto - from) :
              from + i \in 1..Len(q) /\ SubSeq(q, from + 1, upto)[i] = q[from + i]
OBVIOUS

\* Two sequences, one after the other.
LEMMA Concatenation ==
  ASSUME NEW S, NEW p \in Seq(S), NEW q \in Seq(S)
  PROVE  /\ p \o q \in Seq(S)
         /\ Len(p \o q) = Len(p) + Len(q)
         /\ \A i \in 1..(Len(p) + Len(q)) :
              IF i <= Len(p) THEN i \in 1..Len(p) /\ (p \o q)[i] = p[i]
              ELSE i - Len(p) \in 1..Len(q) /\ (p \o q)[i] = q[i - Len(p)]
OBVIOUS

\* Two sequences with the same elements.
LEMMA SameElements ==
  ASSUME NEW S, NEW p \in Seq(S), NEW q \in Seq(S), Len(p) = Len(q),
         \A i \in 1..Len(p) : p[i] = q[i]
  PROVE  p = q
OBVIOUS

\* w is e and then q.
IsFirst(e, q, w) ==
  /\ Len(w) = Len(q) + 1
  /\ w[1] = e
  /\ \A k \in 1..Len(q) : q[k] = w[k + 1]

\* Putting e at the end of out and q after it is putting w after out.
Shifts(out, e, q, w) == Append(out, e) \o q = out \o w

\* Taking the first element of a sequence to the end of the one before it.
LEMMA FirstMoves ==
  ASSUME NEW S, NEW out \in Seq(S), NEW q \in Seq(S), NEW w \in Seq(S),
         NEW e, IsFirst(e, q, w)
  PROVE  Shifts(out, e, q, w)
<1> DEFINE a == Append(out, e)
           x == a \o q
           y == out \o w
           n == Len(out)
<1>0. Len(w) = Len(q) + 1 /\ e = w[1] /\ \A k \in 1..Len(q) : q[k] = w[k + 1]
  BY DEF IsFirst
<1>1. n \in Nat /\ Len(q) \in Nat /\ e \in S
  <2>1. 1 \in 1..Len(w)
    BY <1>0
  <2> QED BY <1>0, <2>1
<1>2. /\ a \in Seq(S) /\ Len(a) = n + 1 /\ a[n + 1] = e
      /\ \A i \in 1..n : a[i] = out[i]
  BY <1>1
<1> HIDE DEF a
<1>3. /\ x \in Seq(S) /\ Len(x) = Len(a) + Len(q)
      /\ \A i \in 1..(Len(a) + Len(q)) :
           IF i <= Len(a) THEN i \in 1..Len(a) /\ x[i] = a[i]
           ELSE i - Len(a) \in 1..Len(q) /\ x[i] = q[i - Len(a)]
  BY <1>2, Concatenation
<1>4. /\ y \in Seq(S) /\ Len(y) = Len(out) + Len(w)
      /\ \A i \in 1..(Len(out) + Len(w)) :
           IF i <= Len(out) THEN i \in 1..Len(out) /\ y[i] = out[i]
           ELSE i - Len(out) \in 1..Len(w) /\ y[i] = w[i - Len(out)]
  BY Concatenation
<1> HIDE DEF x, y, n
<1>5. Len(a) + Len(q) = Len(out) + Len(w) /\ n = Len(out)
  BY <1>0, <1>1, <1>2 DEF n
<1>6. ASSUME NEW i \in 1..(Len(a) + Len(q))
      PROVE  x[i] = y[i]
  <2>1. CASE i <= n
    <3>1. i <= Len(a) /\ i <= Len(out) /\ i \in 1..n /\ i \in 1..(Len(out) + Len(w))
      BY <1>1, <1>2, <1>5, <2>1
    <3> QED BY <1>2, <1>3, <1>4, <3>1
  <2>2. CASE i = n + 1
    <3>1. /\ i - Len(out) = 1 /\ ~(i <= Len(out)) /\ i <= Len(a)
          /\ i \in 1..(Len(out) + Len(w))
      BY <1>1, <1>2, <1>5, <2>2
    <3>2. y[i] = w[i - Len(out)] /\ x[i] = a[n + 1]
      BY <1>3, <1>4, <2>2, <3>1
    <3> QED BY <1>0, <1>2, <3>1, <3>2
  <2>3. CASE i > n + 1
    <3>1. /\ ~(i <= Len(a)) /\ ~(i <= Len(out)) /\ i \in 1..(Len(out) + Len(w))
          /\ i - Len(a) \in 1..Len(q) /\ (i - Len(a)) + 1 = i - Len(out)
      BY <1>1, <1>2, <1>5, <2>3
    <3>2. x[i] = q[i - Len(a)] /\ y[i] = w[i - Len(out)]
      BY <1>3, <1>4, <3>1
    <3>3. q[i - Len(a)] = w[(i - Len(a)) + 1]
      BY <1>0, <3>1
    <3> QED BY <3>1, <3>2, <3>3
  <2> QED BY <1>1, <2>1, <2>2, <2>3
<1>7. x = y
  BY <1>3, <1>4, <1>5, <1>6, SameElements
<1> QED BY <1>7 DEF x, y, a, Shifts

\* The same, before an empty sequence.
LEMMA FirstStays ==
  ASSUME NEW S, NEW q \in Seq(S), NEW w \in Seq(S),
         NEW e, IsFirst(e, q, w)
  PROVE  <<e>> \o q = w
<1>1. <<>> \in Seq(S)
  OBVIOUS
<1>2. Shifts(<<>>, e, q, w)
  BY <1>1, FirstMoves, Zenon
<1>3. Append(<<>>, e) = <<e>> /\ <<>> \o w = w
  OBVIOUS
<1> QED BY <1>2, <1>3 DEF Shifts

\* A part of what follows the first n elements.
LEMMA PartOfRest ==
  ASSUME NEW S, NEW q \in Seq(S), NEW n \in Nat, NEW from \in Nat, NEW upto \in Nat,
         from <= upto, n + upto <= Len(q)
  PROVE  SubSeq(SubSeq(q, n + 1, Len(q)), from + 1, upto) =
           SubSeq(q, (n + from) + 1, n + upto)
<1> DEFINE rest == SubSeq(q, n + 1, Len(q))
           p    == SubSeq(rest, from + 1, upto)
           r    == SubSeq(q, (n + from) + 1, n + upto)
<1>1. /\ rest \in Seq(S) /\ Len(rest) = Len(q) - n
      /\ \A i \in 1..(Len(q) - n) : n + i \in 1..Len(q) /\ rest[i] = q[n + i]
  <2>1. Len(q) \in Nat /\ n <= Len(q)
    OBVIOUS
  <2> QED BY <2>1, PartOfSequence
<1>2. /\ p \in Seq(S) /\ Len(p) = upto - from
      /\ \A i \in 1..(upto - from) : from + i \in 1..Len(rest) /\ p[i] = rest[from + i]
  <2>1. upto <= Len(rest)
    BY <1>1
  <2> HIDE DEF rest
  <2> QED BY <1>1, <2>1, PartOfSequence
<1>3. /\ r \in Seq(S) /\ Len(r) = upto - from
      /\ \A i \in 1..(upto - from) : r[i] = q[(n + from) + i]
  <2>1. n + from \in Nat /\ n + upto \in Nat /\ n + from <= n + upto
        /\ (n + upto) - (n + from) = upto - from
    OBVIOUS
  <2> DEFINE a == n + from
             b == n + upto
  <2> HIDE DEF a, b
  <2>2. /\ SubSeq(q, a + 1, b) \in Seq(S) /\ Len(SubSeq(q, a + 1, b)) = b - a
        /\ \A i \in 1..(b - a) : SubSeq(q, a + 1, b)[i] = q[a + i]
    BY <2>1, PartOfSequence DEF a, b
  <2> QED BY <2>1, <2>2 DEF a, b
<1> HIDE DEF rest, p, r
<1>4. ASSUME NEW i \in 1..Len(p)
      PROVE  p[i] = r[i]
  <2>1. i \in 1..(upto - from) /\ from + i \in 1..(Len(q) - n)
    BY <1>1, <1>2
  <2>2. p[i] = rest[from + i] /\ rest[from + i] = q[n + (from + i)]
    BY <1>1, <1>2, <2>1
  <2>3. n + (from + i) = (n + from) + i
    OBVIOUS
  <2> QED BY <1>3, <2>1, <2>2, <2>3
<1>5. p = r
  BY <1>2, <1>3, <1>4, SameElements
<1> QED BY <1>5 DEF p, r, rest

\* Every non-empty set of naturals has a least element.
LEMMA LeastNumber ==
  ASSUME NEW T, T \subseteq Nat, T # {}
  PROVE  \E m \in T : \A k \in T : m <= k
<1>1. \E x \in T : \A y \in T : ~(<<y, x>> \in OpToRel(<, Nat))
  BY NatLessThanWellFounded, WFMin, Zenon
<1>2. ASSUME NEW x \in T, NEW y \in T, ~(<<y, x>> \in OpToRel(<, Nat))
      PROVE  x <= y
  BY <1>2 DEF OpToRel
<1> QED BY <1>1, <1>2, Zenon

\* Every non-empty, bounded set of naturals has a greatest element.
LEMMA GreatestNumber ==
  ASSUME NEW T, T \subseteq Nat, T # {}, NEW bound \in Nat, \A k \in T : k <= bound
  PROVE  \E m \in T : \A k \in T : m >= k
<1> DEFINE Below == {bound - k : k \in T}
<1>1. Below \subseteq Nat /\ Below # {}
  <2>1. \A k \in T : bound - k \in Nat
    OBVIOUS
  <2> QED BY <2>1
<1>2. PICK d \in Below : \A k \in Below : d <= k
  <2> HIDE DEF Below
  <2> QED BY <1>1, LeastNumber, Zenon
<1>3. PICK m \in T : d = bound - m
  OBVIOUS
<1>4. ASSUME NEW k \in T
      PROVE  m >= k
  <2>1. bound - m <= bound - k
    BY <1>2, <1>3
  <2>2. m \in Nat /\ k \in Nat
    OBVIOUS
  <2> QED BY <2>1, <2>2
<1> QED BY <1>4

-----------------------------------------------------------------------------
(* Recursion.  (The theorems of the library take operators as parameters;   *)
(* here a step is a function, so that they are about values only.)          *)

\* Steps up to n stay in V.
Closed(n, V, step) == \A i \in 1..n : \A v \in V : step[<<i, v>>] \in V

\* f goes from its first value to n by steps.
Iterates(f, n, base, step) ==
  f[0] = base /\ \A i \in 1..n : f[i] = step[<<i, f[i - 1]>>]

\* A function on 0..n can be defined by its first value and a step.
LEMMA Recursion ==
  ASSUME NEW n \in Nat, NEW V, NEW base \in V, NEW step, Closed(n, V, step)
  PROVE  \E f \in [0..n -> V] : Iterates(f, n, base, step)
<1> USE DEF Iterates
<1> DEFINE Good(m) == \E f \in [0..m -> V] : Iterates(f, m, base, step)
           T == {m \in 0..n : ~Good(m)}
<1>1. Good(0)
  <2> DEFINE g == [i \in 0..0 |-> base]
  <2>1. g \in [0..0 -> V] /\ g[0] = base
    OBVIOUS
  <2>2. \A i \in 1..0 : g[i] = step[<<i, g[i - 1]>>]
    OBVIOUS
  <2> HIDE DEF g
  <2> QED BY <2>1, <2>2
<1>2. ASSUME NEW m \in 1..n, Good(m - 1)
      PROVE  Good(m)
  <2>1. m \in Nat /\ m - 1 \in Nat /\ m \in 0..m
    OBVIOUS
  <2>2. PICK f \in [0..(m - 1) -> V] :
          f[0] = base /\ \A i \in 1..(m - 1) : f[i] = step[<<i, f[i - 1]>>]
    BY <1>2
  <2> DEFINE g == [i \in 0..m |-> IF i = m THEN step[<<m, f[m - 1]>>] ELSE f[i]]
  <2>3. step[<<m, f[m - 1]>>] \in V
    <3>1. f[m - 1] \in V
      BY <2>1
    <3> QED BY <3>1 DEF Closed
  <2>4. g \in [0..m -> V]
    BY <2>1, <2>3
  <2>5. g[0] = base
    BY <2>1, <2>2
  <2>6. ASSUME NEW i \in 1..m
        PROVE  g[i] = step[<<i, g[i - 1]>>]
    <3>1. i - 1 \in 0..m /\ i - 1 # m /\ i \in 0..m
      OBVIOUS
    <3>2. g[i - 1] = f[i - 1]
      BY <3>1
    <3>3. CASE i = m
      <4>1. g[i] = step[<<m, f[m - 1]>>]
        BY <3>1, <3>3
      <4> HIDE DEF g
      <4> QED BY <3>2, <3>3, <4>1
    <3>4. CASE i # m
      <4>1. i \in 1..(m - 1)
        BY <3>4
      <4> QED BY <2>2, <3>1, <3>2, <3>4, <4>1
    <3> QED BY <3>3, <3>4
  <2> HIDE DEF g
  <2> QED BY <2>4, <2>5, <2>6
<1> HIDE DEF Good
<1>3. T = {}
  <2> SUFFICES ASSUME T # {} PROVE FALSE
    OBVIOUS
  <2>1. PICK m \in T : \A k \in T : m <= k
    <3>1. T \subseteq Nat
      OBVIOUS
    <3> HIDE DEF T
    <3> QED BY <3>1, LeastNumber
  <2>2. m \in 0..n /\ ~Good(m)
    OBVIOUS
  <2>3. m # 0
    BY <1>1, <2>2
  <2>4. m \in 1..n /\ m - 1 \in 0..n /\ ~(m <= m - 1)
    BY <2>2, <2>3
  <2>5. Good(m - 1)
    BY <2>1, <2>4
  <2> QED BY <1>2, <2>2, <2>4, <2>5
<1>4. Good(n)
  BY <1>3
<1> QED BY <1>4 DEF Good

\* Induction over 0..n, for a set of numbers.
LEMMA InductionUpTo ==
  ASSUME NEW n \in Nat, NEW T, 0 \in T, \A i \in 1..n : i - 1 \in T => i \in T
  PROVE  \A i \in 0..n : i \in T
<1> SUFFICES ASSUME NEW k \in 0..n, k \notin T PROVE FALSE
  OBVIOUS
<1> DEFINE Missing == {i \in 0..n : i \notin T}
<1>1. PICK m \in Missing : \A i \in Missing : m <= i
  <2>1. Missing \subseteq Nat /\ Missing # {}
    OBVIOUS
  <2> HIDE DEF Missing
  <2> QED BY <2>1, LeastNumber
<1>2. m \in 1..n /\ m - 1 \in 0..n /\ ~(m <= m - 1)
  OBVIOUS
<1>3. m - 1 \in T
  BY <1>1, <1>2
<1> QED BY <1>2, <1>3

-----------------------------------------------------------------------------
(* Powers of two.                                                           *)

\* f doubles n times.
Doubles(f, n) == f[0] = 1 /\ \A i \in 1..n : f[i] = 2 * f[i - 1]

\* The recursive function of the powers of two exists.
LEMMA PowerDoubles ==
  ASSUME NEW n \in Nat
  PROVE  \E f \in [0..n -> Nat] : Doubles(f, n) /\ Power2(n) = f[n]
<1> DEFINE P    == (1..n) \X Nat
           step == [x \in P |-> 2 * x[2]]
           g    == CHOOSE g : g = [i \in 0..n |-> IF i = 0 THEN 1 ELSE 2 * g[i - 1]]
<1>1. ASSUME NEW i \in 1..n, NEW v \in Nat
      PROVE  step[<<i, v>>] = 2 * v /\ step[<<i, v>>] \in Nat
  <2>1. <<i, v>> \in P /\ <<i, v>>[2] = v
    OBVIOUS
  <2>2. step[<<i, v>>] = 2 * v
    BY <2>1
  <2> QED BY <2>2
<1>2. PICK f \in [0..n -> Nat] : Iterates(f, n, 1, step)
  <2>1. Closed(n, Nat, step)
    <3> HIDE DEF step
    <3> QED BY <1>1 DEF Closed
  <2>2. 1 \in Nat
    OBVIOUS
  <2> HIDE DEF step
  <2> QED BY <2>1, <2>2, Recursion, Zenon
<1>3. f[0] = 1 /\ \A i \in 1..n : f[i] = 2 * f[i - 1]
  <2>1. ASSUME NEW i \in 1..n PROVE f[i] = 2 * f[i - 1]
    <3>1. f[i - 1] \in Nat
      OBVIOUS
    <3> HIDE DEF step
    <3> QED BY <1>1, <1>2, <3>1 DEF Iterates
  <2> QED BY <1>2, <2>1 DEF Iterates
<1>4. f = [i \in 0..n |-> IF i = 0 THEN 1 ELSE 2 * f[i - 1]]
  <2>1. \A i \in 0..n : f[i] = IF i = 0 THEN 1 ELSE 2 * f[i - 1]
    <3> SUFFICES ASSUME NEW i \in 0..n PROVE f[i] = IF i = 0 THEN 1 ELSE 2 * f[i - 1]
      OBVIOUS
    <3>1. i = 0 \/ i \in 1..n
      OBVIOUS
    <3> QED BY <1>3, <3>1
  <2> QED BY <2>1
<1>5. g = [i \in 0..n |-> IF i = 0 THEN 1 ELSE 2 * g[i - 1]]
  BY <1>4, Zenon
<1>6. Power2(n) = g[n]
  BY Zenon DEF Power2
<1> HIDE DEF g
<1>7. Doubles(g, n)
  <2>1. \A i \in 1..n : i \in 0..n /\ i # 0
    OBVIOUS
  <2>2. 0 \in 0..n
    OBVIOUS
  <2> QED BY <1>5, <2>1, <2>2 DEF Doubles
<1>8. g \in [0..n -> Nat]
  <2> DEFINE Good == {i \in 0..n : g[i] \in Nat}
  <2>1. 0 \in Good /\ \A i \in 1..n : i - 1 \in Good => i \in Good
    BY <1>7 DEF Doubles
  <2> HIDE DEF Good
  <2>2. \A i \in 0..n : i \in Good
    BY <2>1, InductionUpTo
  <2>3. \A i \in 0..n : g[i] \in Nat
    BY <2>2 DEF Good
  <2> QED BY <1>5, <2>3
<1> QED BY <1>6, <1>7, <1>8

\* The powers of two are positive and each is twice the last.
LEMMA PowerNext ==
  ASSUME NEW n \in Nat
  PROVE  /\ Power2(0) = 1
         /\ Power2(n) \in Nat /\ Power2(n) > 0
         /\ Power2(n + 1) = 2 * Power2(n)
<1>1. ASSUME NEW m \in Nat, NEW f, Doubles(f, m)
      PROVE  \A k \in 0..m : f[k] \in Nat /\ f[k] > 0
  <2> DEFINE Good == {i \in 0..m : f[i] \in Nat /\ f[i] > 0}
  <2>1. 0 \in Good /\ \A i \in 1..m : i - 1 \in Good => i \in Good
    BY <1>1 DEF Doubles
  <2> HIDE DEF Good
  <2>2. \A i \in 0..m : i \in Good
    BY <2>1, InductionUpTo
  <2> QED BY <2>2 DEF Good
<1>2. PICK f \in [0..n -> Nat] : Doubles(f, n) /\ Power2(n) = f[n]
  BY PowerDoubles
<1>3. PICK g \in [0..(n + 1) -> Nat] : Doubles(g, n + 1) /\ Power2(n + 1) = g[n + 1]
  <2>1. n + 1 \in Nat
    OBVIOUS
  <2> QED BY <2>1, PowerDoubles, Zenon
<1>4. PICK h \in [0..0 -> Nat] : Doubles(h, 0) /\ Power2(0) = h[0]
  BY PowerDoubles
<1>5. f[n] = g[n]
  <2> DEFINE Same == {i \in 0..n : f[i] = g[i]}
  <2>1. 0 \in Same /\ \A i \in 1..n : i - 1 \in Same => i \in Same
    BY <1>2, <1>3 DEF Doubles
  <2> HIDE DEF Same
  <2>2. \A i \in 0..n : i \in Same
    BY <2>1, InductionUpTo
  <2>3. n \in 0..n
    OBVIOUS
  <2> QED BY <2>2, <2>3 DEF Same
<1>6. g[n + 1] = 2 * g[n]
  BY <1>3 DEF Doubles
<1>7. n \in 0..n
  OBVIOUS
<1> QED BY <1>1, <1>2, <1>3, <1>4, <1>5, <1>6, <1>7 DEF Doubles

-----------------------------------------------------------------------------
(* Selection.                                                               *)

\* f is the selection from q, element by element.
Picks(f, q, S) ==
  /\ f[0] = <<>>
  /\ \A i \in 1..Len(q) :
       f[i] = IF q[i] \in S THEN Append(f[i - 1], q[i]) ELSE f[i - 1]

\* The recursive function that selects from a sequence exists.
LEMMA SelectedPicks ==
  ASSUME NEW T, NEW q \in Seq(T), NEW S
  PROVE  \E f \in [0..Len(q) -> Seq(T)] : Picks(f, q, S) /\ Selected(q, S) = f[Len(q)]
<1> DEFINE n    == Len(q)
           V    == Seq(T)
           P    == (1..n) \X V
           step == [x \in P |-> IF q[x[1]] \in S THEN Append(x[2], q[x[1]]) ELSE x[2]]
           g    == CHOOSE g : g = [i \in 0..Len(q) |->
                      IF i = 0 THEN <<>>
                      ELSE IF q[i] \in S THEN Append(g[i - 1], q[i]) ELSE g[i - 1]]
<1>1. n \in Nat /\ <<>> \in V
  OBVIOUS
<1>2. ASSUME NEW i \in 1..n, NEW v \in V
      PROVE  /\ step[<<i, v>>] = IF q[i] \in S THEN Append(v, q[i]) ELSE v
             /\ step[<<i, v>>] \in V
  <2>1. <<i, v>> \in P /\ <<i, v>>[1] = i /\ <<i, v>>[2] = v
    OBVIOUS
  <2>2. step[<<i, v>>] = IF q[i] \in S THEN Append(v, q[i]) ELSE v
    BY <2>1
  <2>3. q[i] \in T
    OBVIOUS
  <2>4. Append(v, q[i]) \in V
    BY <2>3
  <2> QED BY <2>2, <2>4
<1>3. PICK f \in [0..n -> V] : Iterates(f, n, <<>>, step)
  <2>1. Closed(n, V, step)
    <3> HIDE DEF n, V, step
    <3> QED BY <1>2 DEF Closed
  <2> HIDE DEF n, V, P, step
  <2> QED BY <1>1, <2>1, Recursion, Zenon
<1>4. Picks(f, q, S)
  <2>1. ASSUME NEW i \in 1..n
        PROVE  f[i] = IF q[i] \in S THEN Append(f[i - 1], q[i]) ELSE f[i - 1]
    <3>1. i - 1 \in 0..n
      OBVIOUS
    <3>2. f[i - 1] \in V
      BY <3>1
    <3> HIDE DEF step, V
    <3> QED BY <1>2, <1>3, <3>2 DEF Iterates
  <2> QED BY <1>3, <2>1 DEF Picks, Iterates
<1>5. f = [i \in 0..Len(q) |->
             IF i = 0 THEN <<>>
             ELSE IF q[i] \in S THEN Append(f[i - 1], q[i]) ELSE f[i - 1]]
  <2>1. \A i \in 0..n : f[i] = IF i = 0 THEN <<>>
                               ELSE IF q[i] \in S THEN Append(f[i - 1], q[i]) ELSE f[i - 1]
    <3> SUFFICES ASSUME NEW i \in 0..n
                 PROVE  f[i] = IF i = 0 THEN <<>>
                               ELSE IF q[i] \in S THEN Append(f[i - 1], q[i]) ELSE f[i - 1]
      OBVIOUS
    <3>1. i = 0 \/ i \in 1..n
      OBVIOUS
    <3> HIDE DEF n, V
    <3> QED BY <1>4, <3>1, ZenonT(20) DEF Picks, n
  <2> HIDE DEF V
  <2> QED BY <2>1
<1>6. g = [i \in 0..Len(q) |->
             IF i = 0 THEN <<>>
             ELSE IF q[i] \in S THEN Append(g[i - 1], q[i]) ELSE g[i - 1]]
  BY <1>5, Zenon
<1>7. Selected(q, S) = g[Len(q)]
  BY Zenon DEF Selected
<1>8. g \in [0..n -> V] /\ Picks(g, q, S)
  <2> HIDE DEF g
  <2>1. g[0] = <<>>
    <3>1. 0 \in 0..Len(q)
      BY <1>1
    <3> QED BY <1>6, <3>1
  <2>2. ASSUME NEW i \in 1..n
        PROVE  g[i] = IF q[i] \in S THEN Append(g[i - 1], q[i]) ELSE g[i - 1]
    <3>1. i \in 0..Len(q) /\ i # 0
      BY <1>1
    <3> QED BY <1>6, <3>1
  <2>3. Picks(g, q, S)
    BY <2>1, <2>2 DEF Picks
  <2> DEFINE Good == {i \in 0..n : g[i] \in V}
  <2>4. \A i \in 0..n : i \in Good
    <3>1. 0 \in Good
      BY <1>1, <2>1
    <3>2. \A i \in 1..n : i - 1 \in Good => i \in Good
      <4> SUFFICES ASSUME NEW i \in 1..n, g[i - 1] \in V PROVE g[i] \in V
        OBVIOUS
      <4>1. q[i] \in T
        OBVIOUS
      <4>2. Append(g[i - 1], q[i]) \in V
        BY <4>1
      <4> QED BY <2>2, <4>2
    <3> HIDE DEF Good
    <3> QED BY <1>1, <3>1, <3>2, InductionUpTo
  <2>6. g = [i \in 0..n |-> g[i]]
    BY <1>6
  <2>7. g \in [0..n -> V]
    BY <2>4, <2>6
  <2> QED BY <2>3, <2>7
<1> HIDE DEF g
<1> QED BY <1>7, <1>8

\* The first n elements of p and q are the same.
SameUpTo(p, q, n) == \A i \in 1..n : p[i] = q[i]

\* Two selections agree as long as their sequences do.
LEMMA PicksAgree ==
  ASSUME NEW T, NEW p \in Seq(T), NEW q \in Seq(T), NEW S, NEW n \in Nat,
         n <= Len(p), n <= Len(q), SameUpTo(p, q, n),
         NEW f, Picks(f, p, S), NEW g, Picks(g, q, S)
  PROVE  f[n] = g[n]
<1> DEFINE Same == {i \in 0..n : f[i] = g[i]}
<1>1. 0 \in Same
  BY DEF Picks
<1>2. ASSUME NEW i \in 1..n, i - 1 \in Same
      PROVE  i \in Same
  <2>1. i \in 1..Len(p) /\ i \in 1..Len(q) /\ p[i] = q[i] /\ f[i - 1] = g[i - 1]
    BY <1>2 DEF SameUpTo
  <2>2. f[i] = IF p[i] \in S THEN Append(f[i - 1], p[i]) ELSE f[i - 1]
    BY <2>1 DEF Picks
  <2>3. g[i] = IF q[i] \in S THEN Append(g[i - 1], q[i]) ELSE g[i - 1]
    BY <2>1 DEF Picks
  <2> QED BY <2>1, <2>2, <2>3
<1> HIDE DEF Same
<1>3. \A i \in 0..n : i \in Same
  BY <1>1, <1>2, InductionUpTo
<1>4. n \in 0..n
  OBVIOUS
<1> QED BY <1>3, <1>4 DEF Same

\* Nothing is selected from the empty sequence.
LEMMA SelectedEmpty ==
  ASSUME NEW S
  PROVE  Selected(<<>>, S) = <<>>
<1>1. <<>> \in Seq({}) /\ Len(<<>>) = 0
  OBVIOUS
<1>2. PICK f \in [0..Len(<<>>) -> Seq({})] :
        Picks(f, <<>>, S) /\ Selected(<<>>, S) = f[Len(<<>>)]
  BY <1>1, SelectedPicks
<1> QED BY <1>1, <1>2 DEF Picks

\* One more element.
LEMMA SelectedAppend ==
  ASSUME NEW T, NEW q \in Seq(T), NEW x \in T, NEW S
  PROVE  /\ Selected(q, S) \in Seq(T)
         /\ Selected(Append(q, x), S) =
              IF x \in S THEN Append(Selected(q, S), x) ELSE Selected(q, S)
<1> DEFINE r == Append(q, x)
           n == Len(q)
<1>1. /\ r \in Seq(T) /\ n \in Nat /\ Len(r) = n + 1 /\ r[n + 1] = x
      /\ SameUpTo(q, r, n)
  BY DEF SameUpTo
<1> HIDE DEF r
<1>2. PICK f \in [0..Len(q) -> Seq(T)] : Picks(f, q, S) /\ Selected(q, S) = f[Len(q)]
  BY SelectedPicks
<1>3. PICK g \in [0..Len(r) -> Seq(T)] : Picks(g, r, S) /\ Selected(r, S) = g[Len(r)]
  BY <1>1, SelectedPicks
<1>5. f[n] = g[n]
  <2>1. n <= Len(q) /\ n <= Len(r)
    BY <1>1
  <2> HIDE DEF n
  <2>2. n \in Nat /\ r \in Seq(T) /\ SameUpTo(q, r, n)
    BY <1>1
  <2>3. Picks(f, q, S) /\ Picks(g, r, S)
    BY <1>2, <1>3
  <2> HIDE <1>1, <1>2, <1>3
  <2> QED BY ONLY q \in Seq(T), <2>1, <2>2, <2>3, PicksAgree
<1>6. g[n + 1] = IF r[n + 1] \in S THEN Append(g[n], r[n + 1]) ELSE g[n]
  <2>1. n + 1 \in 1..Len(r) /\ (n + 1) - 1 = n
    BY <1>1
  <2>2. g[n + 1] = IF r[n + 1] \in S THEN Append(g[(n + 1) - 1], r[n + 1])
                                     ELSE g[(n + 1) - 1]
    BY <1>3, <2>1 DEF Picks
  <2> QED BY <2>1, <2>2
<1>7. f[n] \in Seq(T)
  BY <1>1, <1>2
<1> QED BY <1>1, <1>2, <1>3, <1>5, <1>6, <1>7 DEF r

\* All of a sequence is selected, ...
LEMMA SelectedAll ==
  ASSUME NEW T, NEW q \in Seq(T), NEW S, \A i \in 1..Len(q) : q[i] \in S
  PROVE  Selected(q, S) = q
<1> DEFINE n == Len(q)
           Same == {i \in 0..n : Selected(SubSeq(q, 1, i), S) = SubSeq(q, 1, i)}
<1>1. 0 \in Same
  <2>1. SubSeq(q, 1, 0) = <<>> /\ 0 \in 0..n
    OBVIOUS
  <2>2. Selected(SubSeq(q, 1, 0), S) = SubSeq(q, 1, 0)
    BY <2>1, SelectedEmpty
  <2> QED BY <2>1, <2>2
<1>2. ASSUME NEW i \in 1..n, i - 1 \in Same
      PROVE  i \in Same
  <2> DEFINE part == SubSeq(q, 1, i - 1)
             more == SubSeq(q, 1, i)
             x    == q[i]
  <2>1. part \in Seq(T) /\ x \in T /\ x \in S /\ more = Append(part, x)
    OBVIOUS
  <2>2. Selected(part, S) = part
    BY <1>2
  <2>3. Selected(more, S) = more
    <3> HIDE DEF part, more, x, Same, n
    <3> QED BY <2>1, <2>2, SelectedAppend
  <2> QED BY <2>3
<1>3. n \in Same
  <2>1. n \in Nat /\ n \in 0..n
    OBVIOUS
  <2>2. \A i \in 0..n : i \in Same
    <3> HIDE DEF Same, n
    <3> QED BY <1>1, <1>2, <2>1, InductionUpTo
  <2> QED BY <2>1, <2>2
<1>4. SubSeq(q, 1, n) = q
  OBVIOUS
<1> QED BY <1>3, <1>4

\* ... or nothing.
LEMMA SelectedNone ==
  ASSUME NEW T, NEW q \in Seq(T), NEW S, \A i \in 1..Len(q) : q[i] \notin S
  PROVE  Selected(q, S) = <<>>
<1>1. PICK f \in [0..Len(q) -> Seq(T)] : Picks(f, q, S) /\ Selected(q, S) = f[Len(q)]
  BY SelectedPicks
<1> DEFINE n == Len(q)
           Still == {i \in 0..n : f[i] = <<>>}
<1>2. 0 \in Still
  BY <1>1 DEF Picks
<1>3. \A i \in 1..n : i - 1 \in Still => i \in Still
  BY <1>1 DEF Picks
<1>4. n \in Nat /\ n \in 0..n
  OBVIOUS
<1> HIDE DEF Still, n
<1>5. \A i \in 0..n : i \in Still
  BY <1>2, <1>3, <1>4, InductionUpTo
<1> QED BY <1>1, <1>4, <1>5 DEF Still, n

\* Where in the first n elements of q those of a selection p are.
Embeds(e, p, q, n, S) ==
  /\ e \in [1..Len(p) -> 1..n]
  /\ \A k \in 1..Len(p) : p[k] = q[e[k]] /\ p[k] \in S
  /\ \A j, k \in 1..Len(p) : j < k => e[j] < e[k]

\* A selection has elements of the sequence, of the set, and in their order.
LEMMA SelectedEmbeds ==
  ASSUME NEW T, NEW q \in Seq(T), NEW S
  PROVE  /\ Selected(q, S) \in Seq(T)
         /\ \E e : Embeds(e, Selected(q, S), q, Len(q), S)
<1>1. PICK f \in [0..Len(q) -> Seq(T)] : Picks(f, q, S) /\ Selected(q, S) = f[Len(q)]
  BY SelectedPicks
<1> DEFINE n == Len(q)
           Good == {i \in 0..n : \E e : Embeds(e, f[i], q, i, S)}
<1>2. n \in Nat /\ n \in 0..n
  OBVIOUS
<1>3. 0 \in Good
  <2> DEFINE e == [k \in 1..0 |-> 0]
  <2>1. f[0] = <<>> /\ Len(f[0]) = 0
    BY <1>1 DEF Picks
  <2>2. e \in [1..0 -> 1..0]
    OBVIOUS
  <2> HIDE DEF e
  <2>3. Embeds(e, f[0], q, 0, S)
    BY <2>1, <2>2 DEF Embeds
  <2> QED BY <1>2, <2>3
<1>4. ASSUME NEW i \in 1..n, i - 1 \in Good
      PROVE  i \in Good
  <2>1. PICK e : Embeds(e, f[i - 1], q, i - 1, S)
    BY <1>4
  <2> DEFINE old == f[i - 1]
             m   == Len(old)
  <2>2. old \in Seq(T) /\ m \in Nat
    <3>1. i - 1 \in 0..n
      OBVIOUS
    <3> QED BY <3>1
  <2>3. f[i] = IF q[i] \in S THEN Append(old, q[i]) ELSE old
    BY <1>1 DEF Picks
  <2> HIDE DEF old
  <2>4. /\ e \in [1..m -> 1..(i - 1)]
        /\ \A k \in 1..m : old[k] = q[e[k]] /\ old[k] \in S
        /\ \A j, k \in 1..m : j < k => e[j] < e[k]
    BY <2>1 DEF Embeds, old
  <2>5. CASE q[i] \notin S
    <3>1. f[i] = old
      BY <2>3, <2>5
    <3>2. e \in [1..m -> 1..i]
      <4>1. 1..(i - 1) \subseteq 1..i
        OBVIOUS
      <4> QED BY <2>4, <4>1
    <3>3. Embeds(e, f[i], q, i, S)
      BY <2>4, <3>1, <3>2 DEF Embeds
    <3> QED BY <3>3
  <2>6. CASE q[i] \in S
    <3> DEFINE d == [k \in 1..(m + 1) |-> IF k = m + 1 THEN i ELSE e[k]]
    <3>1. f[i] = Append(old, q[i])
      BY <2>3, <2>6
    <3>2. /\ Len(f[i]) = m + 1
          /\ f[i][m + 1] = q[i]
          /\ \A k \in 1..m : f[i][k] = old[k]
      <4>1. q[i] \in T
        OBVIOUS
      <4> QED BY <2>2, <3>1, <4>1
    <3>3. \A k \in 1..m : k \in 1..(m + 1) /\ k # m + 1 /\ e[k] \in 1..(i - 1)
      BY <2>2, <2>4
    <3>4. \A k \in 1..(m + 1) : k \in 1..m \/ k = m + 1
      BY <2>2
    <3>5. /\ d \in [1..(m + 1) -> 1..i]
          /\ d[m + 1] = i
          /\ \A k \in 1..m : d[k] = e[k]
      <4>1. m + 1 \in 1..(m + 1)
        BY <2>2
      <4>2. i \in 1..i /\ 1..(i - 1) \subseteq 1..i
        OBVIOUS
      <4> QED BY <3>3, <3>4, <4>1, <4>2
    <3> HIDE DEF d, m
    <3>6. \A k \in 1..(m + 1) : f[i][k] = q[d[k]] /\ f[i][k] \in S
      BY <2>4, <2>6, <3>2, <3>4, <3>5
    <3>7. ASSUME NEW j \in 1..(m + 1), NEW k \in 1..(m + 1), j < k
          PROVE  d[j] < d[k]
      <4>1. j \in 1..m
        BY <2>2, <3>7
      <4>2. CASE k = m + 1
        BY <3>3, <3>5, <4>1, <4>2
      <4>3. CASE k \in 1..m
        BY <2>4, <3>5, <3>7, <4>1, <4>3
      <4> QED BY <3>4, <4>2, <4>3
    <3>8. Embeds(d, f[i], q, i, S)
      BY <3>2, <3>5, <3>6, <3>7 DEF Embeds
    <3> QED BY <3>8
  <2> QED BY <2>5, <2>6
<1> HIDE DEF Good
<1>5. \A i \in 0..n : i \in Good
  BY <1>2, <1>3, <1>4, InductionUpTo
<1>6. Selected(q, S) \in Seq(T)
  BY <1>1, <1>2
<1> QED BY <1>1, <1>2, <1>5, <1>6 DEF Good

-----------------------------------------------------------------------------
(* Maps whose keys are in S and whose values are in T.                      *)

Maps(S, T) == UNION {[D -> T] : D \in SUBSET S}

\* arp_cache_[ip] = ..., as the code writes to its maps.
LEMMA PutInMap ==
  ASSUME NEW S, NEW T, NEW f \in Maps(S, T), NEW x \in S, NEW v \in T
  PROVE  Put(f, x, v) \in Maps(S, T)
<1>1. PICK D \in SUBSET S : f \in [D -> T]
  BY DEF Maps
<1>2. Put(f, x, v) \in [D \union {x} -> T]
  BY <1>1 DEF Put
<1>3. D \union {x} \in SUBSET S
  OBVIOUS
<1> QED BY <1>2, <1>3, Zenon DEF Maps

\* arp_timer_.erase(ip), as the code erases from its maps.
LEMMA DropFromMap ==
  ASSUME NEW S, NEW T, NEW f \in Maps(S, T), NEW x
  PROVE  Restrict(f, DOMAIN f \ {x}) \in Maps(S, T)
<1>1. PICK D \in SUBSET S : f \in [D -> T]
  BY DEF Maps
<1>2. Restrict(f, DOMAIN f \ {x}) \in [D \ {x} -> T]
  BY <1>1 DEF Restrict
<1>3. D \ {x} \in SUBSET S
  OBVIOUS
<1> QED BY <1>2, <1>3, Zenon DEF Maps

\* What a map has under its keys.
LEMMA MapValue ==
  ASSUME NEW S, NEW T, NEW f \in Maps(S, T)
  PROVE  /\ DOMAIN f \in SUBSET S
         /\ \A x \in DOMAIN f : f[x] \in T
BY DEF Maps
=============================================================================
