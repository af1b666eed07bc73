------------------------------- MODULE Basics -------------------------------
(* Selections, powers of two and maps, in a form that the provers can work  *)
(* with: they know nothing of SelectSeq, of ^, and of the operators of TLC  *)
(* for maps.                                                                *)
EXTENDS Naturals, Sequences

\* The elements of a sequence that are in a set, in their order.
Selected(q, S) ==
  LET picked[i \in 0..Len(q)] ==
        IF i = 0 THEN <<>>
        ELSE IF q[i] \in S THEN Append(picked[i - 1], q[i])
        ELSE picked[i - 1]
  IN  picked[Len(q)]

Power2(n) ==
  LET power[i \in 0..n] == IF i = 0 THEN 1 ELSE 2 * power[i - 1]
  IN  power[n]

\* map[key] = value, as the code writes to its maps.
Put(map, key, value) ==
  [k \in DOMAIN map \union {key} |-> IF k = key THEN value ELSE map[k]]
=============================================================================
