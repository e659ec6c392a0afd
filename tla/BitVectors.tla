----------------------------- MODULE BitVectors -----------------------------
(***************************************************************************)
(* The bitvector operations of Boolector that the memories are built from. *)
(* A bitvector is the sequence of its bits, the least significant first.   *)
(***************************************************************************)
EXTENDS Integers, Sequences, SequencesExt

Zeros(w) == [k \in 1..w |-> 0]
Ones(w)  == [k \in 1..w |-> 1]

Not(a)    == [k \in DOMAIN a |-> 1 - a[k]]
And(a, b) == [k \in DOMAIN a |-> a[k] * b[k]]
Or(a, b)  == [k \in DOMAIN a |-> IF a[k] + b[k] > 0 THEN 1 ELSE 0]

\* `uext(n)`: n zeros above the most significant bit.
Uext(a, n) == a \o Zeros(n)

\* `slice(high, low)`, both inclusive and counted from 0.
Slice(a, high, low) == SubSeq(a, low + 1, high + 1)

\* `a.concat(b)`: b is the less significant half.
ConcatBv(a, b) == b \o a

\* Logical shifts by n, keeping the width.
Srl(a, n) == [k \in DOMAIN a |-> IF k + n <= Len(a) THEN a[k + n] ELSE 0]
Sll(a, n) == [k \in DOMAIN a |-> IF k > n THEN a[k - n] ELSE 0]
=============================================================================
