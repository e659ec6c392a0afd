----------------------------- MODULE Arithmetic -----------------------------
(***************************************************************************)
(* Arithmetic of bitvectors.  A bitvector of width w is a number below     *)
(* 2*h, where h is 2^(w-1), the smallest value whose sign bit is set.      *)
(***************************************************************************)
EXTENDS Integers

Signed(h, a) == IF a < h THEN a ELSE a - 2 * h
Wrap(h, n) == n % (2 * h)

\* The operations of Boolector, with their overflow predicates.
Plus(h, a, b)  == Wrap(h, a + b)
Minus(h, a, b) == Wrap(h, a - b)
Times(h, a, b) == Wrap(h, a * b)
Neg(h, a)      == Wrap(h, -a)

UAddO(h, a, b) == a + b >= 2 * h
USubO(h, a, b) == a < b
UMulO(h, a, b) == a * b >= 2 * h

Fits(h, n) == -h <= n /\ n < h
SAddO(h, a, b) == ~Fits(h, Signed(h, a) + Signed(h, b))
SSubO(h, a, b) == ~Fits(h, Signed(h, a) - Signed(h, b))
SMulO(h, a, b) == ~Fits(h, Signed(h, a) * Signed(h, b))

UAddS(h, a, b) == IF UAddO(h, a, b) THEN 2 * h - 1 ELSE Plus(h, a, b)
USubS(h, a, b) == IF USubO(h, a, b) THEN 0 ELSE Minus(h, a, b)
SAddS(h, a, b) ==
    IF SAddO(h, a, b) THEN IF a >= h THEN h ELSE h - 1 ELSE Plus(h, a, b)
SSubS(h, a, b) == SAddS(h, a, Neg(h, b))

Clamp(low, high, n) == IF n < low THEN low ELSE IF n > high THEN high ELSE n
=============================================================================
