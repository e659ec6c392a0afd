------------------------------- MODULE Solver -------------------------------
(***************************************************************************)
(* The incremental solver as the engine uses it.                           *)
(*                                                                         *)
(* A constraint is the set of inputs (valuations of the symbolic           *)
(* variables) that satisfy it.  The solver is a stack of assertion levels; *)
(* level k holds the inputs that satisfy everything asserted at levels     *)
(* 1..k, so the last element is what `sat()` looks at.  Boolector itself   *)
(* is external: this module is what backend.rs promises of it, plus the    *)
(* queries that solver_utils.rs builds from push, assert, sat and pop.     *)
(***************************************************************************)
EXTENDS Integers, Sequences

\* The inputs that satisfy all current constraints.
Top(s) == s[Len(s)]

\* `push(1)`: a new level, under the same constraints.
Push(s) == Append(s, Top(s))

\* Mutants: a pop that keeps the level, an assertion that is lost.
PopKeepingLevel(s) == s
AssertLost(s, c) == s

\* `pop(1)`: forget the last level and what was asserted in it.
Pop(s) == SubSeq(s, 1, Len(s) - 1)

\* `bv.assert()`: constrain the last level.
AssertIn(s, c) == [s EXCEPT ![Len(s)] = @ \cap c]

\* `sat()`.
Sat(s) == Top(s) # {}

\* `sat_with_extra_constraints`: push, assert, sat, pop.
SatWithExtraConstraint(s, c) == Sat(AssertIn(Push(s), c))

=============================================================================
