---------------------------- MODULE SolverUtils ----------------------------
(***************************************************************************)
(* The queries of solver_utils.rs, made from push, assert, sat and pop.    *)
(*                                                                         *)
(* A bitvector is a record with its width, val (its value under each       *)
(* input) and const (whether it is a constant expression).  A query works  *)
(* on a record q: s is the solver, left the number of calls of sat() that  *)
(* succeed before one answers Unknown, err the error if there is one, ans  *)
(* the last answer.  An error is returned at once, with the solver as it   *)
(* is then.                                                                *)
(***************************************************************************)
EXTENDS Solver, SequencesExt

CONSTANT WORD   \* the width of a u64: 64 in the code

NoSolution == -1

NoError   == "none"
Failed(q) == q.err # NoError

Pow2(n) == 2 ^ n

\* The inputs for which the value of bv satisfies P.
Where(bv, P(_)) == {i \in DOMAIN bv.val : P(bv.val[i])}

Values(bv, inputs) == {bv.val[i] : i \in inputs}

\* `sat()`, which may fail.
AskSat(q) ==
    IF q.left = 0 THEN [q EXCEPT !.err = "solver"]
    ELSE [q EXCEPT !.left = @ - 1, !.ans = Sat(q.s)]

\* Mutant: the level stays if the call fails.
AskSatWithUnpopped(q, c) ==
    LET r == AskSat([q EXCEPT !.s = AssertIn(Push(@), c)])
    IN  IF Failed(r) THEN r ELSE [r EXCEPT !.s = Pop(@)]

\* `sat_with_extra_constraints` pops its level whether the call fails or not.
AskSatWith(q, c) ==
    LET r == AskSat([q EXCEPT !.s = AssertIn(Push(@), c)])
    IN  [r EXCEPT !.s = Pop(@)]

BvsCanBeEqual(q, bv, n) == AskSatWith(q, Where(bv, LAMBDA v : v = n))

BvsMustBeEqual(q, bv, n) ==
    LET r == AskSatWith(q, Where(bv, LAMBDA v : v # n))
    IN  IF Failed(r) THEN r ELSE [r EXCEPT !.ans = ~@]
-----------------------------------------------------------------------------
\* The probe of the binary searches, biased to the small end.
Mid(min, max) ==
    LET mid == (min + max) \div 2
    IN  IF mid \div 2 > min THEN mid \div 2 ELSE mid

\* A probe that does not succeed is undone.
UndoProbe(q) == [q EXCEPT !.s = Pop(@)]

PopTimes(s, n) == SubSeq(s, 1, Len(s) - n)

\* The loop of max_possible_solution_for_bv_as_u64: min is possible, max is not.
RECURSIVE MaxSearch(_, _, _, _, _)
MaxSearch(q, bv, min, max, pushes) ==
    IF max - min <= 1 THEN [q EXCEPT !.s = PopTimes(@, pushes), !.ans = min]
    ELSE LET mid == Mid(min, max)
             r   == AskSat([q EXCEPT !.s = AssertIn(Push(@), Where(bv, LAMBDA v : v >= mid))])
         IN  IF Failed(r) THEN r
             ELSE IF r.ans THEN MaxSearch(r, bv, mid, max, pushes + 1)
             ELSE MaxSearch(UndoProbe(r), bv, min, mid, pushes)

\* The loop of min_possible_solution_for_bv_as_u64: max is possible, min is not.
RECURSIVE MinSearch(_, _, _, _, _)
MinSearch(q, bv, min, max, pushes) ==
    IF max - min <= 1 THEN [q EXCEPT !.s = PopTimes(@, pushes), !.ans = max]
    ELSE LET mid == Mid(min, max)
             r   == AskSat([q EXCEPT !.s = AssertIn(Push(@), Where(bv, LAMBDA v : v <= mid))])
         IN  IF Failed(r) THEN r
             ELSE IF r.ans THEN MinSearch(r, bv, min, mid, pushes + 1)
             ELSE MinSearch(UndoProbe(r), bv, mid, max, pushes)

\* The shortcuts leave the question to the search.
Undecided == -2

\* What both functions do first: no solution, a constant, a likely answer.
Shortcuts(q, bv, likely) ==
    LET sat == AskSat(q)
        eq  == BvsCanBeEqual(sat, bv, likely)
    IN  IF Failed(sat) THEN sat
        ELSE IF ~sat.ans THEN [sat EXCEPT !.ans = NoSolution]
        ELSE IF bv.const THEN [sat EXCEPT !.ans = bv.val[CHOOSE i \in DOMAIN bv.val : TRUE]]
        ELSE IF Failed(eq) THEN eq
        ELSE [eq EXCEPT !.ans = IF @ THEN likely ELSE Undecided]

MaxPossibleSolution(q, bv) ==
    LET ones == Pow2(bv.width) - 1
        r    == Shortcuts(q, bv, ones)
    IN  IF ~Failed(r) /\ r.ans = Undecided THEN MaxSearch(r, bv, 0, ones, 0) ELSE r

MinPossibleSolution(q, bv) ==
    LET ones == Pow2(bv.width) - 1
        r    == Shortcuts(q, bv, 0)
    IN  IF ~Failed(r) /\ r.ans = Undecided THEN MinSearch(r, bv, 0, ones, 0) ELSE r
-----------------------------------------------------------------------------
\* The most significant WORD bits of bv, and the others.
HighBits(bv) == [bv EXCEPT !.width = WORD, !.val = [i \in DOMAIN @ |-> @[i] \div Pow2(bv.width - WORD)]]
LowBits(bv)  == [bv EXCEPT !.width = @ - WORD, !.val = [i \in DOMAIN @ |-> @[i] % Pow2(bv.width - WORD)]]

\* The search for the largest or the smallest value.
Extreme(which, q, bv) == IF which = "max" THEN MaxPossibleSolution(q, bv) ELSE MinPossibleSolution(q, bv)

\* Mutant: the word is not fixed.
WordNotFixed(q, bv, n) == q

\* Constrain the first word to be n.
FixWord(q, bv, n) == [q EXCEPT !.s = AssertIn(@, Where(HighBits(bv), LAMBDA v : v = n))]

\* The loops of the functions for bitvectors of any width: word by word from
\* the most significant one, each fixed before the next is asked for.  The
\* answer is the number that the string of digits stands for.
RECURSIVE Words(_, _, _, _)
Words(which, q, bv, sofar) ==
    LET high == Extreme(which, q, HighBits(bv))
        last == Extreme(which, q, bv)
    IN  IF bv.width <= WORD
        THEN IF Failed(last) \/ last.ans = NoSolution THEN last
             ELSE [last EXCEPT !.ans = sofar * Pow2(bv.width) + @]
        ELSE IF Failed(high) \/ high.ans = NoSolution THEN high
        ELSE Words(which, FixWord(high, bv, high.ans), LowBits(bv), sofar * Pow2(WORD) + high.ans)

\* The level that is pushed here stays if there is no solution.
MaxPossibleSolutionAsBinaryStr(q, bv) ==
    LET r == Words("max", [q EXCEPT !.s = Push(@)], bv, 0)
    IN  IF Failed(r) \/ r.ans = NoSolution THEN r ELSE [r EXCEPT !.s = Pop(@)]

\* No level is pushed here: the words stay fixed.
MinPossibleSolutionAsBinaryStr(q, bv) == Words("min", q, bv, 0)
-----------------------------------------------------------------------------
Exactly(sols) == [kind |-> "Exactly", set |-> sols]
AtLeast(sols) == [kind |-> "AtLeast", set |-> sols]

\* The values that check_for_common_solutions tries, for a width.
CommonValues(width) ==
    <<0, 1>> \o (IF width > 1 THEN <<Pow2(width) - 1>> ELSE <<>>)
             \o [k \in 1..(IF width <= 13 THEN width - 1 ELSE 12) |-> Pow2(k)]

\* Here ans is the set of the solutions found.
CheckForCommonSolutions(q, bv, n) ==
    FoldLeft(LAMBDA r, v :
            LET eq == BvsCanBeEqual(r, bv, v)
            IN  IF Failed(r) \/ Cardinality(r.ans) > n THEN r
                ELSE IF Failed(eq) THEN eq
                ELSE [eq EXCEPT !.ans = IF eq.ans THEN r.ans \cup {v} ELSE r.ans],
        [q EXCEPT !.ans = {}], CommonValues(bv.width))

\* The loop that asks for further solutions; the solver gives any of them.  The
\* result is the set of the possible outcomes.
RECURSIVE FurtherSolutions(_, _, _, _)
FurtherSolutions(q, bv, n, sols) ==
    LET r == AskSat(q)
    IN  IF Cardinality(sols) > n THEN {[q EXCEPT !.s = Pop(@), !.ans = AtLeast(sols)]}
        ELSE IF Failed(r) THEN {r}
        ELSE IF ~r.ans THEN {[r EXCEPT !.s = Pop(@), !.ans = Exactly(sols)]}
        ELSE UNION {FurtherSolutions([r EXCEPT !.s = AssertIn(@, Where(bv, LAMBDA v : v # val))],
                                     bv, n, sols \cup {val}) : val \in Values(bv, Top(r.s))}

\* A level in which bv is none of the solutions that are known.
ExcludeSolutions(q, bv, sols) == [q EXCEPT !.s = AssertIn(Push(@), Where(bv, LAMBDA v : v \notin sols))]

\* `get_possible_solutions_for_bv`: the set of the possible outcomes.
GetPossibleSolutions(q, bv, n) ==
    LET sat    == AskSat(q)
        common == CheckForCommonSolutions(q, bv, n)
    IN  IF n = 0
        THEN IF Failed(sat) THEN {sat}
             ELSE IF ~sat.ans THEN {[sat EXCEPT !.ans = Exactly({})]}
             ELSE {[sat EXCEPT !.ans = AtLeast({v})] : v \in Values(bv, Top(q.s))}
        ELSE IF bv.const THEN {[q EXCEPT !.ans = Exactly(Values(bv, DOMAIN bv.val))]}
        ELSE IF Failed(common) THEN {common}
        ELSE IF Cardinality(common.ans) > n THEN {[common EXCEPT !.ans = AtLeast(@)]}
        ELSE FurtherSolutions(ExcludeSolutions(common, bv, common.ans), bv, n, common.ans)

\* `State::get_a_solution_for_bv`: the set of the possible outcomes.
GetASolution(q, bv) ==
    LET sat == AskSat(q)
    IN  IF bv.const THEN {[q EXCEPT !.ans = bv.val[CHOOSE i \in DOMAIN bv.val : TRUE]]}
        ELSE IF Failed(sat) THEN {sat}
        ELSE IF ~sat.ans THEN {[sat EXCEPT !.ans = NoSolution]}
        ELSE {[sat EXCEPT !.ans = v] : v \in Values(bv, Top(q.s))}
=============================================================================
