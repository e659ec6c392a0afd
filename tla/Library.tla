------------------------------- MODULE Library -------------------------------
(***************************************************************************)
(* The two entry points of lib.rs that consume the paths of a function:    *)
(* `find_zero_of_func` and `get_possible_return_values_of_func`.  Both add *)
(* constraints to the state that the last path left behind, and go on with *)
(* the next one.  A third consumer does anything that `mut_state()` and    *)
(* `next()` allow.                                                         *)
(*                                                                         *)
(* The function under analysis takes each input to an outcome; how its     *)
(* paths divide the inputs is up to the program.  Arguments that are given *)
(* to get_possible_return_values_of_func are not among the inputs.         *)
(***************************************************************************)
EXTENDS PathExploration

CONSTANTS Functions,  \* the functions analysed, from inputs to outcomes
          NonNull,    \* the inputs in which no pointer is null
          Consumers   \* the consumers, with their parameters

ASSUME InputsAssumption == IsFiniteSet(Inputs)
ASSUME NonNullAssumption == NonNull \subseteq Inputs

VARIABLES func,        \* the function under analysis
          consumer,    \* who consumes its paths
          pc,          \* where the consumer stands
          result,      \* what `next()` answered last
          candidates,  \* `candidate_values`
          answer,      \* the consumer's answer
          phantoms     \* history: the candidates found on a path that no input takes

lib_vars == <<func, consumer, pc, result, candidates, answer, phantoms>>

\* An outcome is a record [kind, val]; Abort, errors and exceeded loop bounds
\* have no value of interest.
Return(v) == [kind |-> "return", val |-> v]
Throw(v)  == [kind |-> "throw", val |-> v]
Abort     == [kind |-> "abort", val |-> 0]
LoopBound == [kind |-> "loopbound", val |-> 0]
Error     == [kind |-> "error", val |-> 0]

ASSUME FunctionsAssumption ==
    \A f \in Functions, i \in Inputs :
        f[i] \in {Return(f[i].val), Throw(f[i].val), Abort, LoopBound, Error}

ASSUME ConsumersAssumption == \A c \in Consumers : c.kind = "values" => c.n \in Nat

NoAnswer == [kind |-> "pending"]
Pointer  == 1000  \* where thrown objects are

ValuesIn(outcomes, kind) == {o.val : o \in {x \in outcomes : x.kind = kind}}

LibInit ==
    /\ Init
    /\ func \in Functions
    /\ consumer \in Consumers
    /\ pc = "init"
    /\ result = NoAnswer
    /\ candidates = {}
    /\ answer = NoAnswer
    /\ phantoms = {}

\* Before the first path: find_zero_of_func takes pointers not to be null.
Prepare ==
    /\ pc = "init" /\ consumer.kind # "any"
    /\ \/ consumer.kind = "find_zero" /\ Assume(NonNull)
       \/ consumer.kind = "values" /\ UNCHANGED vars
    /\ pc' = "calling"
    /\ UNCHANGED <<func, consumer, result, candidates, answer, phantoms>>

\* Inside `next()`.  (The log of the path, which these consumers do not look
\* at, is left out.)
Explore ==
    /\ pc = "calling"
    /\ \/ Start
       \/ \E c \in SUBSET Inputs : (mode = "running" /\ Assume(c)) \/ CondBr(c)
       \/ \E cs \in Switches : Switch(cs)
       \/ Backtrack
    /\ UNCHANGED lib_vars

\* `next()` answers with the outcome that the inputs on the path lead to.  Its
\* value is a constant if the program computes it from none of the inputs.
Answers(o, const) ==
    /\ pc = "calling"
    /\ \A i \in Top(solver) : func[i].kind = o.kind /\ (const => func[i].val = o.val)
    /\ Yield
    /\ result' = [kind |-> o.kind, val |-> o.val, const |-> const, possible |-> Sat(solver)]
    /\ pc' = "deciding"
    /\ UNCHANGED <<func, consumer, candidates, answer, phantoms>>

GoOn == pc' = "calling" /\ UNCHANGED answer

Stop(a) == pc' = "over" /\ answer' = a
-----------------------------------------------------------------------------
\* Mutant: only the first path that returns is looked at.
FindZeroOnFirst ==
    LET zeros == {i \in Inputs : func[i] = Return(0)}
    IN  /\ result.kind = "return"
        /\ AssertFinal(zeros)
        /\ \/ \E i \in Top(solver') : Stop([kind |-> "some", input |-> i])
           \/ ~Sat(solver') /\ Stop([kind |-> "none"])

\* A path that returns: are there inputs for which it returns zero?  (The
\* values of the parameters are asked for one at a time, of a solver that
\* finds the same solution each time.)  Any of these queries may fail.
FindZeroOnReturn ==
    LET zeros == {i \in Inputs : func[i] = Return(0)}
    IN  /\ result.kind = "return"
        /\ AssertFinal(zeros)
        /\ \/ \E i \in Top(solver') : Stop([kind |-> "some", input |-> i])
           \/ ~Sat(solver') /\ GoOn
           \/ Stop([kind |-> "error"])

\* The body of the loop of find_zero_of_func.
FindZero ==
    /\ pc = "deciding" /\ consumer.kind = "find_zero"
    /\ \/ FindZeroOnReturn
       \/ result.kind \in {"throw", "abort", "loopbound"} /\ UNCHANGED vars /\ GoOn
       \/ result.kind = "error" /\ UNCHANGED vars /\ Stop([kind |-> "error"])
    /\ UNCHANGED <<func, consumer, result, candidates, phantoms>>
-----------------------------------------------------------------------------
\* The answer of get_possible_return_values_of_func.
PossibleReturnValues(cands) ==
    [kind |-> IF Cardinality(cands) > consumer.n THEN "atleast" ELSE "exactly"]

\* New candidates; the loop ends as soon as there are more than n.
Extend(new) ==
    /\ candidates' = candidates \cup new
    /\ phantoms' = IF result.possible THEN phantoms ELSE phantoms \cup new
    /\ IF Cardinality(candidates') > consumer.n THEN Stop(PossibleReturnValues(candidates')) ELSE GoOn

\* Mutant: values that were thrown are ruled out as values that are returned.
RuledOutAny(kind) == {o.val : o \in candidates}

\* The values of that kind that are known already.
RuledOut(kind) == ValuesIn(candidates, kind)

\* `get_possible_solutions_for_bv` for the value of the path, under the current
\* constraints: all the solutions, or n + 1 of them.  A constant is its own
\* solution, whatever the constraints are, unless n is 0.
PossibleSolutions(s) ==
    LET sols == {func[i].val : i \in Top(s)}
    IN  IF result.const /\ consumer.n > 0 THEN {{result.val}}
        ELSE IF Cardinality(sols) <= consumer.n THEN {sols}
        ELSE {S \in SUBSET sols : Cardinality(S) = consumer.n + 1}

\* New values of a kind.  The process ends if the solver, when it is asked at
\* all, fails.
NewValues ==
    /\ AssertFinal({i \in Inputs : i \in Top(solver) => func[i].val \notin RuledOut(result.kind)})
    /\ \/ \E sols \in PossibleSolutions(solver') :
             Extend({[kind |-> result.kind, val |-> v] : v \in sols})
       \/ /\ ~(result.const /\ consumer.n > 0)
          /\ UNCHANGED <<candidates, phantoms>> /\ Stop([kind |-> "panic"])

\* A path that throws.  The values thrown before are compared as bitvectors of
\* the width of the return type: with another width the process ends there, as
\* it does when what was thrown cannot be read.
ThrowValues ==
    /\ result.kind = "throw"
    /\ \/ /\ consumer.thrown_size = "none"
          /\ UNCHANGED vars
          /\ Extend(IF ValuesIn(candidates, "throw") = {} THEN {Throw(Pointer)} ELSE {})
       \/ /\ consumer.thrown_size = "return width" \/ ValuesIn(candidates, "throw") = {}
          /\ consumer.thrown_size # "none"
          /\ NewValues
       \/ /\ consumer.thrown_size # "none"
          /\ UNCHANGED <<vars, candidates, phantoms>> /\ Stop([kind |-> "panic"])

\* The body of the loop of get_possible_return_values_of_func.
Values ==
    /\ pc = "deciding" /\ consumer.kind = "values"
    /\ \/ result.kind = "return" /\ NewValues
       \/ ThrowValues
       \/ result.kind = "abort" /\ UNCHANGED vars /\ Extend({Abort})
       \/ /\ result.kind \in {"loopbound", "error"}
          /\ UNCHANGED <<vars, candidates, phantoms>> /\ Stop([kind |-> "panic"])
    /\ UNCHANGED <<func, consumer, result>>

\* `next()` answers None: the loop is over.
NoMorePaths ==
    /\ pc = "calling"
    /\ Exhaust
    /\ Stop(IF consumer.kind = "values" THEN PossibleReturnValues(candidates) ELSE [kind |-> "none"])
    /\ UNCHANGED <<func, consumer, result, candidates, phantoms>>

Over == pc = "over" /\ UNCHANGED <<vars, lib_vars>>

LibNext ==
    \/ Prepare
    \/ Explore
    \/ \E o \in {func[i] : i \in Inputs}, const \in BOOLEAN : Answers(o, const)
    \/ FindZero
    \/ Values
    \/ NoMorePaths
    \/ Over
    \/ consumer.kind = "any" /\ Next /\ UNCHANGED lib_vars

LibSpec == LibInit /\ [][LibNext]_<<vars, lib_vars>>
-----------------------------------------------------------------------------
\* What the function does with the inputs that no assumption has excluded.
Possible == {func[i] : i \in Inputs \ excluded}

\* The inputs that find_zero_of_func reports do make the function return zero,
\* and are neither null nor excluded; if it reports none, there are none.
ZeroRight ==
    /\ answer.kind = "some" =>
          answer.input \in NonNull \ excluded /\ func[answer.input] = Return(0)
    /\ answer.kind = "none" => Return(0) \notin Possible

\* What get_possible_return_values_of_func reports is what the function may do,
\* except for what it found on paths that no input takes: all of it for
\* Exactly, and more than n values for AtLeast.  Of the values thrown, one is
\* reported if their size is not given.
ValuesRight ==
    answer.kind \in {"exactly", "atleast"} =>
        LET shown == candidates \ phantoms
            meant == IF consumer.thrown_size # "none" THEN Possible
                     ELSE {IF o.kind = "throw" THEN Throw(Pointer) ELSE o : o \in Possible}
        IN  /\ shown \subseteq meant
            /\ answer.kind = "exactly" => meant \subseteq candidates
            /\ answer.kind = "atleast" <=> Cardinality(candidates) > consumer.n
=============================================================================
