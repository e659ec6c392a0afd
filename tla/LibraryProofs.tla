---------------------------- MODULE LibraryProofs ----------------------------
(***************************************************************************)
(* The consumers of lib.rs, for any function, any inputs and any way in    *)
(* which its paths divide them.  Whatever they assert between two calls of *)
(* `next()`, the exploration stays the one whose invariants are proved in  *)
(* PathExplorationProofs; and what find_zero_of_func answers is right.     *)
(***************************************************************************)
EXTENDS Library, PathExplorationProofs

\* Every step of a consumer is a step of the exploration, or none.
LEMMA LibStep ==
    ASSUME LibNext PROVE [Next]_vars
<1>1. CASE Prepare
  <2>1. CASE Assume(NonNull)
    <3>1. NonNull \in SUBSET Inputs BY NonNullAssumption, Zenon
    <3> QED BY <2>1, <3>1, Zenon DEF Next
  <2> QED BY <1>1, <2>1, Zenon DEF Prepare
<1>2. CASE Explore
  BY <1>2, Zenon DEF Explore, Next
<1>3. CASE \E o \in {func[i] : i \in Inputs}, const \in BOOLEAN : Answers(o, const)
  BY <1>3, Zenon DEF Answers, Next
<1>4. ASSUME NEW c \in SUBSET Inputs, AssertFinal(c) PROVE Next
  BY <1>4, Zenon DEF Next
<1>5. CASE FindZero
  <2>1. {i \in Inputs : func[i] = Return(0)} \in SUBSET Inputs BY Zenon
  <2> QED BY <1>4, <1>5, <2>1, Zenon DEF FindZero, FindZeroOnReturn
<1>6. CASE Values
  <2>1. CASE NewValues
    <3>1. {i \in Inputs : i \in Top(solver) => func[i].val \notin RuledOut(result.kind)} \in SUBSET Inputs
      BY Zenon
    <3> QED BY <1>4, <2>1, <3>1, Zenon DEF NewValues
  <2> QED BY <1>6, <2>1, Zenon DEF Values, ThrowValues
<1>7. CASE NoMorePaths
  BY <1>7, Zenon DEF NoMorePaths, Next
<1>8. CASE Over
  BY <1>8, Zenon DEF Over
<1> QED BY <1>1, <1>2, <1>3, <1>5, <1>6, <1>7, <1>8, Zenon DEF LibNext

\* The consumers only ever do what `next()` and `mut_state()` allow, so that
\* the exploration they drive is the one studied on its own: no assertion of
\* theirs survives into the next path.
THEOREM LibraryExplores == LibSpec => Spec
<1>1. LibInit => Init BY Zenon DEF LibInit
<1>2. [LibNext]_<<vars, lib_vars>> => [Next]_vars
  BY LibStep, Zenon DEF vars
<1> QED BY <1>1, <1>2, PTL DEF LibSpec, Spec

\* The bookkeeping of the exploration is right under every consumer.
THEOREM LibraryInvariance == LibSpec => []IInv
  BY LibraryExplores, Invariance, PTL
-----------------------------------------------------------------------------
IsZero(i) == func[i] = Return(0)

\* Along find_zero_of_func: no input that returns zero has gone by, other than
\* on the path that is being decided.
ZInv ==
    /\ consumer.kind \notin {"find_zero", "values"} => pc = "init"
    /\ pc \in {"init", "calling", "deciding"} => answer = NoAnswer
    /\ pc \in {"init", "calling", "deciding", "over"}
    /\ consumer.kind # "find_zero" => answer.kind \notin {"some", "none"}
    /\ consumer.kind = "find_zero" =>
          /\ pc = "init" => yielded = {} /\ solver = <<Inputs>>
          /\ pc # "init" => Inputs \ NonNull \subseteq excluded
          /\ pc = "calling" => \A i \in yielded : ~IsZero(i)
          /\ pc = "deciding" => /\ Top(solver) \subseteq yielded
                                /\ \A i \in Top(solver) : func[i].kind = result.kind
                                /\ \A i \in yielded \ Top(solver) : ~IsZero(i)
    /\ pc = "over" => ZeroRight

\* Deciding a path that returns.
LEMMA ZeroOnReturnKeeps ==
    ASSUME IInv, ZInv, pc = "deciding", consumer.kind = "find_zero", FindZeroOnReturn,
           UNCHANGED <<func, consumer, result>>
    PROVE  ZInv'
<1> DEFINE zeros == {i \in Inputs : func[i] = Return(0)}
<1>1. /\ AssertFinal(zeros)
      /\ \/ \E i \in Top(solver') : Stop([kind |-> "some", input |-> i])
         \/ ~Sat(solver') /\ GoOn
         \/ Stop([kind |-> "error"])
  BY Zenon DEF FindZeroOnReturn
<1>2. /\ solver' = AssertIn(solver, zeros)
      /\ excluded' = excluded /\ yielded' = yielded
      /\ UNCHANGED <<backtrack_points, path, mode, yielded, saved>>
  BY <1>1, Zenon DEF AssertFinal
<1>3. /\ yielded \cap excluded = {} /\ yielded \subseteq Inputs /\ excluded \subseteq Inputs
      /\ Inputs \ NonNull \subseteq excluded
      /\ Top(solver) \subseteq yielded /\ \A i \in yielded \ Top(solver) : ~IsZero(i)
  BY Zenon DEF IInv, TypeOK, InputsAccountedFor, ZInv
<1>4. zeros \in SUBSET Inputs
  BY Zenon
<1>5. Top(solver') = Top(solver) \cap zeros
  BY <1>2, <1>3, <1>4, AssertInKeeps, Zenon
<1>6. \A i : IsZero(i)' = IsZero(i)
  BY Zenon DEF IsZero
<1>7. ASSUME NEW i \in Top(solver'), Stop([kind |-> "some", input |-> i])
      PROVE  ZInv'
  <2>1. pc' = "over" /\ answer' = [kind |-> "some", input |-> i]
    BY <1>7, Zenon DEF Stop
  <2>2. i \in Inputs /\ i \in yielded /\ func[i] = Return(0)
    BY <1>5, <1>3, <1>7, Zenon
  <2>3. i \in NonNull /\ i \notin excluded
    BY <1>3, <2>2, Zenon
  <2>4. answer'.kind = "some" /\ answer'.input = i
    BY <2>1, Zenon
  <2>5. ZeroRight'
    BY <1>2, <2>2, <2>3, <2>4, Zenon DEF ZeroRight, Return
  <2> QED BY <1>2, <1>3, <2>1, <2>5, Zenon DEF ZInv
<1>8. CASE ~Sat(solver') /\ GoOn
  <2>1. pc' = "calling" /\ answer' = answer
    BY <1>8, Zenon DEF GoOn
  <2>2. \A i \in yielded : ~IsZero(i)
    BY <1>3, <1>5, <1>8, Zenon DEF IsZero, Sat
  <2>3. answer = NoAnswer
    BY Zenon DEF ZInv
  <2> QED BY <1>2, <1>3, <1>6, <2>1, <2>2, <2>3, Zenon DEF ZInv
<1>9. CASE Stop([kind |-> "error"])
  <2>1. pc' = "over" /\ answer' = [kind |-> "error"]
    BY <1>9, Zenon DEF Stop
  <2>2. answer'.kind = "error"
    BY <2>1, Zenon
  <2>3. ZeroRight'
    BY <2>2, Zenon DEF ZeroRight
  <2> QED BY <1>2, <1>3, <2>1, <2>3, Zenon DEF ZInv
<1> QED BY <1>1, <1>7, <1>8, <1>9, Zenon

\* Other steps of find_zero_of_func's loop.
LEMMA FindZeroKeeps ==
    ASSUME IInv, ZInv, FindZero PROVE ZInv'
<1>1. pc = "deciding" /\ consumer.kind = "find_zero" /\ UNCHANGED <<func, consumer, result>>
  BY Zenon DEF FindZero
<1>2. CASE FindZeroOnReturn
  BY <1>1, <1>2, ZeroOnReturnKeeps, Zenon
<1>3. CASE result.kind \in {"throw", "abort", "loopbound"} /\ UNCHANGED vars /\ GoOn
  <2>1. /\ pc' = "calling" /\ answer' = answer /\ yielded' = yielded /\ excluded' = excluded
    BY <1>3, Zenon DEF GoOn, vars
  <2>2. \A i \in Top(solver) : func[i].kind # "return"
    BY <1>1, <1>3, Zenon DEF ZInv
  <2>3. \A i \in yielded : ~IsZero(i)
    BY <1>1, <2>2, SMTT(30) DEF ZInv, IsZero, Return
  <2> QED BY <1>1, <2>1, <2>3, Zenon DEF ZInv, IsZero
<1>4. CASE result.kind = "error" /\ UNCHANGED vars /\ Stop([kind |-> "error"])
  <2>1. /\ pc' = "over" /\ answer' = [kind |-> "error"] /\ yielded' = yielded /\ excluded' = excluded
    BY <1>4, Zenon DEF Stop, vars
  <2>2. answer'.kind = "error"
    BY <2>1, Zenon
  <2>3. ZeroRight'
    BY <2>2, Zenon DEF ZeroRight
  <2> QED BY <1>1, <2>1, <2>3, Zenon DEF ZInv
<1> QED BY <1>2, <1>3, <1>4, Zenon DEF FindZero

\* The other consumer answers otherwise.
LEMMA ValuesKeeps ==
    ASSUME ZInv, Values PROVE ZInv'
<1>1. pc = "deciding" /\ consumer.kind = "values" /\ UNCHANGED <<func, consumer, result>>
  BY Zenon DEF Values
<1>2. ASSUME NEW cands, Stop(PossibleReturnValues(cands)) PROVE pc' = "over" /\ answer'.kind \notin {"some", "none"}
  BY <1>2, Zenon DEF Stop, PossibleReturnValues
<1>3. CASE Stop([kind |-> "panic"])
  <2>1. pc' = "over" /\ answer' = [kind |-> "panic"]
    BY <1>3, Zenon DEF Stop
  <2>2. answer'.kind = "panic"
    BY <2>1, Zenon
  <2> QED BY <1>1, <2>1, <2>2, Zenon DEF ZInv, ZeroRight
<1>4. ASSUME NEW new, Extend(new) PROVE ZInv'
  <2>1. CASE pc' = "over" /\ answer'.kind \notin {"some", "none"}
    BY <1>1, <2>1, Zenon DEF ZInv, ZeroRight
  <2>2. CASE GoOn
    <3>1. pc' = "calling" /\ answer' = answer
      BY <2>2, Zenon DEF GoOn
    <3> QED BY <1>1, <3>1, Zenon DEF ZInv
  <2> QED BY <1>2, <1>4, <2>1, <2>2, Zenon DEF Extend
<1> QED BY <1>3, <1>4, Zenon DEF Values, NewValues, ThrowValues

\* Exploring reports nothing, and excludes only more.
LEMMA ExploreKeeps ==
    ASSUME IInv, ZInv, Explore PROVE ZInv'
<1>1. pc = "calling" /\ UNCHANGED lib_vars
  BY Zenon DEF Explore
<1>2. yielded' = yielded /\ excluded \subseteq excluded'
  BY Zenon DEF Explore, Start, Assume, CondBr, Switch, Fork, Backtrack
<1>3. /\ pc' = pc /\ answer' = answer /\ consumer' = consumer /\ func' = func
  BY <1>1, Zenon DEF lib_vars
<1> QED BY <1>1, <1>2, <1>3, Zenon DEF ZInv, IsZero

\* A path is reported.
LEMMA AnswersKeeps ==
    ASSUME IInv, ZInv, NEW o, NEW const, Answers(o, const) PROVE ZInv'
<1>1. /\ pc = "calling" /\ pc' = "deciding"
      /\ UNCHANGED <<func, consumer, answer>>
      /\ result'.kind = o.kind
      /\ \A i \in Top(solver) : func[i].kind = o.kind
  BY Zenon DEF Answers
<1>2. yielded' = yielded \cup Top(solver) /\ excluded' = excluded /\ solver' = solver
  BY Zenon DEF Answers, Yield
<1>3. Top(solver') = Top(solver)
  BY <1>2, Zenon
<1> QED BY <1>1, <1>2, <1>3, Zenon DEF ZInv, IsZero

\* There are no more paths: nothing remains.
LEMMA NoMorePathsKeeps ==
    ASSUME IInv, ZInv, NoMorePaths PROVE ZInv'
<1>1. /\ pc = "calling" /\ pc' = "over" /\ UNCHANGED <<func, consumer>>
      /\ answer' = IF consumer.kind = "values" THEN PossibleReturnValues(candidates) ELSE [kind |-> "none"]
  BY Zenon DEF NoMorePaths, Stop
<1>2. yielded' = yielded /\ excluded' = excluded /\ Exhaust
  BY Zenon DEF NoMorePaths, Exhaust
<1>3. yielded \cup excluded = Inputs
  BY <1>2, ExhaustKeeps, Zenon DEF IInv, InputsAccountedFor
<1>4. CASE consumer.kind = "values"
  <2>1. answer'.kind \notin {"some", "none"}
    BY <1>1, <1>4, Zenon DEF PossibleReturnValues
  <2> QED BY <1>1, <1>4, <2>1, Zenon DEF ZInv, ZeroRight
<1>5. CASE consumer.kind = "find_zero"
  <2>1. answer'.kind = "none"
    BY <1>1, <1>5, Zenon
  <2>2. \A i \in Inputs \ excluded : func[i] # Return(0)
    BY <1>1, <1>3, <1>5, Zenon DEF ZInv, IsZero
  <2>3. Return(0) \notin Possible'
    BY <1>1, <1>2, <2>2, Zenon DEF Possible, Return
  <2>4. ZeroRight'
    BY <2>1, <2>3, Zenon DEF ZeroRight, Return
  <2> QED BY <1>1, <1>2, <1>5, <2>4, Zenon DEF ZInv
<1> QED BY <1>1, <1>4, <1>5, Zenon DEF ZInv

\* Before the first path, pointers are taken not to be null.
LEMMA PrepareKeeps ==
    ASSUME IInv, ZInv, Prepare PROVE ZInv'
<1>1. /\ pc = "init" /\ pc' = "calling" /\ UNCHANGED <<func, consumer, answer>>
      /\ consumer.kind \in {"find_zero", "values"}
  BY Zenon DEF Prepare
<1>2. CASE consumer.kind = "values"
  BY <1>1, <1>2, Zenon DEF ZInv
<1>3. CASE consumer.kind = "find_zero"
  <2>2. Assume(NonNull)
    BY <1>3, Zenon DEF Prepare
  <2>3. yielded' = yielded /\ yielded = {}
    BY <1>1, <1>3, <2>2, Zenon DEF ZInv, Assume
  <2>1. Inputs \ NonNull \subseteq excluded'
    <3>1. solver = <<Inputs>>
      BY <1>1, <1>3, Zenon DEF ZInv
    <3>2. Top(solver) = Inputs
      BY <3>1, Zenon DEF Top
    <3> QED BY <2>2, <3>2, Zenon DEF Assume
  <2> QED BY <1>1, <1>3, <2>3, <2>1, Zenon DEF ZInv
<1> QED BY <1>1, <1>2, <1>3, Zenon

\* A consumer of another kind.
LEMMA AnyKeeps ==
    ASSUME ZInv, consumer.kind = "any" \/ UNCHANGED vars, UNCHANGED lib_vars PROVE ZInv'
<1>1. pc' = pc /\ answer' = answer /\ consumer' = consumer /\ func' = func /\ result' = result
  BY Zenon DEF lib_vars
<1>2. CASE consumer.kind = "any"
  BY <1>1, <1>2, Zenon DEF ZInv
<1>3. CASE UNCHANGED vars
  <2>1. solver' = solver /\ yielded' = yielded /\ excluded' = excluded
    BY <1>3, Zenon DEF vars
  <2>2. ZeroRight' = ZeroRight
    BY <1>1, <2>1, Zenon DEF ZeroRight, Possible, Return
  <2>3. Top(solver') = Top(solver) /\ \A i : IsZero(i)' = IsZero(i)
    BY <1>1, <2>1, Zenon DEF IsZero
  <2> QED BY <1>1, <2>1, <2>2, <2>3, Zenon DEF ZInv
<1> QED BY <1>2, <1>3, Zenon

\* The inductive invariant of find_zero_of_func.
THEOREM ZeroInvariance == LibSpec => []ZInv
<1>1. LibInit => ZInv
  <2> SUFFICES ASSUME LibInit PROVE ZInv
    BY Zenon
  <2>1. pc = "init" /\ answer = NoAnswer /\ yielded = {} /\ solver = <<Inputs>>
    BY Zenon DEF LibInit, Init
  <2>2. answer.kind = "pending"
    BY <2>1, Zenon DEF NoAnswer
  <2> QED BY <2>1, <2>2, Zenon DEF ZInv
<1>2. IInv /\ ZInv /\ [LibNext]_<<vars, lib_vars>> => ZInv'
  <2> SUFFICES ASSUME IInv, ZInv, [LibNext]_<<vars, lib_vars>> PROVE ZInv'
    BY Zenon
  <2>1. CASE \E o \in {func[i] : i \in Inputs}, const \in BOOLEAN : Answers(o, const)
    BY <2>1, AnswersKeeps, Zenon
  <2>2. CASE Over \/ UNCHANGED <<vars, lib_vars>>
    BY <2>2, AnyKeeps, Zenon DEF Over
  <2>3. CASE consumer.kind = "any" /\ Next /\ UNCHANGED lib_vars
    BY <2>3, AnyKeeps, Zenon
  <2> QED
    BY <2>1, <2>2, <2>3, PrepareKeeps, ExploreKeeps, FindZeroKeeps, ValuesKeeps, NoMorePathsKeeps, Zenon DEF LibNext
<1> QED BY <1>1, <1>2, LibraryInvariance, PTL DEF LibSpec

\* What find_zero_of_func answers is right, in every case that it answers:
\* the inputs it finds lead to a return of zero, and if it finds none, none do.
THEOREM FindZeroIsRight == LibSpec => []ZeroRight
<1>1. ZInv => ZeroRight
  <2> SUFFICES ASSUME ZInv PROVE ZeroRight
    BY Zenon
  <2>1. CASE pc = "over"
    BY <2>1, Zenon DEF ZInv
  <2>2. CASE pc # "over"
    <3>1. answer = NoAnswer
      BY <2>2, Zenon DEF ZInv
    <3>2. answer.kind = "pending"
      BY <3>1, Zenon DEF NoAnswer
    <3> QED BY <3>2, Zenon DEF ZeroRight
  <2> QED BY <2>1, <2>2, Zenon
<1> QED BY <1>1, ZeroInvariance, PTL
-----------------------------------------------------------------------------
(* get_possible_return_values_of_func.  The counting needs facts about       *)
(* finite sets.                                                              *)

INSTANCE FiniteSetTheorems

\* How an outcome is shown: of the values thrown, one if their size is not given.
Shown(o) == IF consumer.thrown_size = "none" /\ o.kind = "throw" THEN Throw(Pointer) ELSE o

\* The outcomes of these inputs are among the candidates.
Covered(S) == \A i \in S : Shown(func[i]) \in candidates

\* Along get_possible_return_values_of_func: what was found is what the inputs
\* reported so far lead to, other than on the path that is being decided.
VInv ==
    /\ pc \in {"init", "calling", "deciding", "over"}
    /\ pc # "over" => answer = NoAnswer
    /\ pc = "over" => ValuesRight
    /\ consumer.kind # "values" => answer.kind \notin {"exactly", "atleast"}
    /\ consumer.kind = "values" =>
          /\ IsFiniteSet(candidates) /\ consumer.n \in Nat /\ func \in Functions
          /\ pc = "init" => yielded = {}
          /\ \A c \in candidates \ phantoms : \E i \in yielded : c = Shown(func[i])
          /\ \A c \in candidates : c = [kind |-> c.kind, val |-> c.val]
          /\ consumer.thrown_size = "none" => \A c \in candidates : c.kind = "throw" => c = Throw(Pointer)
          /\ pc = "calling" => Covered(yielded)
          /\ pc = "deciding" =>
                /\ Top(solver) \subseteq yielded /\ Covered(yielded \ Top(solver))
                /\ result.possible <=> Sat(solver)
                /\ \A i \in Top(solver) : func[i].kind = result.kind /\ (result.const => func[i].val = result.val)

\* An outcome is its kind and its value.
LEMMA OutcomeIs ==
    ASSUME NEW f \in Functions, NEW i \in Inputs
    PROVE  f[i] = [kind |-> f[i].kind, val |-> f[i].val] /\ (f[i].kind = "abort" => f[i] = Abort)
<1>1. f[i] \in {Return(f[i].val), Throw(f[i].val), Abort, LoopBound, Error}
  BY FunctionsAssumption, Zenon
<1> QED BY <1>1, SMTT(30) DEF Return, Throw, Abort, LoopBound, Error

\* The values to which f takes the inputs T, and the candidates that values S
\* of a kind make.
ValuesOf(f, T) == {f[i].val : i \in T}
Found(kind, S) == {[kind |-> kind, val |-> v] : v \in S}

\* The values found are finitely many, and so are the candidates they make.
LEMMA FiniteOutcomes ==
    ASSUME NEW T \in SUBSET Inputs, NEW f, NEW k, NEW S \in SUBSET ValuesOf(f, T)
    PROVE  IsFiniteSet(Found(k, S))
<1>1. IsFiniteSet(T)
  BY InputsAssumption, FS_Subset, Zenon
<1>2. IsFiniteSet(ValuesOf(f, T))
  <2> DEFINE g == [i \in T |-> f[i].val]
  <2>1. g \in Surjection(T, ValuesOf(f, T))
    BY Zenon DEF Surjection, ValuesOf
  <2> QED BY <1>1, <2>1, FS_Surjection, Zenon
<1>3. IsFiniteSet(S)
  BY <1>2, FS_Subset, Zenon
<1> DEFINE h == [v \in S |-> [kind |-> k, val |-> v]]
<1>4. h \in Surjection(S, Found(k, S))
  BY Zenon DEF Surjection, Found
<1> QED BY <1>3, <1>4, FS_Surjection, Zenon

\* Different values make different candidates.
LEMMA AsManyCandidates ==
    ASSUME NEW C, IsFiniteSet(C), NEW S, NEW k, Found(k, S) \subseteq C,
           NEW n \in Nat, Cardinality(S) = n + 1
    PROVE  Cardinality(C) > n
<1> DEFINE h == [v \in S |-> [kind |-> k, val |-> v]]
<1>1. h \in [S -> C] /\ \A v, w \in S : h[v] = h[w] => v = w
  BY Zenon DEF Found
<1>2. h \in Injection(S, C)
  BY <1>1, Zenon DEF Injection, IsInjective
<1>3. Cardinality(S) <= Cardinality(C) /\ Cardinality(C) \in Nat
  BY <1>2, FS_Injection, FS_CardinalityType, Zenon
<1> QED BY <1>3, SMTT(30)

\* An answer is right if what is shown was found, and all was found if it is
\* to be exact.
LEMMA RightAfter ==
    ASSUME UNCHANGED <<func, consumer, excluded>>,
           yielded \cap excluded = {}, yielded \subseteq Inputs,
           \A c \in candidates' \ phantoms' : \E i \in yielded : c = Shown(func[i]),
           answer'.kind = "exactly" => \A i \in Inputs \ excluded : Shown(func[i]) \in candidates',
           answer'.kind = "atleast" <=> Cardinality(candidates') > consumer.n
    PROVE  ValuesRight'
<1> DEFINE possible == {func[i] : i \in Inputs \ excluded}
           meant == IF consumer.thrown_size # "none" THEN possible
                    ELSE {IF o.kind = "throw" THEN Throw(Pointer) ELSE o : o \in possible}
<1>1. \A i \in Inputs \ excluded : Shown(func[i]) \in meant
  BY Zenon DEF Shown
<1>2. \A c \in meant : \E i \in Inputs \ excluded : c = Shown(func[i])
  BY SMTT(30) DEF Shown
<1> HIDE DEF meant, possible
<1>3. candidates' \ phantoms' \subseteq meant
  BY <1>1, Zenon
<1>4. answer'.kind = "exactly" => meant \subseteq candidates'
  BY <1>2, Zenon
<1>5. ValuesRight' <=> (answer'.kind \in {"exactly", "atleast"} =>
          /\ candidates' \ phantoms' \subseteq meant
          /\ answer'.kind = "exactly" => meant \subseteq candidates'
          /\ answer'.kind = "atleast" <=> Cardinality(candidates') > consumer.n)
  BY ZenonT(30) DEF ValuesRight, Possible, meant, possible
<1> QED BY <1>3, <1>4, <1>5, Zenon

\* Extending the candidates by what the path that is decided leads to.
LEMMA ExtendKeeps ==
    ASSUME IInv, VInv, pc = "deciding", consumer.kind = "values",
           UNCHANGED <<func, consumer, result, yielded, excluded>>,
           NEW new, IsFiniteSet(new), Extend(new),
           \A c \in new : c = [kind |-> c.kind, val |-> c.val],
           result.possible => \A c \in new : \E i \in yielded : c = Shown(func[i]),
           consumer.thrown_size = "none" => \A c \in new : c.kind = "throw" => c = Throw(Pointer),
           \/ Cardinality(candidates') > consumer.n
           \/ \A i \in Top(solver) : Shown(func[i]) \in candidates'
    PROVE  VInv'
<1>1. /\ candidates' = candidates \cup new
      /\ phantoms' = IF result.possible THEN phantoms ELSE phantoms \cup new
  BY Zenon DEF Extend
<1>2. /\ yielded \cap excluded = {} /\ yielded \subseteq Inputs
      /\ IsFiniteSet(candidates) /\ consumer.n \in Nat /\ func \in Functions
      /\ \A c \in candidates \ phantoms : \E i \in yielded : c = Shown(func[i])
      /\ \A c \in candidates : c = [kind |-> c.kind, val |-> c.val]
      /\ consumer.thrown_size = "none" => \A c \in candidates : c.kind = "throw" => c = Throw(Pointer)
      /\ Covered(yielded \ Top(solver))
      /\ answer = NoAnswer
  BY Zenon DEF IInv, TypeOK, InputsAccountedFor, VInv
<1>3. IsFiniteSet(candidates')
  BY <1>1, <1>2, FS_Union, Zenon
<1>4. \A c \in candidates' \ phantoms' : \E i \in yielded : c = Shown(func[i])
  <2> SUFFICES ASSUME NEW c \in candidates', c \notin phantoms'
               PROVE  \E i \in yielded : c = Shown(func[i])
    BY Zenon
  <2>1. CASE result.possible
    BY <1>1, <1>2, <2>1, Zenon
  <2>2. CASE ~result.possible
    BY <1>1, <1>2, <2>2, Zenon
  <2> QED BY <2>1, <2>2, Zenon
<1>5. /\ \A c \in candidates' : c = [kind |-> c.kind, val |-> c.val]
      /\ consumer.thrown_size = "none" => \A c \in candidates' : c.kind = "throw" => c = Throw(Pointer)
  BY <1>1, <1>2, Zenon
<1>6. \A o : Shown(o)' = Shown(o)
  BY Zenon DEF Shown
<1>7. CASE Cardinality(candidates') > consumer.n
  <2>1. pc' = "over" /\ answer' = PossibleReturnValues(candidates')
    BY <1>7, Zenon DEF Extend, Stop
  <2>2. answer'.kind = "atleast"
    BY <1>7, <2>1, Zenon DEF PossibleReturnValues
  <2>3. ValuesRight'
    BY <1>2, <1>4, <1>7, <2>2, RightAfter, Zenon
  <2> QED BY <1>2, <1>3, <1>4, <1>5, <1>6, <2>1, <2>3, Zenon DEF VInv
<1>8. CASE ~(Cardinality(candidates') > consumer.n)
  <2>1. pc' = "calling" /\ answer' = answer
    BY <1>8, Zenon DEF Extend, GoOn
  <2>2. \A i \in yielded : Shown(func[i]) \in candidates'
    BY <1>1, <1>2, <1>8, Zenon DEF Covered
  <2>3. Covered(yielded)'
    BY <1>6, <2>2, Zenon DEF Covered
  <2> QED BY <1>2, <1>3, <1>4, <1>5, <1>6, <2>1, <2>3, Zenon DEF VInv
<1> QED BY <1>7, <1>8, Zenon

\* The values of a path that returns, or throws something of a known size.
LEMMA NewValuesKeeps ==
    ASSUME IInv, VInv, pc = "deciding", consumer.kind = "values",
           UNCHANGED <<func, consumer, result>>, NewValues,
           \E sols \in PossibleSolutions(solver') : Extend({[kind |-> result.kind, val |-> v] : v \in sols}),
           consumer.thrown_size = "none" => result.kind # "throw"
    PROVE  VInv'
<1> DEFINE fresh == {i \in Inputs : i \in Top(solver) => func[i].val \notin RuledOut(result.kind)}
<1>1. PICK sols \in PossibleSolutions(solver') : Extend({[kind |-> result.kind, val |-> v] : v \in sols})
  BY Zenon
<1> DEFINE new == Found(result.kind, sols)
<1>2. /\ AssertFinal(fresh)
      /\ solver' = AssertIn(solver, fresh) /\ yielded' = yielded /\ excluded' = excluded
      /\ UNCHANGED <<backtrack_points, path, mode, saved>>
  BY Zenon DEF NewValues, AssertFinal
<1>3. /\ func \in Functions /\ consumer.n \in Nat /\ IsFiniteSet(candidates)
      /\ Top(solver) \subseteq yielded /\ yielded \subseteq Inputs /\ excluded \subseteq Inputs
      /\ result.possible <=> Sat(solver)
      /\ \A i \in Top(solver) : func[i].kind = result.kind /\ (result.const => func[i].val = result.val)
      /\ \A c \in candidates : c = [kind |-> c.kind, val |-> c.val]
  BY Zenon DEF IInv, TypeOK, VInv
<1>4. Top(solver') = Top(solver) \cap fresh
  <2>1. fresh \in SUBSET Inputs
    BY Zenon
  <2> HIDE DEF fresh
  <2> QED BY <1>2, <1>3, <2>1, AssertInKeeps, Zenon
<1>5. \A i \in Top(solver) : Shown(func[i]) = [kind |-> result.kind, val |-> func[i].val]
  <2> SUFFICES ASSUME NEW i \in Top(solver)
               PROVE  Shown(func[i]) = [kind |-> result.kind, val |-> func[i].val]
    BY Zenon
  <2>1. func[i] = [kind |-> func[i].kind, val |-> func[i].val] /\ func[i].kind = result.kind
    BY <1>3, OutcomeIs, Zenon
  <2>2. Shown(func[i]) = func[i]
    BY <2>1, Zenon DEF Shown
  <2> QED BY <2>1, <2>2, Zenon
<1>6. \A i \in Top(solver) : func[i].val \in RuledOut(result.kind) => Shown(func[i]) \in candidates
  <2> SUFFICES ASSUME NEW i \in Top(solver), func[i].val \in RuledOut(result.kind)
               PROVE  Shown(func[i]) \in candidates
    BY Zenon
  <2>1. PICK o \in candidates : o.kind = result.kind /\ o.val = func[i].val
    BY Zenon DEF RuledOut, ValuesIn
  <2> QED BY <1>3, <1>5, <2>1, Zenon
<1>7. \A i \in Top(solver) : i \in Top(solver') \/ Shown(func[i]) \in candidates
  BY <1>3, <1>4, <1>6, Zenon
<1> HIDE DEF fresh
<1> DEFINE all == {func[i].val : i \in Top(solver')}
<1>8. \/ result.const /\ consumer.n > 0 /\ sols = {result.val}
      \/ sols = all
      \/ sols \in SUBSET all /\ Cardinality(sols) = consumer.n + 1
  BY <1>1, Zenon DEF PossibleSolutions
<1>9. candidates' = candidates \cup new
  BY <1>1, Zenon DEF Extend, Found
<1>10. IsFiniteSet(new)
  <2>1. CASE sols \in SUBSET all
    <3> DEFINE T == Top(solver')
    <3>1. T \in SUBSET Inputs /\ sols \in SUBSET ValuesOf(func, T)
      BY <1>3, <1>4, <2>1, Zenon DEF ValuesOf
    <3> HIDE DEF T
    <3> QED BY <3>1, FiniteOutcomes, Zenon
  <2>2. CASE sols = {result.val}
    <3>1. new = {[kind |-> result.kind, val |-> result.val]}
      BY <2>2, Zenon DEF Found
    <3> HIDE DEF new
    <3> QED BY <3>1, FS_Singleton, Zenon
  <2> QED BY <1>8, <2>1, <2>2, Zenon
<1>11. result.possible => \A c \in new : \E i \in yielded : c = Shown(func[i])
  <2> SUFFICES ASSUME Sat(solver), NEW v \in sols
               PROVE  \E i \in Top(solver) : func[i].val = v
    BY <1>3, <1>5, SMTT(30) DEF Found
  <2>1. CASE sols \in SUBSET all
    BY <1>4, <2>1, Zenon
  <2>2. CASE result.const /\ sols = {result.val}
    BY <1>3, <2>2, Zenon DEF Sat
  <2> QED BY <1>8, <2>1, <2>2, Zenon
<1>12. \/ Cardinality(candidates') > consumer.n
       \/ \A i \in Top(solver) : Shown(func[i]) \in candidates'
  <2>1. CASE sols = all
    <3>1. \A i \in Top(solver') : [kind |-> result.kind, val |-> func[i].val] \in new
      BY <2>1, Zenon DEF Found
    <3> QED BY <1>4, <1>5, <1>7, <1>9, <3>1, Zenon
  <2>2. CASE result.const /\ sols = {result.val}
    <3>1. \A i \in Top(solver) : [kind |-> result.kind, val |-> func[i].val] \in new
      BY <1>3, <2>2, Zenon DEF Found
    <3> QED BY <1>5, <1>9, <3>1, Zenon
  <2>3. CASE Cardinality(sols) = consumer.n + 1
    <3>1. IsFiniteSet(candidates') /\ new \subseteq candidates'
      BY <1>3, <1>9, <1>10, FS_Union, Zenon
    <3> QED BY <1>3, <2>3, <3>1, AsManyCandidates, Zenon
  <2> QED BY <1>8, <2>1, <2>2, <2>3, Zenon
<1>13. \A c \in new : c = [kind |-> c.kind, val |-> c.val] /\ c.kind = result.kind
  BY SMTT(30) DEF Found
<1>14. Extend(new)
  BY <1>1, Zenon DEF Found
<1> HIDE DEF new
<1> QED BY <1>2, <1>10, <1>11, <1>12, <1>13, <1>14, ExtendKeeps, Zenon

\* The process ends, with the candidates it had.
LEMMA PanicKeeps ==
    ASSUME VInv, consumer.kind = "values", UNCHANGED <<func, consumer, candidates, phantoms>>,
           yielded' = yielded, Stop([kind |-> "panic"])
    PROVE  VInv'
<1>1. pc' = "over" /\ answer' = [kind |-> "panic"]
  BY Zenon DEF Stop
<1>2. answer'.kind = "panic"
  BY <1>1, Zenon
<1>3. ValuesRight'
  BY <1>2, Zenon DEF ValuesRight
<1>4. \A o : Shown(o)' = Shown(o)
  BY Zenon DEF Shown
<1> QED BY <1>1, <1>2, <1>3, <1>4, Zenon DEF VInv

\* The body of the loop of get_possible_return_values_of_func.
LEMMA ValuesStepKeeps ==
    ASSUME IInv, VInv, Values PROVE VInv'
<1>1. /\ pc = "deciding" /\ consumer.kind = "values" /\ UNCHANGED <<func, consumer, result>>
      /\ func \in Functions /\ yielded \subseteq Inputs /\ Top(solver) \subseteq yielded
      /\ \A i \in Top(solver) : func[i].kind = result.kind
      /\ result.possible <=> Sat(solver)
  BY Zenon DEF Values, IInv, TypeOK, VInv
<1>2. CASE NewValues /\ (consumer.thrown_size = "none" => result.kind # "throw")
  <2>1. CASE \E sols \in PossibleSolutions(solver') : Extend({[kind |-> result.kind, val |-> v] : v \in sols})
    BY <1>1, <1>2, <2>1, NewValuesKeeps, Zenon
  <2>2. CASE UNCHANGED <<candidates, phantoms>> /\ Stop([kind |-> "panic"])
    <3>1. yielded' = yielded
      BY <1>2, Zenon DEF NewValues, AssertFinal
    <3> QED BY <1>1, <2>2, <3>1, PanicKeeps, Zenon
  <2> QED BY <1>2, <2>1, <2>2, Zenon DEF NewValues
<1>3. CASE result.kind = "throw" /\ consumer.thrown_size = "none" /\ UNCHANGED vars
           /\ Extend(IF ValuesIn(candidates, "throw") = {} THEN {Throw(Pointer)} ELSE {})
  <2> DEFINE new == IF ValuesIn(candidates, "throw") = {} THEN {Throw(Pointer)} ELSE {}
  <2>1. \A i \in Top(solver) : Shown(func[i]) = Throw(Pointer)
    BY <1>1, <1>3, Zenon DEF Shown
  <2>2. IsFiniteSet(new)
    BY FS_EmptySet, FS_Singleton, Zenon
  <2>3. \A c \in new : c = Throw(Pointer) /\ c = [kind |-> c.kind, val |-> c.val]
    BY SMTT(30) DEF Throw
  <2>4. result.possible => \A c \in new : \E i \in yielded : c = Shown(func[i])
    BY <1>1, <2>1, <2>3, Zenon DEF Sat
  <2>5. Throw(Pointer) \in candidates \cup new
    <3>1. CASE ValuesIn(candidates, "throw") = {}
      BY <3>1, Zenon
    <3>2. CASE ValuesIn(candidates, "throw") # {}
      <4>1. PICK c \in candidates : c.kind = "throw"
        BY <3>2, Zenon DEF ValuesIn
      <4> QED BY <1>1, <1>3, <4>1, Zenon DEF VInv
    <3> QED BY <3>1, <3>2, Zenon
  <2>6. Extend(new) /\ candidates' = candidates \cup new /\ yielded' = yielded /\ excluded' = excluded
    BY <1>3, Zenon DEF Extend, vars
  <2> HIDE DEF new
  <2>7. \A i \in Top(solver) : Shown(func[i]) \in candidates'
    BY <2>1, <2>5, <2>6, Zenon
  <2> QED BY <1>1, <2>2, <2>3, <2>4, <2>6, <2>7, ExtendKeeps, Zenon
<1>4. CASE result.kind = "abort" /\ UNCHANGED vars /\ Extend({Abort})
  <2> DEFINE new == {Abort}
  <2>1. \A i \in Top(solver) : Shown(func[i]) = Abort
    <3> SUFFICES ASSUME NEW i \in Top(solver) PROVE Shown(func[i]) = Abort
      BY Zenon
    <3>1. func[i] = Abort /\ func[i].kind = "abort"
      BY <1>1, <1>4, OutcomeIs, Zenon
    <3> QED BY <3>1, Zenon DEF Shown
  <2>2. IsFiniteSet(new)
    BY FS_Singleton, Zenon
  <2>3. \A c \in new : c = Abort /\ c.kind = "abort" /\ c = [kind |-> c.kind, val |-> c.val]
    BY SMTT(30) DEF Abort
  <2>4. result.possible => \A c \in new : \E i \in yielded : c = Shown(func[i])
    BY <1>1, <2>1, <2>3, Zenon DEF Sat
  <2>5. Extend(new) /\ candidates' = candidates \cup new /\ yielded' = yielded /\ excluded' = excluded
    BY <1>4, Zenon DEF Extend, vars
  <2>6. \A i \in Top(solver) : Shown(func[i]) \in candidates'
    BY <2>1, <2>5, Zenon
  <2> HIDE DEF new
  <2> QED BY <1>1, <2>2, <2>3, <2>4, <2>5, <2>6, ExtendKeeps, Zenon
<1>5. CASE UNCHANGED <<vars, candidates, phantoms>> /\ Stop([kind |-> "panic"])
  <2>1. UNCHANGED <<candidates, phantoms>> /\ yielded' = yielded
    BY <1>5, Zenon DEF vars
  <2> QED BY <1>1, <1>5, <2>1, PanicKeeps, Zenon
<1> QED BY <1>2, <1>3, <1>4, <1>5, Zenon DEF Values, ThrowValues

\* `next()` answers None: all the inputs have been reported or excluded.
LEMMA NoMoreValuesKeeps ==
    ASSUME IInv, VInv, NoMorePaths PROVE VInv'
<1>1. /\ pc = "calling" /\ pc' = "over" /\ UNCHANGED <<func, consumer, result, candidates, phantoms>>
      /\ answer' = IF consumer.kind = "values" THEN PossibleReturnValues(candidates) ELSE [kind |-> "none"]
      /\ yielded' = yielded /\ excluded' = excluded
  BY Zenon DEF NoMorePaths, Stop, Exhaust
<1>2. yielded \cup excluded = Inputs /\ yielded \cap excluded = {} /\ yielded \subseteq Inputs
  BY ExhaustKeeps, Zenon DEF NoMorePaths, IInv, InputsAccountedFor, TypeOK
<1>3. CASE consumer.kind # "values"
  <2>1. answer'.kind = "none"
    BY <1>1, <1>3, Zenon
  <2> QED BY <1>1, <1>3, <2>1, Zenon DEF VInv, ValuesRight
<1>4. CASE consumer.kind = "values"
  <2>1. answer'.kind = IF Cardinality(candidates) > consumer.n THEN "atleast" ELSE "exactly"
    BY <1>1, <1>4, Zenon DEF PossibleReturnValues
  <2>2. \A i \in Inputs \ excluded : Shown(func[i]) \in candidates
    BY <1>1, <1>2, <1>4, Zenon DEF VInv, Covered
  <2>3. \A c \in candidates \ phantoms : \E i \in yielded : c = Shown(func[i])
    BY <1>4, Zenon DEF VInv
  <2>4. ValuesRight'
    BY <1>1, <1>2, <2>1, <2>2, <2>3, RightAfter, Zenon
  <2>5. \A o : Shown(o)' = Shown(o)
    BY <1>1, Zenon DEF Shown
  <2> QED BY <1>1, <1>4, <2>4, <2>5, SMTT(30) DEF VInv
<1> QED BY <1>3, <1>4, Zenon

\* A path is reported; or the exploration goes on, and reports nothing.
LEMMA PathValuesKeeps ==
    ASSUME IInv, VInv, Prepare \/ Explore \/ \E o, const : Answers(o, const) PROVE VInv'
<1>1. /\ pc \in {"init", "calling"} /\ pc' \in {"calling", "deciding"}
      /\ UNCHANGED <<func, consumer, candidates, answer, phantoms>>
  BY Zenon DEF Prepare, Explore, Answers, lib_vars
<1>2. \A o : Shown(o)' = Shown(o)
  BY <1>1, Zenon DEF Shown
<1>3. answer = NoAnswer /\ answer.kind = "pending"
  BY <1>1, SMTT(30) DEF VInv, NoAnswer
<1>4. CASE consumer.kind # "values"
  BY <1>1, <1>3, <1>4, Zenon DEF VInv
<1>5. CASE consumer.kind = "values" /\ (Prepare \/ Explore)
  <2>1. yielded' = yielded /\ pc' = "calling" /\ (pc = "init" => yielded = {})
    BY <1>1, <1>5, Zenon DEF Prepare, Explore, lib_vars, vars, Start, Assume, CondBr, Switch, Fork, Backtrack, VInv
  <2>2. Covered(yielded)'
    BY <1>1, <1>2, <1>5, <2>1, Zenon DEF Covered, VInv
  <2> QED BY <1>1, <1>2, <1>3, <1>5, <2>1, <2>2, Zenon DEF VInv
<1>6. ASSUME consumer.kind = "values", NEW o, NEW const, Answers(o, const) PROVE VInv'
  <2>1. /\ pc = "calling" /\ pc' = "deciding"
        /\ \A i \in Top(solver) : func[i].kind = o.kind /\ (const => func[i].val = o.val)
        /\ result' = [kind |-> o.kind, val |-> o.val, const |-> const, possible |-> Sat(solver)]
        /\ solver' = solver /\ yielded' = yielded \cup Top(solver)
    BY <1>6, Zenon DEF Answers, Yield
  <2>2. Covered(yielded)
    BY <1>6, <2>1, Zenon DEF VInv
  <2>3. /\ Top(solver)' = Top(solver) /\ Sat(solver)' = Sat(solver)
        /\ Covered(yielded \ Top(solver))'
    BY <1>1, <1>2, <2>1, <2>2, Zenon DEF Covered
  <2>4. /\ result'.kind = o.kind /\ result'.val = o.val
        /\ result'.const = const /\ result'.possible = Sat(solver)
    BY <2>1, Zenon
  <2> QED BY <1>1, <1>2, <1>3, <1>6, <2>1, <2>3, <2>4, Zenon DEF VInv
<1> QED BY <1>4, <1>5, <1>6, Zenon

\* A consumer of another kind, or nothing changes.
LEMMA OtherValuesKeeps ==
    ASSUME VInv, consumer.kind # "values" \/ UNCHANGED vars, UNCHANGED <<func, consumer>>,
           \/ UNCHANGED lib_vars
           \/ consumer.kind = "find_zero" /\ FindZero
    PROVE  VInv'
<1>1. CASE UNCHANGED <<vars, lib_vars>>
  <2>1. /\ pc' = pc /\ answer' = answer /\ consumer' = consumer /\ func' = func /\ result' = result
        /\ candidates' = candidates /\ phantoms' = phantoms
        /\ solver' = solver /\ yielded' = yielded /\ excluded' = excluded
    BY <1>1, Zenon DEF lib_vars, vars
  <2>2. ValuesRight' = ValuesRight
    BY <2>1, SMTT(30) DEF ValuesRight, Possible
  <2>3. /\ \A o : Shown(o)' = Shown(o)
        /\ Top(solver') = Top(solver) /\ Sat(solver)' = Sat(solver)
    BY <2>1, Zenon DEF Shown
  <2>4. Covered(yielded)' = Covered(yielded) /\ Covered(yielded \ Top(solver))' = Covered(yielded \ Top(solver))
    BY <2>1, <2>3, Zenon DEF Covered
  <2> QED BY <2>1, <2>2, <2>3, <2>4, SMTT(30) DEF VInv
<1>2. CASE consumer.kind # "values" /\ UNCHANGED lib_vars
  <2>1. pc' = pc /\ answer' = answer /\ consumer' = consumer
    BY <1>2, Zenon DEF lib_vars
  <2> QED BY <1>2, <2>1, Zenon DEF VInv, ValuesRight
<1>3. CASE consumer.kind = "find_zero" /\ FindZero
  <2>1. \/ \E i \in Top(solver') : pc' = "over" /\ answer' = [kind |-> "some", input |-> i]
        \/ pc' = "over" /\ answer' = [kind |-> "error"]
        \/ pc' = "calling" /\ answer' = answer
    BY <1>3, Zenon DEF FindZero, FindZeroOnReturn, Stop, GoOn
  <2>2. \/ pc' = "over" /\ answer'.kind \notin {"exactly", "atleast"}
        \/ pc' = "calling" /\ answer' = answer
    BY <2>1, SMTT(30)
  <2>3. answer = NoAnswer /\ answer.kind = "pending"
    BY <1>3, SMTT(30) DEF VInv, FindZero, NoAnswer
  <2> QED BY <1>3, <2>2, <2>3, Zenon DEF VInv, ValuesRight
<1> QED BY <1>1, <1>2, <1>3, Zenon

\* The inductive invariant of get_possible_return_values_of_func.
THEOREM ValuesInvariance == LibSpec => []VInv
<1>1. LibInit => VInv
  <2> SUFFICES ASSUME LibInit PROVE VInv
    BY SMTT(30)
  <2>1. /\ pc = "init" /\ answer = NoAnswer /\ yielded = {} /\ candidates = {}
        /\ func \in Functions /\ consumer \in Consumers
    BY Zenon DEF LibInit, Init
  <2>2. answer.kind = "pending"
    BY <2>1, Zenon DEF NoAnswer
  <2> QED BY <2>1, <2>2, FS_EmptySet, ConsumersAssumption, Zenon DEF VInv
<1>2. IInv /\ VInv /\ [LibNext]_<<vars, lib_vars>> => VInv'
  <2> SUFFICES ASSUME IInv, VInv, [LibNext]_<<vars, lib_vars>> PROVE VInv'
    BY SMTT(30)
  <2>1. CASE Prepare \/ Explore \/ \E o, const : Answers(o, const)
    BY <2>1, PathValuesKeeps, Zenon
  <2>2. CASE Over \/ UNCHANGED <<vars, lib_vars>>
    BY <2>2, OtherValuesKeeps, Zenon DEF Over, lib_vars
  <2>3. CASE consumer.kind = "any" /\ Next /\ UNCHANGED lib_vars
    BY <2>3, OtherValuesKeeps, Zenon DEF lib_vars
  <2>4. CASE FindZero
    BY <2>4, OtherValuesKeeps, Zenon DEF FindZero
  <2> QED BY <2>1, <2>2, <2>3, <2>4, ValuesStepKeeps, NoMoreValuesKeeps, Zenon DEF LibNext
<1> QED BY <1>1, <1>2, LibraryInvariance, PTL DEF LibSpec

\* What get_possible_return_values_of_func answers is right, for every
\* function, bound n and order of the paths: whatever it found on a path that
\* some input takes is an outcome that the function can have, Exactly misses
\* none of them, and AtLeast is answered just when more than n were found.
THEOREM PossibleReturnValuesAreRight == LibSpec => []ValuesRight
<1>1. VInv => ValuesRight
  <2> SUFFICES ASSUME VInv PROVE ValuesRight
    BY SMTT(30)
  <2>1. CASE pc = "over"
    BY <2>1, Zenon DEF VInv
  <2>2. CASE pc # "over"
    <3>1. answer.kind = "pending"
      BY <2>2, SMTT(30) DEF VInv, NoAnswer
    <3> QED BY <3>1, Zenon DEF ValuesRight
  <2> QED BY <2>1, <2>2, SMTT(30)
<1> QED BY <1>1, ValuesInvariance, PTL
=============================================================================
