--------------------- MODULE ExecutionRefinementProofs ---------------------
(***************************************************************************)
(* The engine explores paths the way PathExploration says, for every       *)
(* program: its branches, every step, and what follows for its consumer.   *)
(***************************************************************************)
EXTENDS ExecutionExplorationProofs
-----------------------------------------------------------------------------
(* The alternatives of symex_switch.                                         *)

Constrained(alts, v, ins, order, n, default) ==
    /\ \A j \in 1..n : alts[j].constraint = CaseConstraint(v, ins.dests[order[j]])
    /\ SatWithExtraConstraint(solver, default) => alts[n + 1].constraint = default

LEMMA AltsConstraints ==
    ASSUME NEW alts, NEW v, NEW ins, NEW order, NEW n \in Nat, NEW default,
           AreAlts(alts, v, ins, order, n, default)
    PROVE  Constrained(alts, v, ins, order, n, default)
<1>1. ASSUME NEW j \in 1..n
      PROVE  alts[j].constraint = CaseConstraint(v, ins.dests[order[j]])
  <2>1. alts[j] = Alt(ins.dests[order[j]].bb, CaseConstraint(v, ins.dests[order[j]]))
    BY Zenon DEF AreAlts
  <2>2. QED
    BY <2>1, AltIs, Zenon
<1>2. ASSUME SatWithExtraConstraint(solver, default)
      PROVE  alts[n + 1].constraint = default
  <2>1. alts[n + 1] = Alt(ins.default_dest, default)
    BY <1>2, Zenon DEF AreAlts
  <2>2. QED
    BY <2>1, AltIs, Zenon
<1>3. QED
  BY <1>1, <1>2, Zenon DEF Constrained

\* The first n entries of order are the elements of S, each of them once.
Once(order, n, S) ==
    /\ \A j, k \in 1..n : j # k => order[j] # order[k]
    /\ \A d \in S : \E j \in 1..n : order[j] = d

LEMMA ListedOnce ==
    ASSUME NEW n \in Nat, NEW S, S \subseteq Nat, NEW order \in [1..n -> S], Lists(order, S)
    PROVE  Once(order, n, S)
<1>1. DOMAIN order = 1..n
  BY Zenon
<1>2. \A j, k \in 1..n : j < k => order[j] < order[k]
  BY <1>1, Zenon DEF Lists
<1>3. ASSUME NEW j \in 1..n, NEW k \in 1..n, j # k
      PROVE  order[j] # order[k]
  <2>1. order[j] \in Nat /\ order[k] \in Nat
    BY Zenon
  <2>2. j < k \/ k < j
    BY <1>3, SMTT(30)
  <2>3. QED
    BY <1>2, <2>1, <2>2, SMTT(30)
<1>4. \A d \in S : \E j \in 1..n : order[j] = d
  BY <1>1, Zenon DEF Lists
<1>5. QED
  BY <1>3, <1>4, Zenon DEF Once

\* The constraints of the ways on from a switch: each is feasible, they
\* exclude each other, and every input left takes one of them.
LEMMA SwitchWaysAre ==
    ASSUME Base, NEW v, NEW ins, NEW n \in Nat, n >= 1,
           NEW order \in [1..n -> FeasibleCases(v, ins.dests)],
           Lists(order, FeasibleCases(v, ins.dests)),
           Len(ins.dests) \in Nat,
           \A j, k \in 1..Len(ins.dests) : j # k => ins.dests[j].val # ins.dests[k].val,
           NEW alts, AreAlts(alts, v, ins, order, n, DefaultConstraint(v, ins.dests))
    PROVE  /\ \A j \in 1..Len(alts) : alts[j].constraint \subseteq Inputs
           /\ \A j \in 1..Len(alts) : Top(solver) \cap alts[j].constraint # {}
           /\ \A j, k \in 1..Len(alts) : j # k => alts[j].constraint \cap alts[k].constraint = {}
           /\ \A i \in Top(solver) : \E j \in 1..Len(alts) : i \in alts[j].constraint
<1> DEFINE default == DefaultConstraint(v, ins.dests)
           Case(j) == CaseConstraint(v, ins.dests[order[j]])
           F == FeasibleCases(v, ins.dests)
           hasDefault == SatWithExtraConstraint(solver, default)
<1>1. \A j \in 1..n : order[j] \in F
  BY Zenon
<1>2. \A d \in F : d \in 1..Len(ins.dests) /\ Top(solver) \cap CaseConstraint(v, ins.dests[d]) # {}
  BY SatLeft, Zenon DEF FeasibleCases
<1>3. Constrained(alts, v, ins, order, n, default)
  BY AltsConstraints, Zenon
<1>4. /\ \A j \in 1..n : alts[j].constraint = Case(j)
      /\ hasDefault => alts[n + 1].constraint = default
  BY <1>3, Zenon DEF Constrained
<1>5. hasDefault <=> Top(solver) \cap default # {}
  BY SatLeft, Zenon
<1>6. /\ \A j \in 1..n : j \in 1..Len(alts) /\ j # n + 1
      /\ hasDefault => n + 1 \in 1..Len(alts)
      /\ \A j \in 1..Len(alts) : j \in 1..n \/ (j = n + 1 /\ hasDefault)
  BY AltsShape, Zenon
<1>7. default \subseteq Inputs /\ \A j \in 1..n : Case(j) \subseteq Inputs
  BY Zenon DEF DefaultConstraint, CaseConstraint
<1>8. F \subseteq Nat
  <2>1. \A d \in 1..Len(ins.dests) : d \in Nat
    BY SMTT(30)
  <2>2. QED
    BY <1>2, <2>1, Zenon
<1>9. /\ \A j, k \in 1..n : j # k => order[j] # order[k]
      /\ \A d \in F : \E j \in 1..n : order[j] = d
  <2>1. Once(order, n, F)
    BY <1>8, ListedOnce, Zenon
  <2>2. QED
    BY <2>1, Zenon DEF Once
<1>10. \A j, k \in 1..n : j # k => Case(j) \cap Case(k) = {}
  <2> SUFFICES ASSUME NEW j \in 1..n, NEW k \in 1..n, j # k PROVE Case(j) \cap Case(k) = {}
    BY Zenon
  <2>1. ins.dests[order[j]].val # ins.dests[order[k]].val
    BY <1>1, <1>2, <1>9, Zenon
  <2>2. QED
    BY <2>1, Zenon DEF CaseConstraint
<1>11. \A j \in 1..n : Case(j) \cap default = {}
  BY <1>1, <1>2, Zenon DEF CaseConstraint, DefaultConstraint
<1>12. \A i \in Top(solver) : i \in default \/ \E j \in 1..n : i \in Case(j)
  <2> SUFFICES ASSUME NEW i \in Top(solver), i \notin default
               PROVE  \E j \in 1..n : i \in Case(j)
    BY Zenon
  <2>1. i \in Inputs
    BY SolverLevels, Zenon
  <2>2. PICK d \in 1..Len(ins.dests) : v[i] = ins.dests[d].val
    BY <2>1, Zenon DEF DefaultConstraint
  <2>3. i \in CaseConstraint(v, ins.dests[d])
    BY <2>1, <2>2, Zenon DEF CaseConstraint
  <2>4. d \in F
    BY <2>3, SatLeft, Zenon DEF FeasibleCases
  <2>5. PICK j \in 1..n : order[j] = d
    BY <1>9, <2>4, Zenon
  <2>6. QED
    BY <2>3, <2>5, Zenon
<1>13. \A j \in 1..n : Top(solver) \cap Case(j) # {}
  BY <1>1, <1>2, Zenon
<1> HIDE DEF default, Case, F, hasDefault
<1>14. \A j \in 1..Len(alts) : alts[j].constraint \subseteq Inputs /\ Top(solver) \cap alts[j].constraint # {}
  BY <1>4, <1>5, <1>6, <1>7, <1>13, Zenon
<1>15. \A j, k \in 1..Len(alts) : j # k => alts[j].constraint \cap alts[k].constraint = {}
  <2> SUFFICES ASSUME NEW j \in 1..Len(alts), NEW k \in 1..Len(alts), j # k
               PROVE  alts[j].constraint \cap alts[k].constraint = {}
    BY Zenon
  <2>1. CASE j \in 1..n /\ k \in 1..n
    BY <1>4, <1>10, <2>1, Zenon
  <2>2. CASE j \in 1..n /\ k = n + 1 /\ hasDefault
    BY <1>4, <1>11, <2>2, Zenon
  <2>3. CASE k \in 1..n /\ j = n + 1 /\ hasDefault
    <3>1. alts[k].constraint \cap alts[j].constraint = {}
      BY <1>4, <1>11, <2>3, Zenon
    <3>2. QED
      BY <3>1, Zenon
  <2>4. QED
    BY <1>6, <2>1, <2>2, <2>3, Zenon
<1>16. ASSUME NEW i \in Top(solver)
       PROVE  \E j \in 1..Len(alts) : i \in alts[j].constraint
  <2>1. CASE i \in default
    BY <1>4, <1>5, <1>6, <2>1, Zenon
  <2>2. CASE \E j \in 1..n : i \in Case(j)
    BY <1>4, <1>6, <2>2, Zenon
  <2>3. QED
    BY <1>12, <2>1, <2>2, Zenon
<1>17. QED
  BY <1>14, <1>15, <1>16, Zenon
\* The exploration asks what the engine asks.
LEMMA SatIs ==
    ASSUME Base, NEW c
    PROVE  /\ SatWithExtraConstraint(solver, c) <=> Top(solver) \cap c # {}
           /\ Exploration!SatWithExtraConstraint(solver, c) <=> Top(solver) \cap c # {}
<1>1. Exploration!SatWithExtraConstraint(solver, c) <=> SatWithExtraConstraint(solver, c)
  BY Zenon DEF Exploration!SatWithExtraConstraint, Exploration!Sat, Exploration!Top, Exploration!AssertIn,
         Exploration!Push, SatWithExtraConstraint, Sat, Top, AssertIn, Push
<1>2. QED
  BY <1>1, SatLeft, Zenon

\* A branch without a condition is not seen by the exploration.
LEMMA JumpExplores ==
    ASSUME Base, Base', Going(ctl), UNCHANGED <<fresh, yielded, excluded>>,
           NEW bb, Fork(bb, Inputs, <<>>)
    PROVE  Answers' /\ Explores
<1>1. /\ SaveBacktrackingPoints(<<>>) /\ solver' = AssertIn(PushTimes(solver, 0), Inputs)
      /\ ctl' = Enter /\ path' = path
  BY EmptyIsSeq, Zenon DEF Fork
<1>2. /\ IsSeq(backtrack_points) /\ IsSeq(backtrack_points') /\ Len(backtrack_points) \in Nat
      /\ Len(backtrack_points') = Len(backtrack_points) + 0
      /\ \A k \in 1..Len(backtrack_points) : backtrack_points'[k] = backtrack_points[k]
  BY <1>1, EmptyIsSeq, Saved, SolverLevels, Zenon DEF Base, ArePoints
<1>3. backtrack_points' = backtrack_points
  <2>1. Len(backtrack_points') = Len(backtrack_points)
    BY <1>2, SMTT(30)
  <2>2. QED
    BY <1>2, <2>1, SameSeq, Zenon
<1>4. solver' = solver
  <2>1. /\ IsSeq(solver) /\ IsSeq(solver') /\ Len(solver) \in Nat /\ Len(solver) > 0
        /\ Top(solver) \subseteq Inputs
    BY InSeq, SolverLevels, Zenon DEF Base
  <2>2. /\ Len(solver') = Len(solver) + 0
        /\ \A k \in 1..(Len(solver) - 1) : solver'[k] = solver[k]
        /\ solver'[Len(solver) + 0] = Top(solver) \cap Inputs
    BY <1>1, ForkedLevels, Zenon
  <2>3. Len(solver') = Len(solver) /\ solver'[Len(solver)] = solver[Len(solver)]
    <3>1. Len(solver) + 0 = Len(solver) /\ Top(solver) \cap Inputs = Top(solver)
      BY <2>1, SMTT(30)
    <3>2. QED
      BY <2>2, <3>1, Zenon DEF Top
  <2>4. \A k \in 1..Len(solver) : k \in 1..(Len(solver) - 1) \/ k = Len(solver)
    BY <2>1, SMTT(30)
  <2>5. \A k \in 1..Len(solver) : solver'[k] = solver[k]
    BY <2>2, <2>3, <2>4, Zenon
  <2>6. QED
    BY <2>1, <2>3, <2>5, SameSeq, Zenon
<1>5. Sound(ctl')
  BY <1>1, FormsSound, Zenon
<1>6. QED
  BY <1>1, <1>3, <1>4, <1>5, QuietKeeps, Zenon

LEMMA CondBrExplores ==
    ASSUME Base, Base', CondBr
    PROVE  Answers' /\ Explores
<1> DEFINE b == NonZero(OperandToBV(Instr.args[1]))
           z == IsZero(OperandToBV(Instr.args[1]))
<1>1. /\ ctl.at = "exec" /\ UNCHANGED <<fresh, yielded, excluded>>
      /\ \/ /\ SatWithExtraConstraint(solver, b) /\ SatWithExtraConstraint(solver, z)
            /\ Fork(Instr.true_dest, b, <<Alt(Instr.false_dest, z)>>)
         \/ /\ SatWithExtraConstraint(solver, b) /\ ~SatWithExtraConstraint(solver, z)
            /\ Fork(Instr.true_dest, b, <<>>)
         \/ /\ ~SatWithExtraConstraint(solver, b) /\ SatWithExtraConstraint(solver, z)
            /\ Fork(Instr.false_dest, z, <<>>)
         \/ /\ ~SatWithExtraConstraint(solver, b) /\ ~SatWithExtraConstraint(solver, z)
            /\ ctl' = Backtracking("dead")
            /\ UNCHANGED state
  BY Zenon DEF CondBr, At
<1>2. b \in SUBSET Inputs /\ z = Inputs \ b
  BY Zenon DEF NonZero, IsZero
<1> HIDE DEF b, z
<1>3. Going(ctl) /\ Mode = "running"
  BY <1>1, ModeGoing, Zenon DEF Going
<1>4. /\ SatWithExtraConstraint(solver, b) <=> Exploration!SatWithExtraConstraint(solver, b)
      /\ SatWithExtraConstraint(solver, z) <=> Exploration!SatWithExtraConstraint(solver, Inputs \ b)
  BY <1>2, SatIs, Zenon
<1>5. CASE Answers' /\ Exploration!CondBr(b)
  BY <1>2, <1>5, Zenon DEF Explores, Exploration!Next
<1>6. CASE /\ SatWithExtraConstraint(solver, b) /\ SatWithExtraConstraint(solver, z)
           /\ Fork(Instr.true_dest, b, <<Alt(Instr.false_dest, z)>>)
  <2> DEFINE alts == <<Alt(Instr.false_dest, z)>>
             cs   == <<z>>
  <2>1. /\ IsSeq(alts) /\ Len(alts) = 1 /\ alts[1] = Alt(Instr.false_dest, z)
        /\ IsSeq(cs) /\ Len(cs) = 1 /\ cs[1] = z
    BY SingleIsSeq, Zenon
  <2>2. \A j \in 1..1 : j = 1
    BY SMTT(30)
  <2>3. \A j \in 1..Len(alts) : cs[j] = alts[j].constraint
    BY <2>1, <2>2, SMTT(30) DEF Alt
  <2> HIDE DEF alts, cs
  <2>4. Fork(Instr.true_dest, b, alts)
    BY <1>6, Zenon DEF alts
  <2>5. Answers' /\ Exploration!Fork(b, cs)
    BY <1>1, <1>3, <2>1, <2>3, <2>4, ForkExplores, Zenon
  <2>6. Exploration!Fork(b, <<Inputs \ b>>)
    BY <1>2, <2>5, Zenon DEF cs
  <2>7. Exploration!CondBr(b)
    BY <1>3, <1>4, <1>6, <2>6, Zenon DEF Exploration!CondBr
  <2>8. QED
    BY <1>5, <2>5, <2>7, Zenon
<1>7. CASE /\ SatWithExtraConstraint(solver, b) /\ ~SatWithExtraConstraint(solver, z)
           /\ Fork(Instr.true_dest, b, <<>>)
  <2>1. \A j \in 1..Len(<<>>) : <<>>[j] = <<>>[j].constraint
    BY EmptyIsSeq, SMTT(30)
  <2>2. Answers' /\ Exploration!Fork(b, <<>>)
    BY <1>1, <1>3, <1>7, <2>1, EmptyIsSeq, ForkExplores, Zenon
  <2>3. Exploration!CondBr(b)
    BY <1>3, <1>4, <1>7, <2>2, Zenon DEF Exploration!CondBr
  <2>4. QED
    BY <1>5, <2>2, <2>3, Zenon
<1>8. CASE /\ ~SatWithExtraConstraint(solver, b) /\ SatWithExtraConstraint(solver, z)
           /\ Fork(Instr.false_dest, z, <<>>)
  <2>1. \A j \in 1..Len(<<>>) : <<>>[j] = <<>>[j].constraint
    BY EmptyIsSeq, SMTT(30)
  <2>2. Answers' /\ Exploration!Fork(z, <<>>)
    BY <1>1, <1>3, <1>8, <2>1, EmptyIsSeq, ForkExplores, Zenon
  <2>3. Exploration!CondBr(b)
    BY <1>2, <1>3, <1>4, <1>8, <2>2, Zenon DEF Exploration!CondBr
  <2>4. QED
    BY <1>5, <2>2, <2>3, Zenon
<1>9. CASE /\ ~SatWithExtraConstraint(solver, b) /\ ~SatWithExtraConstraint(solver, z)
           /\ ctl' = Backtracking("dead")
           /\ UNCHANGED state
  <2>1. Top(solver) \subseteq Inputs /\ Top(solver) \cap b = {} /\ Top(solver) \cap z = {}
    BY <1>9, SatIs, SolverLevels, Zenon
  <2>2. ~Sat(solver)
    BY <1>2, <2>1, Zenon DEF Sat
  <2>3. Going(ctl')
    BY <1>9, FormsSound, Zenon
  <2>4. QED
    BY <1>1, <1>3, <1>9, <2>2, <2>3, QuietKeeps, Zenon DEF state
<1>10. QED
  BY <1>1, <1>6, <1>7, <1>8, <1>9, Zenon

\* The exploration switches on that many ways, which exclude each other.
SwitchesOn(m) ==
    \E cs \in [1..m -> SUBSET Inputs] :
        /\ \A j \in 1..m : cs[j] # {}
        /\ \A j, k \in 1..m : j # k => cs[j] \cap cs[k] = {}
        /\ Exploration!Switch(cs)

LEMMA SwitchMoves ==
    ASSUME Base, Base', Switch
    PROVE  Answers' /\ (Explores \/ \E m \in Nat : m >= 1 /\ SwitchesOn(m))
<1> DEFINE v == OperandToBV(Instr.args[1])
           feasible == FeasibleCases(v, Instr.dests)
<1>1. /\ ctl.at = "exec" /\ Instr.op = "switch" /\ UNCHANGED <<fresh, yielded, excluded>>
      /\ \/ Fork(Instr.default_dest, Inputs, <<>>)
         \/ \E n \in 1..Len(Instr.dests) : \E order \in [1..n -> feasible] :
               LET alts == SwitchAlts(v, Instr, order)
               IN  Lists(order, feasible) /\ Fork(alts[1].loc.bb, alts[1].constraint, Tail(alts))
  BY Zenon DEF Switch, At
<1>2. Going(ctl) /\ Mode = "running"
  BY <1>1, ModeGoing, Zenon DEF Going
<1>3. /\ Len(Instr.dests) \in Nat
      /\ \A j, k \in 1..Len(Instr.dests) : j # k => Instr.dests[j].val # Instr.dests[k].val
  <2>1. scenario \in Scenarios /\ IsLoc(scenario.program, cur_loc) /\ Instr = InstrIn(scenario.program, cur_loc)
    BY InstrHere, Zenon DEF Base, program
  <2>2. Instr.op = "switch"
    BY <1>1, Zenon
  <2> DEFINE ins == InstrIn(scenario.program, cur_loc)
  <2>3. ins.op = "switch" =>
           /\ Len(ins.dests) \in Nat
           /\ \A j, k \in 1..Len(ins.dests) : j # k => ins.dests[j].val # ins.dests[k].val
    BY <2>1, LabelsFormed, Zenon
  <2>4. QED
    BY <2>1, <2>2, <2>3, Zenon
<1>4. CASE Fork(Instr.default_dest, Inputs, <<>>)
  BY <1>1, <1>2, <1>4, JumpExplores, Zenon
<1>5. ASSUME NEW n \in 1..Len(Instr.dests), NEW order \in [1..n -> feasible],
             Lists(order, feasible),
             LET alts == SwitchAlts(v, Instr, order)
             IN  Fork(alts[1].loc.bb, alts[1].constraint, Tail(alts))
      PROVE  Answers' /\ \E k \in Nat : k >= 1 /\ SwitchesOn(k)
  <2> DEFINE alts == SwitchAlts(v, Instr, order)
             m    == Len(alts)
             cs   == [j \in 1..m |-> alts[j].constraint]
  <2>1. n \in Nat /\ n >= 1 /\ order \in [1..n -> feasible]
    BY <1>3, SMTT(30)
  <2>2. AreAlts(alts, v, Instr, order, n, DefaultConstraint(v, Instr.dests))
    BY <2>1, SwitchAltsAre, Zenon
  <2>3. Fork(alts[1].loc.bb, alts[1].constraint, Tail(alts))
    BY <1>5, Zenon
  <2> HIDE DEF alts, v
  <2>4. IsSeq(alts) /\ m \in Nat /\ m >= 1
    BY <2>1, <2>2, AltsShape, Zenon
  <2>5. /\ \A j \in 1..m : alts[j].constraint \subseteq Inputs
        /\ \A j \in 1..m : Top(solver) \cap alts[j].constraint # {}
        /\ \A j, k \in 1..m : j # k => alts[j].constraint \cap alts[k].constraint = {}
        /\ \A i \in Top(solver) : \E j \in 1..m : i \in alts[j].constraint
    <3>1. Lists(order, FeasibleCases(v, Instr.dests)) /\ order \in [1..n -> FeasibleCases(v, Instr.dests)]
      BY <1>5, <2>1, Zenon
    <3>2. QED
      BY <1>3, <2>1, <2>2, <3>1, SwitchWaysAre, ZenonT(30) DEF m
  <2> HIDE DEF m
  <2>6. \A j \in 1..m : cs[j] = alts[j].constraint
    BY Zenon
  <2>7. cs \in [1..m -> SUBSET Inputs]
    BY <2>5, Zenon
  <2>8. IsSeq(cs) /\ Len(cs) = m
    BY <2>4, FcnIsSeq, Zenon
  <2> HIDE DEF cs
  <2>9. /\ \A j \in 1..m : cs[j] # {}
        /\ \A j, k \in 1..m : j # k => cs[j] \cap cs[k] = {}
    <3>1. ASSUME NEW j \in 1..m
          PROVE  cs[j] # {}
      <4>1. Top(solver) \cap cs[j] # {}
        BY <2>5, <2>6, Zenon
      <4>2. QED
        BY <4>1, Zenon
    <3>2. ASSUME NEW j \in 1..m, NEW k \in 1..m, j # k
          PROVE  cs[j] \cap cs[k] = {}
      <4>1. cs[j] = alts[j].constraint /\ cs[k] = alts[k].constraint
        BY <2>6, Zenon
      <4>2. alts[j].constraint \cap alts[k].constraint = {}
        BY <2>5, <3>2, Zenon
      <4>3. QED
        BY <4>1, <4>2, Zenon
    <3>3. QED
      BY <3>1, <3>2, Zenon
  <2>10. Exploration!SwitchWays(cs)
    <3>1. ASSUME NEW j \in 1..m
          PROVE  Exploration!SatWithExtraConstraint(solver, cs[j])
      <4>1. Top(solver) \cap cs[j] # {}
        BY <2>5, <2>6, SMTT(30)
      <4>2. QED
        BY <4>1, SatIs, Zenon
    <3>2. \A j, k \in 1..m : j # k => cs[j] \cap cs[k] = {}
      BY <2>5, <2>6, Zenon
    <3>3. \A i \in Exploration!Top(solver) : \E j \in 1..m : i \in cs[j]
      <4>1. Exploration!Top(solver) = Top(solver)
        BY Zenon DEF Exploration!Top, Top
      <4>2. QED
        BY <2>5, <2>6, <4>1, SMTT(30)
    <3>4. QED
      BY <2>8, <3>1, <3>2, <3>3, Zenon DEF Exploration!SwitchWays
  <2>11. /\ IsSeq(Tail(alts)) /\ Len(Tail(alts)) = m - 1
         /\ IsSeq(Tail(cs)) /\ Len(Tail(cs)) = m - 1
         /\ \A j \in 1..(m - 1) : Tail(cs)[j] = Tail(alts)[j].constraint
    <3>1. Len(alts) = m /\ Len(alts) > 0 /\ Len(cs) > 0
      BY <2>4, <2>8, SMTT(30) DEF m
    <3>2. /\ IsSeq(Tail(alts)) /\ Len(Tail(alts)) = m - 1
          /\ \A j \in 1..(m - 1) : Tail(alts)[j] = alts[j + 1]
      BY <2>4, <3>1, Tailed, Zenon
    <3>3. /\ IsSeq(Tail(cs)) /\ Len(Tail(cs)) = m - 1
          /\ \A j \in 1..(m - 1) : Tail(cs)[j] = cs[j + 1]
      BY <2>8, <3>1, Tailed, Zenon
    <3>4. \A j \in 1..(m - 1) : j + 1 \in 1..m
      BY <2>4, SMTT(30)
    <3>5. QED
      BY <2>6, <3>2, <3>3, <3>4, Zenon
  <2>12. cs[1] = alts[1].constraint
    <3>1. 1 \in 1..m
      BY <2>4, SMTT(30)
    <3>2. QED
      BY <2>6, <3>1, Zenon
  <2>13. Answers' /\ Exploration!Fork(cs[1], Tail(cs))
    <3>1. Fork(alts[1].loc.bb, cs[1], Tail(alts))
      BY <2>3, <2>12, Zenon
    <3>2. QED
      BY <1>1, <1>2, <2>11, <3>1, ForkExplores, Zenon
  <2>14. Len(cs) > 0
    BY <2>4, <2>8, SMTT(30)
  <2>15. Exploration!Switch(cs)
    BY <1>2, <2>10, <2>13, <2>14, Zenon DEF Exploration!Switch
  <2>16. QED
    BY <2>4, <2>7, <2>9, <2>13, <2>15, Zenon DEF SwitchesOn
<1>6. QED
  BY <1>1, <1>4, <1>5, Zenon

LEMMA BrExplores ==
    ASSUME Base, Base', Br
    PROVE  Answers' /\ Explores
<1>1. ctl.at = "exec" /\ UNCHANGED <<fresh, yielded, excluded>> /\ Fork(Instr.dest, Inputs, <<>>)
  BY Zenon DEF Br, At
<1>2. QED
  BY <1>1, JumpExplores, Zenon DEF Going
-----------------------------------------------------------------------------
(* Every step.                                                               *)

LEMMA InputsExist == Inputs # {}
<1>1. 0 \in Val
  BY ValuesAssumption, SMTT(30) DEF Val
<1>2. [s \in Sym |-> 0] \in Inputs
  BY <1>1, Zenon DEF Inputs
<1>3. QED
  BY <1>2, Zenon

LEMMA EmptyCardinality == Cardinality({}) = 0
BY Zenon DEF Cardinality

\* Every set of numbers has a least one.
LeastExists == \A T : T \subseteq Nat /\ T # {} => \E m \in T : \A k \in T : m <= k

\* A function pointer without a possible address is on an impossible path.
LEMMA PointerPossible ==
    ASSUME LeastExists, Base, NEW bv, \A i \in Inputs : bv[i] \in Val, FunctionPtrAddrs(bv) = {}
    PROVE  ~Sat(solver)
<1> DEFINE all == {bv[i] : i \in Top(solver)}
<1>1. Top(solver) \subseteq Inputs
  BY SolverLevels, Zenon
<1>2. PossibleSolutions(bv, 1) = {}
  BY InputsExist, Zenon DEF FunctionPtrAddrs
<1>3. all \subseteq Nat
  BY <1>1, ValuesAssumption, SMTT(30) DEF Val
<1>4. CASE all # {}
  <2>1. PICK m \in all : \A k \in all : m <= k
    BY <1>3, <1>4, Zenon DEF LeastExists
  <2>2. {w \in all : w < m} = {}
    <3>1. \A w, v \in Nat : v <= w => ~(w < v)
      BY SMTT(30)
    <3> HIDE DEF all
    <3>2. QED
      BY <1>3, <2>1, <3>1, Zenon
  <2>3a. Cardinality({w \in all : w < m}) = 0
    BY <2>2, EmptyCardinality, Zenon
  <2>3. Cardinality({w \in all : w < m}) <= 1
    BY <2>3a, SMTT(30)
  <2>4. m \in PossibleSolutions(bv, 1)
    BY <2>1, <2>3, Zenon DEF PossibleSolutions
  <2>5. QED
    BY <1>2, <2>4, Zenon
<1>5. QED
  BY <1>4, Zenon DEF Sat

LEMMA UnresolvedExplores ==
    ASSUME Base, Base', OperandsTyped, CallUnresolved, LeastExists
    PROVE  Answers' /\ Explores
<1> DEFINE err == ResolveFunction(Instr.callee).err
<1>1. /\ ctl.at = "exec" /\ Instr.op \in {"call", "invoke"}
      /\ ctl' = CallErr(Instr, err)
      /\ UNCHANGED <<solver, backtrack_points, path, yielded, excluded>>
  BY Zenon DEF CallUnresolved, AtCall, At
<1>2. Going(ctl)
  BY <1>1, Zenon DEF Going
<1>3. CASE err # "Unsat"
  <2>1. Sound(ctl')
    BY <1>1, <1>3, FormsSound, Zenon
  <2>2. QED
    BY <1>1, <1>2, <2>1, QuietKeeps, Zenon
<1>4. CASE err = "Unsat"
  <2>1. Instr.callee.kind # "fn"
    BY Zenon DEF CallUnresolved, Resolves, ResolveFunction
  <2>2. FunctionPtrAddrs(OperandToBV(Instr.callee)) = {}
    <3>1. ~("name" \in DOMAIN ResolveFunction(Instr.callee))
      BY Zenon DEF CallUnresolved, Resolves
    <3>2. QED
      BY <1>4, <2>1, <3>1, Zenon DEF ResolveFunction
  <2>3. \A i \in Inputs : OperandToBV(Instr.callee)[i] \in Val
    BY <1>1, <2>1, Zenon DEF OperandsTyped, IsValue
  <2>4. ~Sat(solver)
    BY <2>2, <2>3, PointerPossible, Zenon
  <2>5. Going(ctl')
    BY <1>1, FormsSound, Zenon
  <2>6. QED
    BY <1>1, <1>2, <2>4, <2>5, QuietKeeps, Zenon
<1>5. QED
  BY <1>3, <1>4, Zenon

\* There are no more ways than inputs, when they exclude each other.
WaysFit ==
    \A m \in Nat : m >= 1 =>
        \A cs \in [1..m -> SUBSET Inputs] :
            /\ \A j \in 1..m : cs[j] # {}
            /\ \A j, k \in 1..m : j # k => cs[j] \cap cs[k] = {}
            => cs \in Ways

LEMMA SwitchExplores ==
    ASSUME Base, Base', Switch, WaysFit
    PROVE  Answers' /\ Explores
<1>1. CASE Explores
  BY <1>1, SwitchMoves, Zenon
<1>2. ASSUME NEW m \in Nat, m >= 1, NEW cs \in [1..m -> SUBSET Inputs],
             \A j \in 1..m : cs[j] # {},
             \A j, k \in 1..m : j # k => cs[j] \cap cs[k] = {},
             Exploration!Switch(cs)
      PROVE  Explores
  <2>1. cs \in Ways
    BY <1>2, Zenon DEF WaysFit
  <2>2. QED
    BY <1>2, <2>1, Zenon DEF Explores, Exploration!Next
<1>3. QED
  BY <1>1, <1>2, SwitchMoves, Zenon DEF SwitchesOn

LEMMA ExplorationStep ==
    ASSUME Base, Base', Answers, OperandsTyped, [Next]_vars, ~Departs \/ UNCHANGED vars,
           LeastExists, WaysFit
    PROVE  Answers' /\ Explores
<1>1. CASE UNCHANGED vars
  <2>1. UNCHANGED <<ctl, fresh, solver, backtrack_points, path, yielded, excluded>>
    BY <1>1, Zenon DEF vars, state
  <2>2. Mode' = Mode
    BY <2>1, Zenon DEF Mode
  <2>3. Answers'
    BY <2>1, <2>2, Zenon DEF Answers
  <2>4. QED
    BY <2>1, <2>2, <2>3, SeenSame, Zenon DEF Explores
<1>2. CASE Next /\ ~Departs
  <2>1. ~DropsAtBound /\ ~InvokeGivesUp /\ ~NoneBecomesUnsat /\ ~SplitsAtNull
    BY <1>2, Zenon DEF Departs
  <2>2. CASE NextCalled
    BY <2>2, CalledExplores, Zenon
  <2>3. CASE NextReturns \/ Backtrack \/ BacktrackFails
    BY <2>3, ReturnsExplores, BacktrackExplores, BacktrackFailsExplores, Zenon
  <2>4. CASE EnterBlock \/ CatchEnter \/ CallReturns
    BY <2>4, EnterExplores, Zenon
  <2>5. CASE CallbackFails \/ DataOp \/ Phi \/ Unsupported \/ CallIgnored \/ CallUnknown \/ CallEntered
             \/ CallMalformed \/ Ret \/ Resume
    BY <2>5, StraightExplores, Zenon
  <2>6. CASE Load \/ Store
    BY <2>1, <2>6, MemoryExplores, Zenon
  <2>7. CASE CallUnresolved
    BY <2>7, UnresolvedExplores, Zenon
  <2>8. CASE CallHooked
    BY <2>1, <2>8, HookedExplores, Zenon
  <2>9. CASE CalleeFails \/ CalleeFinishedElsewhere \/ UnexpectedCallsite \/ FromCurLocEnds
    BY <2>1, <2>9, CalleeEndsExplores, Zenon
  <2>10. CASE InvokeReturns \/ UnwindCallsite
    BY <2>10, InvokeReturnsExplores, UnwindExplores, Zenon
  <2>11. CASE FromCurLocReturns \/ LandingPad
    BY <2>1, <2>11, FromReturnsExplores, PadExplores, Zenon
  <2>12. CASE Br \/ CondBr \/ Switch
    BY <2>12, BrExplores, CondBrExplores, SwitchExplores, Zenon
  <2>13. CASE Panicked
    BY <1>1, <2>13, Zenon DEF Panicked
  <2>14. QED
    BY <1>2, <2>2, <2>3, <2>4, <2>5, <2>6, <2>7, <2>8, <2>9, <2>10, <2>11, <2>12, <2>13, Zenon DEF Next, Step
<1>3. QED
  BY <1>1, <1>2, Zenon

LEMMA ExplorationInit ==
    ASSUME Init
    PROVE  Answers /\ Exploration!Init
<1>1. /\ fresh = TRUE /\ backtrack_points = <<>> /\ solver = <<Inputs>> /\ path = <<>>
      /\ yielded = {} /\ excluded = {} /\ ctl.at = "idle"
  BY Zenon DEF Init, Idle
<1>2. Mode = "fresh"
  BY <1>1, Zenon DEF Mode
<1>3. Points = <<>> /\ SavedNow = <<>>
  BY <1>1, SMTT(30) DEF Points, SavedNow
<1>4. QED
  BY <1>1, <1>2, <1>3, Zenon DEF Answers, Exploration!Init

-----------------------------------------------------------------------------
(* What follows for the consumer from what is proved of the exploration.     *)

Explored == INSTANCE PathExplorationProofs WITH
    Blocks <- Entries,
    Switches <- Ways,
    PathLens <- Nat,
    backtrack_points <- Points,
    mode <- Mode,
    saved <- SavedNow

LEMMA WaysAreSequences == Ways \subseteq Seq(SUBSET Inputs)
<1> SUFFICES ASSUME NEW w \in Ways PROVE w \in Seq(SUBSET Inputs)
  BY Zenon
<1>1. PICK n \in 1..Cardinality(Inputs) : w \in [1..n -> SUBSET Inputs]
  BY Zenon DEF Ways
<1>2. n \in Nat
  BY <1>1, SMTT(30)
<1>3. QED
  BY <1>1, <1>2, FcnInSeq, Zenon

\* The two instances are of one module.
LEMMA SameExploration == ExplorationSpec => Explored!Spec
<1>1. Exploration!Init => Explored!Init
  BY Zenon DEF Exploration!Init, Explored!Init
<1>2. Exploration!vars = Explored!vars /\ Exploration!vars' = Explored!vars'
  BY Zenon DEF Exploration!vars, Explored!vars
<1>3. \A s, c : /\ Exploration!Top(s) = Explored!Top(s) /\ Exploration!AssertIn(s, c) = Explored!AssertIn(s, c)
               /\ Exploration!Pop(s) = Explored!Pop(s) /\ Exploration!Sat(s) = Explored!Sat(s)
               /\ Exploration!SatWithExtraConstraint(s, c) = Explored!SatWithExtraConstraint(s, c)
  BY Zenon DEF Exploration!Top, Explored!Top, Exploration!AssertIn, Explored!AssertIn, Exploration!Pop, Explored!Pop,
         Exploration!Push, Explored!Push, Exploration!Sat, Explored!Sat,
         Exploration!SatWithExtraConstraint, Explored!SatWithExtraConstraint
<1>4. \A c, cs : Exploration!Fork(c, cs) => Explored!Fork(c, cs)
  BY <1>3, Zenon DEF Exploration!Fork, Explored!Fork
<1>5. Exploration!Start => Explored!Start
  BY Zenon DEF Exploration!Start, Explored!Start
<1>6. \A b : Exploration!RecordPathEntry(b) => Explored!RecordPathEntry(b)
  BY Zenon DEF Exploration!RecordPathEntry, Explored!RecordPathEntry
<1>7. \A c : Exploration!Assume(c) => Explored!Assume(c)
  BY <1>3, Zenon DEF Exploration!Assume, Explored!Assume
<1>8. \A c : Exploration!AssertFinal(c) => Explored!AssertFinal(c)
  BY <1>3, Zenon DEF Exploration!AssertFinal, Explored!AssertFinal
<1>9. \A c : Exploration!CondBr(c) => Explored!CondBr(c)
  BY <1>3, <1>4, Zenon DEF Exploration!CondBr, Explored!CondBr
<1>10. \A cs : Exploration!Switch(cs) => Explored!Switch(cs)
  BY <1>3, <1>4, Zenon DEF Exploration!Switch, Explored!Switch, Exploration!SwitchWays, Explored!SwitchWays
<1>11. Exploration!Yield => Explored!Yield
  BY <1>3, Zenon DEF Exploration!Yield, Explored!Yield
<1>12. Exploration!Backtrack => Explored!Backtrack
  BY <1>3, Zenon DEF Exploration!Backtrack, Explored!Backtrack, Exploration!MayBacktrack, Explored!MayBacktrack
<1>13. Exploration!Exhaust => Explored!Exhaust
  BY <1>3, Zenon DEF Exploration!Exhaust, Explored!Exhaust, Exploration!MayBacktrack, Explored!MayBacktrack
<1>14. Exploration!NextAfterNone => Explored!NextAfterNone
  BY <1>2, Zenon DEF Exploration!NextAfterNone, Explored!NextAfterNone
<1>15. Exploration!Next => Explored!Next
  BY <1>5, <1>6, <1>7, <1>8, <1>9, <1>10, <1>11, <1>12, <1>13, <1>14, Zenon DEF Exploration!Next, Explored!Next
<1>16. [Exploration!Next]_(Exploration!vars) => [Explored!Next]_(Explored!vars)
  BY <1>2, <1>15, Zenon
<1>17. QED
  BY <1>1, <1>16, PTL DEF ExplorationSpec, Exploration!Spec, Explored!Spec

-----------------------------------------------------------------------------
(* What needs finite sets and the least element of a set of numbers.         *)

INSTANCE FiniteSetTheorems
INSTANCE WellFoundedInduction

LEMMA LeastNat == LeastExists
<1> SUFFICES ASSUME NEW T, T \subseteq Nat, T # {}
             PROVE  \E m \in T : \A k \in T : m <= k
  BY Zenon DEF LeastExists
<1> DEFINE R == OpToRel(<, Nat)
<1>1. IsWellFoundedOn(R, Nat)
  BY NatLessThanWellFounded, Zenon
<1>2. \A j, k \in Nat : <<j, k>> \in R <=> j < k
  BY Zenon DEF OpToRel
<1> HIDE DEF R
<1>3. PICK m \in T : \A k \in T : ~(<<k, m>> \in R)
  BY <1>1, WFMin, Zenon
<1>4. \A k \in T : ~(k < m)
  BY <1>2, <1>3, Zenon
<1>5. QED
  BY <1>3, <1>4, SMTT(30)

LEMMA EveryWayFits == WaysFit
<1> SUFFICES ASSUME NEW m \in Nat, m >= 1, NEW cs \in [1..m -> SUBSET Inputs],
                    \A j \in 1..m : cs[j] # {},
                    \A j, k \in 1..m : j # k => cs[j] \cap cs[k] = {}
             PROVE  cs \in Ways
  BY Zenon DEF WaysFit
<1> DEFINE f == [j \in 1..m |-> CHOOSE i \in Inputs : i \in cs[j]]
<1>1. \A j \in 1..m : f[j] \in Inputs /\ f[j] \in cs[j]
  <2> TAKE j \in 1..m
  <2>1. \E i \in Inputs : i \in cs[j]
    BY Zenon
  <2>2. QED
    BY <2>1, Zenon
<1>2. f \in [1..m -> Inputs]
  BY <1>1, Zenon
<1> HIDE DEF f
<1>3. \A j, k \in 1..m : f[j] = f[k] => j = k
  <2> SUFFICES ASSUME NEW j \in 1..m, NEW k \in 1..m, f[j] = f[k], j # k
               PROVE  FALSE
    BY Zenon
  <2>1. f[j] \in cs[j] /\ f[j] \in cs[k]
    BY <1>1, Zenon
  <2>2. cs[j] \cap cs[k] = {}
    BY Zenon
  <2>3. QED
    BY <2>1, <2>2, Zenon
<1>4. f \in Injection(1..m, Inputs)
  BY <1>2, <1>3, Zenon DEF Injection, IsInjective
<1>5. Cardinality(1..m) <= Cardinality(Inputs)
  BY <1>4, ValuesAssumption, FS_Injection, Zenon
<1>6. Cardinality(1..m) = m /\ Cardinality(Inputs) \in Nat
  BY ValuesAssumption, FS_Interval, FS_CardinalityType, SMTT(30)
<1>7. m \in 1..Cardinality(Inputs)
  BY <1>5, <1>6, SMTT(30)
<1>8. QED
  BY <1>7, Zenon DEF Ways

-----------------------------------------------------------------------------
(* The engine implements the exploration.                                    *)

\* The engine explores paths the way module PathExploration says, for every
\* program, configuration and set of inputs: every fork of symex_condbr and
\* symex_switch keeps each feasible alternative with its own assertion level,
\* a path is dropped only when its constraints cannot be met,
\* revert_to_backtracking_point resumes the last alternative under exactly its
\* constraints, and None is answered only when nothing is left.  The
\* executions are those of programs that keep to LLVM's dominance and typing
\* rules, without the four steps of Departs.
THEOREM EngineExplores == Spec /\ []OperandsTyped /\ [][~Departs]_vars => ExplorationSpec
<1>1. Init => Answers /\ Exploration!Init
  BY ExplorationInit, Zenon
<1>2. Base /\ Base' /\ Answers /\ OperandsTyped /\ [Next]_vars /\ [~Departs]_vars => Answers' /\ Explores
  BY ExplorationStep, LeastNat, EveryWayFits, Zenon
<1>3. Explores => [Exploration!Next]_(Exploration!vars)
  BY Zenon DEF Explores
<1>4. QED
  BY <1>1, <1>2, <1>3, BaseInvariance, PTL DEF Spec, ExplorationSpec, Exploration!Spec
LEMMA EngineAccounts ==
    Spec /\ []OperandsTyped /\ [][~Departs]_vars => [](Base /\ Answers /\ Explored!InputsAccountedFor)
<1>1. Init => Answers
  BY ExplorationInit, Zenon
<1>2. Base /\ Base' /\ Answers /\ OperandsTyped /\ [Next]_vars /\ [~Departs]_vars => Answers'
  BY ExplorationStep, LeastNat, EveryWayFits, Zenon
<1>3. Explored!Spec => []Explored!InputsAccountedFor
  BY Explored!NoInputLost, WaysAreSequences, Zenon
<1>4. QED
  BY <1>1, <1>2, <1>3, BaseInvariance, EngineExplores, SameExploration, PTL DEF Spec

\* `next()` never reports an input twice: when it is about to answer Some(_),
\* no input of the path it reports was on a path reported before.
THEOREM EngineReportsOnce == Spec /\ []OperandsTyped /\ [][~Departs]_vars => []ReportedOnce
<1>1. Base /\ Answers /\ Explored!InputsAccountedFor => ReportedOnce
  <2> SUFFICES ASSUME Base, Explored!InputsAccountedFor, ctl.at = "return", ctl.res # NoPath
               PROVE  Top(solver) \cap yielded = {}
    BY Zenon DEF ReportedOnce
  <2>1. Mode = "running"
    BY Zenon DEF Mode, Base, Formed
  <2>2. yielded \cap Explored!Remaining = {}
    BY Zenon DEF Explored!InputsAccountedFor
  <2>3. Top(solver) \subseteq Explored!Remaining
    BY <2>1, Zenon DEF Explored!Remaining, Explored!Top, Top
  <2>4. QED
    BY <2>2, <2>3, Zenon
<1>2. QED
  BY <1>1, EngineAccounts, PTL

\* When `next()` answers None, every input was on some path it reported, or was
\* ruled out by an llvm.assume that the engine trusts: no path is lost in a
\* fork, in a call, on the way back to a caller or in a landing pad.
THEOREM EngineExhausts == Spec /\ []OperandsTyped /\ [][~Departs]_vars => []ExhaustiveAtNone
<1>1. Base /\ Answers /\ Explored!InputsAccountedFor => ExhaustiveAtNone
  <2> SUFFICES ASSUME Base, Answers, Explored!InputsAccountedFor, Answered, ctl.res = NoPath
               PROVE  yielded \cup excluded = Inputs
    BY Zenon DEF ExhaustiveAtNone
  <2>1. Mode = "done" /\ Len(backtrack_points) = 0
    BY SMTT(60) DEF Mode, Answered, NoPath, Answers
  <2>2. Len(Points) = 0
    BY <2>1, PointsLen, Zenon
  <2>3. Explored!Remaining = {}
    BY <2>1, <2>2, SMTT(30) DEF Explored!Remaining, Explored!Pending
  <2>4. QED
    BY <2>3, Zenon DEF Explored!InputsAccountedFor
<1>2. QED
  BY <1>1, EngineAccounts, PTL

\* The engine is the iterator that the consumer is promised: `next()` answers
\* with paths that partition the inputs, and with None once they are used up.
THEOREM EngineIterates == Spec /\ []OperandsTyped /\ [][~Departs]_vars => Explored!IteratorSpec
<1>1. Explored!Spec => Explored!IteratorSpec
  BY Explored!ImplementsIterator, WaysAreSequences, Zenon
<1>2. QED
  BY <1>1, EngineExplores, SameExploration, PTL
=============================================================================
