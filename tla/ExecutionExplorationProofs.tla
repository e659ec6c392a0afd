-------------------- MODULE ExecutionExplorationProofs --------------------
(***************************************************************************)
(* The engine explores paths the way PathExploration says, for every       *)
(* program: one lemma for each action up to its forks and backtracking.    *)
(***************************************************************************)
EXTENDS ExecutionProofs, ExecutionRefinement
-----------------------------------------------------------------------------
(* The levels of the solver.                                                 *)

LEMMA SolverLevels ==
    ASSUME Base
    PROVE  /\ Len(backtrack_points) \in Nat /\ Len(path) \in Nat
           /\ solver \in Seq(SUBSET Inputs) /\ IsSeq(solver)
           /\ Len(solver) \in Nat /\ Len(solver) > 0
           /\ Len(solver) = Len(backtrack_points) + 1 /\ Len(solver) - 1 = Len(backtrack_points)
           /\ \A k \in 1..Len(solver) : solver[k] \subseteq Inputs
           /\ Top(solver) \subseteq Inputs
<1>1. Len(backtrack_points) \in Nat /\ Len(path) \in Nat
  BY SeqShape, Zenon DEF Base, ArePoints
<1>2. solver \in Seq(SUBSET Inputs) /\ Len(solver) = Len(backtrack_points) + 1
  BY Zenon DEF Base
<1>3. \A k \in 1..Len(solver) : solver[k] \subseteq Inputs
  BY <1>2, SeqElement, SMTT(30)
<1>4. /\ Len(solver) \in Nat /\ Len(solver) > 0 /\ Len(solver) - 1 = Len(backtrack_points)
      /\ Len(solver) \in 1..Len(solver)
  BY <1>1, <1>2, SMTT(30)
<1>5. Top(solver) \subseteq Inputs
  BY <1>3, <1>4, Zenon DEF Top
<1>6. QED
  BY <1>1, <1>2, <1>3, <1>4, <1>5, InSeq, Zenon

\* The levels once m alternatives are kept: one more each, all alike, and the
\* last one constrained.
LEMMA ForkedLevels ==
    ASSUME Base, NEW c, NEW m \in Nat, solver' = AssertIn(PushTimes(solver, m), c)
    PROVE  /\ Len(solver') = Len(solver) + m
           /\ \A k \in 1..(Len(solver) - 1) : solver'[k] = solver[k]
           /\ \A k \in Len(solver)..(Len(solver) + m - 1) : solver'[k] = Top(solver)
           /\ solver'[Len(solver) + m] = Top(solver) \cap c
<1> DEFINE n == Len(solver)
           t == PushTimes(solver, m)
<1>1. solver \in Seq(SUBSET Inputs) /\ n \in Nat /\ n > 0
  BY SolverLevels, Zenon DEF Base
<1>2. /\ t \in Seq(SUBSET Inputs) /\ Len(t) = n + m
      /\ \A k \in 1..n : t[k] = solver[k]
      /\ \A k \in n..(n + m) : t[k] = Top(solver)
  BY <1>1, Pushed, Zenon
<1>3. Len(t) > 0 /\ solver' = AssertIn(t, c)
  BY <1>1, <1>2, SMTT(30)
<1> HIDE DEF t
<1>4. /\ Len(solver') = n + m
      /\ \A k \in 1..(n + m - 1) : solver'[k] = t[k]
      /\ Top(solver') = Top(t) \cap c
  BY <1>2, <1>3, Asserted, SMTT(30)
<1>5. \A k \in 1..(n - 1) : k \in 1..n /\ k \in 1..(n + m - 1)
  BY <1>1, SMTT(30)
<1>6. \A k \in n..(n + m - 1) : k \in n..(n + m) /\ k \in 1..(n + m - 1)
  BY <1>1, SMTT(30)
<1>7. n + m \in n..(n + m)
  BY <1>1, SMTT(30)
<1>8. QED
  BY <1>2, <1>4, <1>5, <1>6, <1>7, Zenon DEF Top

\* What the solver is asked: whether some input left satisfies c.
LEMMA SatLeft ==
    ASSUME Base, NEW c
    PROVE  SatWithExtraConstraint(solver, c) <=> Top(solver) \cap c # {}
<1>1. solver \in Seq(SUBSET Inputs) /\ Len(solver) > 0 /\ Len(solver) \in Nat
  BY SolverLevels, Zenon
<1>2. Top(solver) \in SUBSET Inputs
  BY SolverLevels, Zenon
<1>3. Push(solver) \in Seq(SUBSET Inputs) /\ Len(Push(solver)) = Len(solver) + 1 /\ Top(Push(solver)) = Top(solver)
  BY <1>1, <1>2, SMTT(30) DEF Push, Top
<1>4. Top(AssertIn(Push(solver), c)) = Top(solver) \cap c
  BY <1>1, <1>3, Asserted, SMTT(30)
<1>5. QED
  BY <1>4, Zenon DEF SatWithExtraConstraint, Sat

-----------------------------------------------------------------------------
(* What the answers mean, as long as the engine does not depart from the     *)
(* exploration.                                                              *)

\* A path is given up only when it is impossible, and None is answered only
\* when no backtracking point is left.
Answers ==
    /\ ctl.at = "backtrack" /\ ctl.why = "dead" => ~Sat(solver)
    /\ ctl.at = "return" /\ ctl.res.tag = "Err" /\ ctl.res.err = "Unsat" => ~Sat(solver)
    /\ Mode = "done" => Len(backtrack_points) = 0

\* ctl is inside `next()`, on a path that goes on or is about to be given up.
Going(c) ==
    /\ c.at # "idle"
    /\ ~(c.at = "return" /\ c.res.tag = "None")
    /\ ~(c.at = "backtrack" /\ c.why \in {"next", "none"})

\* The path is not given up, nor has it been found to be impossible.
Sound(c) ==
    /\ Going(c)
    /\ ~(c.at = "backtrack" /\ c.why = "dead")
    /\ ~(c.at = "return" /\ c.res.tag = "Err" /\ c.res.err = "Unsat")

LEMMA ModeGoing ==
    ASSUME Base
    PROVE  Going(ctl) => ~fresh /\ Mode = "running"
BY Zenon DEF Base, Going, Mode

LEMMA ModeGoingNext ==
    ASSUME Base, Base'
    PROVE  Going(ctl)' => Mode' = "running"
BY Zenon DEF Base, Going, Mode

LEMMA FormsSound ==
    /\ Sound(Enter) /\ Sound(Exec) /\ Sound(Panic)
    /\ \A x : Sound(Catch(x)) /\ Sound(Unwind(x))
    /\ \A e : e # "Unsat" => Sound(Returning(Err(e))) /\ Sound(InstrErr(e))
    /\ \A e, ins : e # "Unsat" => Sound(CallErr(ins, e))
    /\ \A bv : Sound(Returning(Return(bv))) /\ Sound(Returning(Throw(bv)))
    /\ Sound(Returning(ReturnVoid)) /\ Sound(Returning(Abort))
    /\ \A e : Going(CatchErr(e)) /\ Going(HandleErr(e)) /\ Going(InstrErr(e)) /\ Going(Returning(Err(e)))
    /\ \A e, ins : Going(CallErr(ins, e))
    /\ Going(Backtracking("dead"))
    /\ ctl.at # "pad" => \A e : e # "Unsat" => Sound(HandleErr(e))
<1> USE DEF Sound, Going
<1>1. Sound(Enter) /\ Sound(Exec) /\ Sound(Panic) /\ \A x : Sound(Catch(x)) /\ Sound(Unwind(x))
  BY Zenon DEF Enter, Exec, Panic, Catch, Unwind
<1>2. \A e : e # "Unsat" => Sound(Returning(Err(e)))
  BY Zenon DEF Returning, Err
<1>3. \A e : Going(Returning(Err(e)))
  BY Zenon DEF Returning, Err
<1>4. Going(Backtracking("dead"))
  BY Zenon DEF Backtracking
<1>5. /\ \A bv : Sound(Returning(Return(bv))) /\ Sound(Returning(Throw(bv)))
      /\ Sound(Returning(ReturnVoid)) /\ Sound(Returning(Abort))
  BY Zenon DEF Returning, Return, Throw, ReturnVoid, Abort
<1> HIDE DEF Sound, Going
<1>6. \A e : e # "Unsat" => Sound(InstrErr(e))
  BY <1>2, Zenon DEF InstrErr
<1>7. \A e : Going(InstrErr(e)) /\ Going(CatchErr(e))
  BY <1>3, <1>4, Zenon DEF InstrErr, CatchErr
<1>8. \A e : Going(HandleErr(e))
  BY <1>7, Zenon DEF HandleErr
<1>9. /\ \A e, ins : e # "Unsat" => Sound(CallErr(ins, e))
      /\ \A e, ins : Going(CallErr(ins, e))
  BY <1>2, <1>3, <1>6, <1>7, Zenon DEF CallErr
<1>10. ctl.at # "pad" => \A e : e # "Unsat" => Sound(HandleErr(e))
  BY <1>6, Zenon DEF HandleErr
<1> QED
  BY <1>1, <1>2, <1>3, <1>4, <1>5, <1>6, <1>7, <1>8, <1>9, <1>10, Zenon

\* A step to a sound point keeps the answers.
LEMMA SoundKeeps ==
    ASSUME Sound(ctl)', ~fresh'
    PROVE  Answers'
BY Zenon DEF Sound, Going, Answers, Mode

\* So does a step that leaves the constraints of an impossible path alone.
LEMMA DeadKeeps ==
    ASSUME Going(ctl)', ~fresh', ~Sat(solver)'
    PROVE  Answers'
BY Zenon DEF Going, Answers, Mode

\* A step of the exploration, or one that it does not see.
Explores == Exploration!Next \/ UNCHANGED Exploration!vars

LEMMA SeenSame ==
    ASSUME UNCHANGED <<solver, backtrack_points, path, yielded, excluded>>, Mode' = Mode
    PROVE  UNCHANGED Exploration!vars
BY Zenon DEF Exploration!vars, Points, SavedNow

\* A step that only moves on, or that meets an impossible path.
LEMMA QuietKeeps ==
    ASSUME Base, Base', Going(ctl),
           UNCHANGED <<solver, backtrack_points, path, yielded, excluded>>,
           Sound(ctl') \/ (Going(ctl') /\ ~Sat(solver))
    PROVE  Answers' /\ Explores
<1>1. Going(ctl') /\ Mode = "running" /\ Mode' = "running"
  BY ModeGoing, ModeGoingNext, Zenon DEF Sound
<1>2. UNCHANGED Exploration!vars
  BY <1>1, SeenSame, Zenon
<1>3. ~fresh'
  BY <1>1, Zenon DEF Base, Going
<1>4. Answers'
  <2>1. CASE Sound(ctl')
    BY <1>3, <2>1, SoundKeeps, Zenon
  <2>2. CASE Going(ctl') /\ ~Sat(solver)
    <3>1. ~Sat(solver)'
      BY <2>2, Zenon DEF Sat, Top
    <3>2. QED
      BY <1>3, <2>2, <3>1, DeadKeeps, Zenon
  <2>3. QED
    BY <2>1, <2>2, Zenon
<1>5. QED
  BY <1>2, <1>4, Zenon DEF Explores

LEMMA ContinueSound ==
    ASSUME NEW ins, NEW loc, NEW vm, NEW default, ContinueAfter(ins, loc, vm, default)
    PROVE  Sound(ctl') \/ (default /\ ctl' = Returning(NoPath))
BY FormsSound, Zenon DEF ContinueAfter

LEMMA AssignSound ==
    ASSUME NEW ins, NEW loc, NEW vm, NEW bv, NEW default, AssignCallResult(ins, loc, vm, bv, default)
    PROVE  Sound(ctl') \/ (default /\ ctl' = Returning(NoPath))
BY ContinueSound, FormsSound, Zenon DEF AssignCallResult

LEMMA CatchSound ==
    ASSUME NEW vm, NEW ptr, NEW loc, NEW bb, CatchAtExceptionLabel(vm, ptr, loc, bb)
    PROVE  Sound(ctl')
BY FormsSound, Zenon DEF CatchAtExceptionLabel

LEMMA StraightExplores ==
    ASSUME Base, Base',
           \/ CallbackFails \/ DataOp \/ Phi \/ Unsupported \/ CallIgnored \/ CallUnknown
           \/ CallMalformed \/ CallEntered \/ Ret \/ Resume
    PROVE  Answers' /\ Explores
<1>1. /\ ctl.at = "exec"
      /\ UNCHANGED <<solver, backtrack_points, path, yielded, excluded>>
  BY Zenon DEF CallbackFails, DataOp, Phi, Unsupported, CallIgnored, CallUnknown, CallMalformed, CallEntered,
         Ret, Resume, AtCall, At, state
<1>2. Sound(ctl)
  BY <1>1, Zenon DEF Sound, Going
<1>3. \A n, bv : RecordBVResult(n, bv) => Sound(ctl')
  BY <1>1, <1>2, FormsSound, Zenon DEF RecordBVResult
<1>4. CASE CallbackFails \/ Unsupported \/ CallUnknown \/ CallMalformed
  <2>1. Sound(ctl')
    BY <1>4, FormsSound, Zenon DEF CallbackFails, Unsupported, CallUnknown, CallMalformed
  <2>2. QED
    BY <1>1, <1>2, <2>1, QuietKeeps, Zenon DEF Sound
<1>5. CASE DataOp \/ Phi
  <2>1. Sound(ctl')
    BY <1>1, <1>3, <1>5, FormsSound, Zenon DEF DataOp, Phi, ChoosePhi
  <2>2. QED
    BY <1>1, <1>2, <2>1, QuietKeeps, SMTT(30) DEF Sound
<1>6. CASE CallIgnored
  <2>1. \/ \E ins, loc, vm : ContinueAfter(ins, loc, vm, FALSE)
        \/ \E ins, loc, vm, bv : AssignCallResult(ins, loc, vm, bv, FALSE)
        \/ ctl' = CallErr(Instr, "LoopBoundExceeded")
    BY <1>6, Zenon DEF CallIgnored
  <2>2. Sound(ctl')
    BY <2>1, ContinueSound, AssignSound, FormsSound, Zenon
  <2>3. QED
    BY <1>1, <1>2, <2>2, QuietKeeps, SMTT(30) DEF Sound
<1>7. CASE CallEntered
  <2>1. Sound(ctl')
    BY <1>7, FormsSound, Zenon DEF CallEntered
  <2>2. QED
    BY <1>1, <1>2, <2>1, QuietKeeps, SMTT(30) DEF Sound
<1>8. CASE Ret \/ Resume
  <2>1. Sound(ctl')
    BY <1>8, FormsSound, Zenon DEF Ret, Resume
  <2>2. QED
    BY <1>1, <1>2, <2>1, QuietKeeps, SMTT(30) DEF Sound
<1>9. QED
  BY <1>4, <1>5, <1>6, <1>7, <1>8, Zenon

\* What was saved stays saved as the path and the last level change.
LEMMA SavedSame ==
    ASSUME Base, UNCHANGED backtrack_points,
           \A k \in 1..Len(backtrack_points) : solver'[k] = solver[k],
           IsSeq(path'), Len(path) <= Len(path'), \A j \in 1..Len(path) : path'[j] = path[j]
    PROVE  Points' = Points /\ SavedNow' = SavedNow
<1>1. Len(path) \in Nat /\ Len(path') \in Nat /\ IsSeq(path)
  BY SeqShape, Zenon DEF Base
<1>2. ASSUME NEW k \in 1..Len(backtrack_points)
      PROVE  SubSeq(path', 1, backtrack_points[k].path_len) = SubSeq(path, 1, backtrack_points[k].path_len)
  <2> DEFINE n == backtrack_points[k].path_len
  <2>1. n \in 0..Len(path) /\ n \in 0..Len(path')
    BY <1>1, SMTT(30) DEF Base, ArePoints, IsPoint
  <2>2. /\ IsSeq(SubSeq(path, 1, n)) /\ Len(SubSeq(path, 1, n)) = n
        /\ \A j \in 1..n : SubSeq(path, 1, n)[j] = path[j]
    BY <1>1, <2>1, Cut, Zenon
  <2>3. /\ IsSeq(SubSeq(path', 1, n)) /\ Len(SubSeq(path', 1, n)) = n
        /\ \A j \in 1..n : SubSeq(path', 1, n)[j] = path'[j]
    BY <1>1, <2>1, Cut, Zenon
  <2>4. \A j \in 1..n : path'[j] = path[j]
    BY <1>1, <2>1, SMTT(30)
  <2> HIDE DEF n
  <2>5. SubSeq(path', 1, n) = SubSeq(path, 1, n)
    BY <2>2, <2>3, <2>4, SameSeq, Zenon
  <2>6. QED
    BY <2>5, Zenon DEF n
<1>3. QED
  BY <1>2, Zenon DEF Points, SavedNow

\* `record_path_entry`.
LEMMA RecordExplores ==
    ASSUME Base, Base', Going(ctl), Sound(ctl'),
           NEW loc, IsLoc(program, loc), path' = Append(path, loc),
           UNCHANGED <<solver, backtrack_points, yielded, excluded>>
    PROVE  Answers' /\ Explores
<1>1. Going(ctl') /\ Mode = "running" /\ Mode' = "running" /\ ~fresh'
  BY ModeGoing, ModeGoingNext, Zenon DEF Sound, Base, Going
<1>2. Answers'
  BY <1>1, SoundKeeps, Zenon
<1>3. Len(path) \in Nat /\ IsSeq(path)
  BY SolverLevels, Zenon DEF Base
<1>4. Points' = Points /\ SavedNow' = SavedNow
  <2>1. IsSeq(path') /\ Len(path) <= Len(path') /\ \A j \in 1..Len(path) : path'[j] = path[j]
    BY <1>3, Appended, SMTT(30)
  <2>2. QED
    BY <2>1, SavedSame, Zenon
<1>5. loc \in Entries
  <2>1. /\ scenario \in Scenarios /\ loc.func \in DOMAIN program
        /\ loc.bb \in 1..Len(program[loc.func].blocks)
        /\ loc.instr \in 1..(Len(program[loc.func].blocks[loc.bb].instrs) + 1)
        /\ loc \in [func : DOMAIN program, bb : Nat, instr : Nat]
    BY Zenon DEF Base, IsLoc, BlockIn
  <2>2. loc = [func |-> loc.func, bb |-> loc.bb, instr |-> loc.instr]
    BY <2>1, Zenon
  <2>3. QED
    BY <2>1, <2>2, SMTT(30) DEF Entries, program
<1>6. Exploration!RecordPathEntry(loc)
  BY <1>1, <1>3, <1>4, Zenon DEF Exploration!RecordPathEntry
<1>7. QED
  BY <1>2, <1>5, <1>6, Zenon DEF Explores, Exploration!Next

LEMMA EnterExplores ==
    ASSUME Base, Base', EnterBlock \/ CatchEnter \/ CallReturns
    PROVE  Answers' /\ Explores
<1>1. CASE EnterBlock
  <2>1. /\ Going(ctl) /\ Sound(ctl')
        /\ IsLoc(program, cur_loc) /\ path' = Append(path, cur_loc)
        /\ UNCHANGED <<solver, backtrack_points, yielded, excluded>>
    BY <1>1, FormsSound, Zenon DEF EnterBlock, Going, Base
  <2>2. QED
    BY <2>1, RecordExplores, Zenon
<1>2. CASE CatchEnter
  <2>1. /\ Going(ctl) /\ IsLoc(program, cur_loc)
        /\ path' = Append(path, cur_loc) \/ path' = path
        /\ UNCHANGED <<solver, backtrack_points, yielded, excluded>>
    BY <1>2, Zenon DEF CatchEnter, Going, Base
  <2>2. Sound(ctl')
    <3>1. ctl = Catch(ctl.exc) /\ ctl' = [ctl EXCEPT !.at = "pad"]
      BY <1>2, Zenon DEF CatchEnter, Base, Formed
    <3>2. ctl'.at = "pad"
      BY <3>1, Zenon DEF Catch
    <3>3. QED
      BY <3>2, Zenon DEF Sound, Going
  <2>3. QED
    BY <2>1, <2>2, RecordExplores, QuietKeeps, Zenon
<1>3. CASE CallReturns
  <2>1. /\ Going(ctl) /\ native # <<>> /\ Frame.kind = "call"
        /\ path' = Append(path, Inc(Frame.loc))
        /\ UNCHANGED <<solver, backtrack_points, yielded, excluded>>
    BY <1>3, Zenon DEF CallReturns, ReturnsTo, Going
  <2>2. Sound(ctl')
    <3>1. CASE ctl' = ctl
      <4>1. ctl.at = "return" /\ ctl.res.tag \notin {"Err", "None"}
        BY <1>3, Zenon DEF CallReturns, ReturnsTo
      <4>2. QED
        BY <3>1, <4>1, Zenon DEF Sound, Going
    <3>2. CASE ctl' # ctl
      <4>1. ctl' = Exec \/ ctl' = InstrErr("LoopBoundExceeded")
        BY <1>3, <3>2, Zenon DEF CallReturns
      <4>2. QED
        BY <4>1, FormsSound, Zenon
    <3>3. QED
      BY <3>1, <3>2, Zenon
  <2>3. IsLoc(program, Inc(Frame.loc))
    <3>1. scenario \in Scenarios /\ IsLoc(program, Frame.loc) /\ InstrIn(program, Frame.loc).op = "call"
      BY <2>1, FramePopped, Zenon DEF Base, IsFrame
    <3>2. QED
      BY <3>1, NextInstr, Zenon DEF program
  <2>4. QED
    BY <2>1, <2>2, <2>3, RecordExplores, Zenon
<1>4. QED
  BY <1>1, <1>2, <1>3, Zenon

LEMMA MemoryExplores ==
    ASSUME Base, Base', Load \/ Store, ~SplitsAtNull
    PROVE  Answers' /\ Explores
<1>1. /\ ctl.at = "exec" /\ UNCHANGED <<backtrack_points, yielded, excluded>>
      /\ \/ \E addr : NullDereference(addr)
         \/ \E n, bv : RecordBVResult(n, bv) /\ UNCHANGED <<path, solver>>
         \/ UNCHANGED <<ctl, path, solver>>
  BY Zenon DEF Load, Store, At, SplitsAtNull
<1>2. Sound(ctl)
  BY <1>1, Zenon DEF Sound, Going
<1>3. CASE \E addr : NullDereference(addr)
  <2>1. PICK addr : NullDereference(addr)
    BY <1>3, Zenon
  <2> DEFINE alts == IF config.null_pointer_checking = "SplitPath"
                     THEN <<[loc |-> cur_loc, constraint |-> NonZero(addr)]>> ELSE <<>>
  <2>2. /\ SaveBacktrackingPoints(alts)
        /\ solver' = PushTimes(solver, Len(alts))
        /\ ctl' = InstrErr("NullPointerDereference")
        /\ UNCHANGED path
    BY <2>1, Zenon DEF NullDereference
  <2>3. IsSeq(alts)
    BY SingleIsSeq, EmptyIsSeq, Zenon
  <2> HIDE DEF alts
  <2>4. Len(backtrack_points') = Len(backtrack_points) + Len(alts)
    BY <2>2, <2>3, Saved, Zenon
  <2>5. Len(alts) = 0
    BY <1>1, <2>3, <2>4, SeqShape, SolverLevels, SMTT(30)
  <2>6. solver' = solver
    <3>1. solver \in Seq(SUBSET Inputs) /\ Len(solver) > 0 /\ Len(solver) \in Nat
      BY SolverLevels, Zenon DEF Base
    <3>2. /\ PushTimes(solver, 0) \in Seq(SUBSET Inputs)
          /\ Len(PushTimes(solver, 0)) = Len(solver) + 0
          /\ \A k \in 1..Len(solver) : PushTimes(solver, 0)[k] = solver[k]
      BY <3>1, Pushed, Zenon
    <3>3. IsSeq(solver) /\ IsSeq(PushTimes(solver, 0)) /\ Len(PushTimes(solver, 0)) = Len(solver)
      BY <3>1, <3>2, InSeq, SMTT(30)
    <3>4. PushTimes(solver, 0) = solver
      BY <3>2, <3>3, SameSeq, Zenon
    <3>5. QED
      BY <2>2, <2>5, <3>4, Zenon
  <2>7. Sound(ctl')
    BY <2>2, FormsSound, Zenon
  <2>8. QED
    BY <1>1, <1>2, <2>2, <2>6, <2>7, QuietKeeps, Zenon DEF Sound
<1>4. CASE \E n, bv : RecordBVResult(n, bv) /\ UNCHANGED <<path, solver>>
  <2>1. Sound(ctl')
    BY <1>1, <1>2, <1>4, FormsSound, Zenon DEF RecordBVResult
  <2>2. QED
    BY <1>1, <1>2, <1>4, <2>1, QuietKeeps, Zenon DEF Sound
<1>5. CASE UNCHANGED <<ctl, path, solver>>
  BY <1>1, <1>2, <1>5, QuietKeeps, Zenon DEF Sound
<1>6. QED
  BY <1>1, <1>3, <1>4, <1>5, Zenon

\* What hooks answer: no error is Unsat, and what is asserted is about the inputs.
LEMMA HookAnswers ==
    ASSUME NEW h \in HookNames, NEW ins
    PROVE  /\ SymexHook(h, ins).res.tag = "Err" => SymexHook(h, ins).res.err # "Unsat"
           /\ SymexHook(h, ins).asserts \subseteq Inputs
<1>1. CASE h = "assume"
  BY <1>1, Zenon DEF SymexHook, CallHook, AssumeHook, HookOutcome, ReturnVoid, Err, NonZero
<1>2. CASE h = "throw"
  BY <1>2, Zenon DEF SymexHook, CallHook, ThrowHook, HookOutcome, Throw, Err
<1>3. CASE h = "abort"
  BY <1>3, Zenon DEF SymexHook, CallHook, AbortHook, HookOutcome, Abort, Err
<1>4. CASE h = "stub"
  BY <1>4, Zenon DEF SymexHook, CallHook, StubHook, HookOutcome, ReturnVoid, Return, Err
<1>5. QED
  BY <1>1, <1>2, <1>3, <1>4, Zenon DEF HookNames

LEMMA HookedExplores ==
    ASSUME Base, Base', CallHooked, ~InvokeGivesUp
    PROVE  Answers' /\ Explores
<1> DEFINE f   == Callee(Instr)
           h   == IF Hooked(f) THEN config.hooks[f] ELSE config.default_hook
           out == SymexHook(h, Instr)
           c   == out.asserts
<1>1. /\ ctl.at = "exec"
      /\ Hooked(f) \/ UsesDefaultHook(f)
      /\ solver' = AssertIn(solver, c)
      /\ excluded' = excluded \cup (Top(solver) \ c)
      /\ UNCHANGED <<backtrack_points, path, yielded>>
  BY Zenon DEF CallHooked, AtCall, At
<1>2. h \in HookNames
  <2>1. scenario \in Scenarios /\ WellFormed(scenario)
    BY ScenariosAssumption, Zenon DEF Base
  <2>2. QED
    BY <1>1, <2>1, Zenon DEF WellFormed, Hooked, UsesDefaultHook, config
<1>3. \/ \E ins, loc, vm, bv, default : AssignCallResult(ins, loc, vm, bv, default)
      \/ \E ins, loc, vm, default : ContinueAfter(ins, loc, vm, default)
      \/ out.res.tag \in {"Throw", "Abort"} /\ ctl' = Returning(out.res)
      \/ \E vm, ptr, loc, bb : CatchAtExceptionLabel(vm, ptr, loc, bb)
      \/ out.res.tag = "Err" /\ ctl' = CallErr(Instr, out.res.err)
  BY Zenon DEF CallHooked
<1>4. (out.res.tag = "Err" => out.res.err # "Unsat") /\ c \subseteq Inputs
  BY <1>2, HookAnswers, Zenon
<1> HIDE DEF out, c
<1>5. Sound(ctl')
  <2>1. ~(ctl' = Returning(NoPath))
    BY SMTT(30) DEF InvokeGivesUp, Returning, NoPath
  <2>2. CASE out.res.tag \in {"Throw", "Abort"} /\ ctl' = Returning(out.res)
    BY <2>2, Zenon DEF Returning, Sound, Going
  <2>3. CASE out.res.tag = "Err" /\ ctl' = CallErr(Instr, out.res.err)
    BY <1>4, <2>3, FormsSound, Zenon
  <2>4. QED
    BY <1>3, <2>1, <2>2, <2>3, AssignSound, ContinueSound, CatchSound, Zenon
<1>6. Going(ctl) /\ Going(ctl')
  BY <1>1, <1>5, Zenon DEF Going, Sound
<1>7. Mode = "running" /\ Mode' = "running" /\ ~fresh'
  BY <1>6, ModeGoing, ModeGoingNext, Zenon DEF Base, Going
<1>8. Points' = Points /\ SavedNow' = SavedNow
  <2>1. solver \in Seq(SUBSET Inputs) /\ Len(solver) > 0 /\ Len(solver) - 1 = Len(backtrack_points)
    BY SolverLevels, Zenon DEF Base
  <2>2. \A k \in 1..Len(backtrack_points) : solver'[k] = solver[k]
    BY <1>1, <2>1, Asserted, SMTT(30)
  <2>3. IsSeq(path') /\ Len(path) <= Len(path') /\ \A j \in 1..Len(path) : path'[j] = path[j]
    BY <1>1, SolverLevels, SMTT(30) DEF Base
  <2>4. QED
    BY <1>1, <2>2, <2>3, SavedSame, Zenon
<1>9. Exploration!Assume(c)
  BY <1>1, <1>7, <1>8, Zenon DEF Exploration!Assume, Exploration!AssertIn, AssertIn, Exploration!Top, Top
<1>10. Explores
  BY <1>4, <1>9, Zenon DEF Explores, Exploration!Next
<1>11. QED
  BY <1>5, <1>7, <1>10, SoundKeeps, Zenon

\* The path is done for, and stays so while the answer is passed on.
LEMMA DoneExplores ==
    ASSUME Base, Answers, Mode = "done", Mode' = "done",
           ~(ctl'.at = "backtrack" /\ ctl'.why = "dead"),
           ~(ctl'.at = "return" /\ ctl'.res.tag = "Err"),
           UNCHANGED <<solver, backtrack_points, path, yielded, excluded>>
    PROVE  Answers' /\ Explores
<1>1. UNCHANGED Exploration!vars
  BY SeenSame, Zenon
<1>2. QED
  BY <1>1, Zenon DEF Answers, Explores

LEMMA CalleeEndsExplores ==
    ASSUME Base, Base', Answers, CalleeFails \/ CalleeFinishedElsewhere \/ UnexpectedCallsite \/ FromCurLocEnds,
           ~NoneBecomesUnsat
    PROVE  Answers' /\ Explores
<1>1. /\ ctl.at = "return"
      /\ UNCHANGED <<fresh, solver, backtrack_points, path, yielded, excluded>>
  BY Zenon DEF CalleeFails, CalleeFinishedElsewhere, UnexpectedCallsite, FromCurLocEnds, ReturnsTo, state
<1>2. CASE ctl.res.tag = "None"
  <2>1. ctl' = Backtracking("none")
    BY <1>1, <1>2, SMTT(60) DEF CalleeFails, CalleeFinishedElsewhere, UnexpectedCallsite, FromCurLocEnds,
                      NoneBecomesUnsat, NoPath, Returning, Err
  <2>2. ~fresh /\ Mode = "done" /\ Mode' = "done"
    BY <1>1, <1>2, <2>1, Zenon DEF Base, Mode, Backtracking
  <2>3. QED
    BY <1>1, <2>1, <2>2, DoneExplores, Zenon DEF Backtracking
<1>3. CASE ctl.res.tag # "None"
  <2>1. Going(ctl)
    BY <1>1, <1>3, Zenon DEF Going
  <2>2. ctl.res # NoPath
    BY <1>3, SMTT(30) DEF NoPath
  <2>3. CASE ctl' = ctl
    <3>1. Sound(ctl') \/ (Going(ctl') /\ ~Sat(solver))
      BY <1>1, <2>1, <2>3, Zenon DEF Sound, Going, Answers
    <3>2. QED
      BY <1>1, <2>1, <3>1, QuietKeeps, Zenon
  <2>4. CASE \E ins : ctl.res.tag = "Err" /\ ctl' = CallErr(ins, ctl.res.err)
    <3>1. Sound(ctl') \/ (Going(ctl') /\ ~Sat(solver))
      BY <1>1, <2>4, FormsSound, Zenon DEF Answers
    <3>2. QED
      BY <1>1, <2>1, <3>1, QuietKeeps, SMTT(30)
  <2>5. CASE ctl' = Panic \/ \E ptr : ctl' = Unwind(ptr)
    BY <1>1, <2>1, <2>5, FormsSound, QuietKeeps, Zenon
  <2>6. QED
    BY <2>2, <2>3, <2>4, <2>5, Zenon DEF CalleeFails, CalleeFinishedElsewhere, UnexpectedCallsite, FromCurLocEnds
<1>4. QED
  BY <1>2, <1>3, Zenon

LEMMA InvokeReturnsExplores ==
    ASSUME Base, Base', InvokeReturns
    PROVE  Answers' /\ Explores
<1>1. /\ ctl.at = "return" /\ ctl.res.tag \notin {"Err", "None"}
      /\ UNCHANGED <<solver, backtrack_points, path, yielded, excluded>>
      /\ \/ \E ins, loc, vm, bv : AssignCallResult(ins, loc, vm, bv, FALSE)
         \/ \E ins, loc, vm : ContinueAfter(ins, loc, vm, FALSE)
         \/ \E vm, ptr, loc, bb : CatchAtExceptionLabel(vm, ptr, loc, bb)
         \/ ctl' = ctl
  BY Zenon DEF InvokeReturns, ReturnsTo
<1>2. Sound(ctl)
  BY <1>1, Zenon DEF Sound, Going
<1>3. Sound(ctl')
  BY <1>1, <1>2, AssignSound, ContinueSound, CatchSound, Zenon
<1>4. QED
  BY <1>1, <1>2, <1>3, QuietKeeps, Zenon DEF Sound

LEMMA FromReturnsExplores ==
    ASSUME Base, Base', FromCurLocReturns, ~DropsAtBound
    PROVE  Answers' /\ Explores
<1>1. /\ ctl.at = "return" /\ ctl.res.tag \in {"Return", "ReturnVoid"}
      /\ UNCHANGED <<solver, backtrack_points, path, yielded, excluded>>
      /\ ctl' = Enter \/ (ctl' = Backtracking("dead") /\ ctl'.at = "backtrack")
  BY Zenon DEF FromCurLocReturns, ReturnsTo, Backtracking
<1>2. Going(ctl)
  BY <1>1, Zenon DEF Going
<1>3. ctl'.at = "backtrack" => ~Sat(solver)
  BY Zenon DEF DropsAtBound
<1>4. Sound(ctl') \/ (Going(ctl') /\ ~Sat(solver))
  BY <1>1, <1>3, FormsSound, Zenon
<1>5. QED
  BY <1>1, <1>2, <1>4, QuietKeeps, Zenon

LEMMA UnwindExplores ==
    ASSUME Base, Base', UnwindCallsite
    PROVE  Answers' /\ Explores
<1>1. /\ ctl.at = "unwind"
      /\ UNCHANGED <<solver, backtrack_points, path, yielded, excluded>>
      /\ \/ \E ptr : ctl' = Returning(Throw(ptr))
         \/ ctl' = ctl
         \/ \E vm, ptr, loc, bb : CatchAtExceptionLabel(vm, ptr, loc, bb)
  BY Zenon DEF UnwindCallsite
<1>2. Sound(ctl)
  BY <1>1, Zenon DEF Sound, Going
<1>3. Sound(ctl')
  BY <1>1, <1>2, CatchSound, FormsSound, Zenon
<1>4. QED
  BY <1>1, <1>2, <1>3, QuietKeeps, Zenon DEF Sound

LEMMA PadExplores ==
    ASSUME Base, Base', LandingPad, ~DropsAtBound
    PROVE  Answers' /\ Explores
<1>1. /\ ctl.at = "pad"
      /\ UNCHANGED <<solver, backtrack_points, path, yielded, excluded>>
      /\ \/ \E n, bv : RecordBVResult(n, bv)
         \/ ctl' = HandleErr("OtherError")
         \/ ctl' = Enter
         \/ \E e \in {"LoopBoundExceeded", "MalformedInstruction"} : ctl' = CatchErr(e)
  BY Zenon DEF LandingPad, ChoosePhi
<1>2. Sound(ctl)
  BY <1>1, Zenon DEF Sound, Going
<1>3. ctl'.at = "backtrack" => ~Sat(solver)
  BY Zenon DEF DropsAtBound
<1>4. \/ ctl' = ctl \/ ctl' = Enter
      \/ \E e \in {"LoopBoundExceeded", "MalformedInstruction", "OtherError"} : ctl' = CatchErr(e)
  BY <1>1, Zenon DEF RecordBVResult, HandleErr
<1>5. \A e \in {"LoopBoundExceeded", "MalformedInstruction", "OtherError"} :
         Sound(CatchErr(e)) \/ (Going(CatchErr(e)) /\ CatchErr(e).at = "backtrack")
  BY SMTT(30) DEF CatchErr, Backtracking, Returning, Err, Sound, Going
<1>6. Sound(ctl') \/ (Going(ctl') /\ ~Sat(solver))
  BY <1>2, <1>3, <1>4, <1>5, FormsSound, Zenon
<1>7. QED
  BY <1>1, <1>2, <1>6, QuietKeeps, Zenon DEF Sound

LEMMA CalledExplores ==
    ASSUME Base, Base', Answers, NextCalled
    PROVE  Answers' /\ Explores
<1>1. /\ ctl.at = "idle" /\ ~fresh'
      /\ UNCHANGED <<solver, backtrack_points, path, yielded, excluded>>
  BY Zenon DEF NextCalled, state
<1>2. CASE fresh
  <2>1. ctl' = Enter /\ Mode = "fresh" /\ Mode' = "running"
    BY <1>1, <1>2, Zenon DEF NextCalled, Mode, Enter
  <2>2. Answers'
    BY <1>1, <2>1, FormsSound, SoundKeeps, Zenon
  <2>3. Exploration!Start
    BY <1>1, <2>1, Zenon DEF Exploration!Start, Points, SavedNow
  <2>4. QED
    BY <2>2, <2>3, Zenon DEF Explores, Exploration!Next
<1>3. CASE ~fresh /\ ctl.res.tag = "None"
  <2>1. ctl' = Backtracking("none") /\ Mode = "done" /\ Mode' = "done"
    BY <1>1, <1>3, Zenon DEF NextCalled, Mode, Base, Formed, Backtracking
  <2>2. QED
    BY <1>1, <2>1, DoneExplores, Zenon DEF Backtracking
<1>4. CASE ~fresh /\ ctl.res.tag # "None"
  <2>1. ctl' = Backtracking("next") /\ Mode = "yielded" /\ Mode' = "yielded"
    BY <1>1, <1>4, SMTT(30) DEF NextCalled, Mode, NoPath, Backtracking
  <2>2. Answers'
    BY <2>1, Zenon DEF Answers, Backtracking
  <2>3. QED
    BY <1>1, <2>1, <2>2, SeenSame, Zenon DEF Explores
<1>5. QED
  BY <1>2, <1>3, <1>4, Zenon

LEMMA ReturnsExplores ==
    ASSUME Base, Base', Answers, NextReturns
    PROVE  Answers' /\ Explores
<1>1. /\ ctl.at = "return" /\ ctl' = Idle(ctl.res) /\ ctl'.at = "idle" /\ ctl'.res = ctl.res
      /\ ~fresh /\ ~fresh'
      /\ yielded' = IF ctl.res = NoPath THEN yielded ELSE yielded \cup Top(solver)
      /\ UNCHANGED <<solver, backtrack_points, path, excluded>>
  BY Zenon DEF NextReturns, state, Base, Idle
<1>2. CASE ctl.res.tag = "None"
  <2>1. Mode = "done" /\ Mode' = "done" /\ yielded' = yielded
    BY <1>1, <1>2, Zenon DEF Mode, Base, Formed
  <2>2. QED
    BY <1>1, <2>1, DoneExplores, Zenon
<1>3. CASE ctl.res.tag # "None"
  <2>1. Mode = "running" /\ Mode' = "yielded" /\ yielded' = yielded \cup Top(solver)
    BY <1>1, <1>3, SMTT(30) DEF Mode, NoPath
  <2>2. Answers'
    BY <1>1, <2>1, Zenon DEF Answers
  <2>3. Exploration!Yield
    BY <1>1, <2>1, Zenon DEF Exploration!Yield, Points, SavedNow, Exploration!Top, Top
  <2>4. QED
    BY <2>2, <2>3, Zenon DEF Explores, Exploration!Next
<1>4. QED
  BY <1>2, <1>3, Zenon

LEMMA BacktrackFailsExplores ==
    ASSUME Base, Base', Answers, BacktrackFails
    PROVE  Answers' /\ Explores
<1>1. /\ ctl.at = "backtrack" /\ ctl' = Returning(NoPath)
      /\ ctl.why \in {"next", "dead", "none"} /\ ~fresh
      /\ Len(backtrack_points) = 0
      /\ UNCHANGED <<fresh, solver, backtrack_points, path, yielded, excluded>>
  BY Zenon DEF BacktrackFails, state, Base, Formed
<1>2. ctl'.at = "return" /\ ctl'.res.tag = "None" /\ Mode' = "done"
  BY <1>1, Zenon DEF Mode, Returning, NoPath
<1>3. Answers'
  BY <1>1, <1>2, Zenon DEF Answers
<1>4. CASE ctl.why = "none"
  <2>1. Mode = "done"
    BY <1>1, <1>4, Zenon DEF Mode
  <2>2. QED
    BY <1>1, <1>2, <1>3, <2>1, SeenSame, Zenon DEF Explores
<1>5. CASE ctl.why # "none"
  <2>1. Mode = "yielded" \/ (Mode = "running" /\ ~Sat(solver))
    BY <1>1, <1>5, Zenon DEF Mode, Answers
  <2>2. Exploration!MayBacktrack
    BY <2>1, Zenon DEF Exploration!MayBacktrack, Exploration!Sat, Exploration!Top, Sat, Top
  <2>3. Len(Points) = 0
    <3>1. Points = <<>>
      BY <1>1, SMTT(30) DEF Points
    <3>2. QED
      BY <3>1, EmptyIsSeq, Zenon
  <2>4. Points' = Points /\ SavedNow' = SavedNow
    BY <1>1, Zenon DEF Points, SavedNow
  <2>5. Exploration!Exhaust
    BY <1>1, <1>2, <2>2, <2>3, <2>4, Zenon DEF Exploration!Exhaust
  <2>6. QED
    BY <1>3, <2>5, Zenon DEF Explores, Exploration!Next
<1>6. QED
  BY <1>4, <1>5, Zenon

LEMMA PointsLen ==
    ASSUME Base
    PROVE  /\ IsSeq(Points) /\ Len(Points) = Len(backtrack_points)
           /\ IsSeq(SavedNow) /\ Len(SavedNow) = Len(backtrack_points)
           /\ \A k \in 1..Len(backtrack_points) :
                 /\ Points[k] = [constraint |-> backtrack_points[k].constraint,
                                 path_len   |-> backtrack_points[k].path_len]
                 /\ SavedNow[k] = [region |-> solver[k],
                                   path   |-> SubSeq(path, 1, backtrack_points[k].path_len)]
<1>1. Len(backtrack_points) \in Nat
  BY SolverLevels, Zenon
<1>2. \A k \in 1..Len(backtrack_points) :
         /\ Points[k] = [constraint |-> backtrack_points[k].constraint,
                         path_len   |-> backtrack_points[k].path_len]
         /\ SavedNow[k] = [region |-> solver[k],
                           path   |-> SubSeq(path, 1, backtrack_points[k].path_len)]
  BY Zenon DEF Points, SavedNow
<1>3. /\ Points = [k \in 1..Len(backtrack_points) |-> Points[k]]
      /\ SavedNow = [k \in 1..Len(backtrack_points) |-> SavedNow[k]]
  BY Zenon DEF Points, SavedNow
<1>4. /\ IsSeq(Points) /\ Len(Points) = Len(backtrack_points)
      /\ IsSeq(SavedNow) /\ Len(SavedNow) = Len(backtrack_points)
  BY <1>1, <1>3, FcnIsSeq, Zenon
<1>5. QED
  BY <1>2, <1>4, Zenon

LEMMA PointsLenNext ==
    ASSUME Base'
    PROVE  /\ IsSeq(Points') /\ Len(Points') = Len(backtrack_points')
           /\ IsSeq(SavedNow') /\ Len(SavedNow') = Len(backtrack_points')
           /\ \A k \in 1..Len(backtrack_points') :
                 /\ Points'[k] = [constraint |-> backtrack_points'[k].constraint,
                                  path_len   |-> backtrack_points'[k].path_len]
                 /\ SavedNow'[k] = [region |-> solver'[k],
                                    path   |-> SubSeq(path', 1, backtrack_points'[k].path_len)]
<1>1. Len(backtrack_points') \in Nat
  BY SeqShape, Zenon DEF Base, ArePoints
<1>2. \A k \in 1..Len(backtrack_points') :
         /\ Points'[k] = [constraint |-> backtrack_points'[k].constraint,
                          path_len   |-> backtrack_points'[k].path_len]
         /\ SavedNow'[k] = [region |-> solver'[k],
                            path   |-> SubSeq(path', 1, backtrack_points'[k].path_len)]
  BY Zenon DEF Points, SavedNow
<1>3. /\ Points' = [k \in 1..Len(backtrack_points') |-> Points'[k]]
      /\ SavedNow' = [k \in 1..Len(backtrack_points') |-> SavedNow'[k]]
  BY Zenon DEF Points, SavedNow
<1>4. /\ IsSeq(Points') /\ Len(Points') = Len(backtrack_points')
      /\ IsSeq(SavedNow') /\ Len(SavedNow') = Len(backtrack_points')
  BY <1>1, <1>3, FcnIsSeq, Zenon
<1>5. QED
  BY <1>2, <1>4, Zenon

LEMMA BacktrackExplores ==
    ASSUME Base, Base', Answers, Backtrack
    PROVE  Answers' /\ Explores
<1> DEFINE n  == Len(backtrack_points)
           bp == backtrack_points[n]
<1>1. /\ ctl.at = "backtrack" /\ ctl' = Enter /\ n > 0 /\ ~fresh /\ ~fresh'
      /\ solver' = AssertIn(Pop(solver), bp.constraint)
      /\ path' = SubSeq(path, 1, bp.path_len)
      /\ UNCHANGED <<yielded, excluded>>
  BY Zenon DEF Backtrack, RevertTo, Base
<1>2. ctl.why # "none" /\ ctl.why \in {"next", "dead", "none"} /\ n \in Nat /\ Len(path) \in Nat
  <2>1. Mode = "done" => n = 0
    BY Zenon DEF Answers
  <2>2. n \in Nat /\ Len(path) \in Nat
    BY SolverLevels, Zenon
  <2>3. QED
    BY <1>1, <2>1, <2>2, SMTT(60) DEF Mode, Base, Formed
<1>3. Mode' = "running"
  BY <1>1, Zenon DEF Mode, Enter
<1>4. Answers'
  BY <1>1, FormsSound, SoundKeeps, Zenon
<1>5. Exploration!MayBacktrack
  <2>1. Mode = "yielded" \/ (Mode = "running" /\ ~Sat(solver))
    BY <1>1, <1>2, Zenon DEF Mode, Answers
  <2>2. QED
    BY <2>1, SMTT(30) DEF Exploration!MayBacktrack, Exploration!Sat, Exploration!Top, Sat, Top
<1>6. Len(Points) = n /\ IsSeq(Points) /\ IsSeq(SavedNow) /\ Len(SavedNow) = n
  BY PointsLen, Zenon
<1>7. Points[n] = [constraint |-> bp.constraint, path_len |-> bp.path_len]
  <2>1. n \in 1..n
    BY <1>1, <1>2, SMTT(30)
  <2>2. QED
    BY <2>1, PointsLen, Zenon
<1>8. /\ Len(backtrack_points') = n - 1
      /\ \A k \in 1..(n - 1) :
            /\ backtrack_points'[k] = backtrack_points[k]
            /\ backtrack_points[k].path_len <= Len(path')
            /\ backtrack_points[k].path_len \in Nat
            /\ backtrack_points[k].path_len <= Len(path)
            /\ solver'[k] = solver[k]
      /\ IsSeq(path') /\ IsSeq(path) /\ Len(path') \in Nat /\ Len(path') <= Len(path)
      /\ \A j \in 1..Len(path') : path'[j] = path[j]
  <2>1. /\ Len(backtrack_points') = n - 1 /\ IsSeq(path') /\ IsSeq(path)
        /\ IsPoint(program, Len(path), bp) /\ Len(path') = bp.path_len
        /\ Len(solver') = Len(solver) - 1 /\ Len(solver) = n + 1
        /\ \A j \in 1..Len(path') : path'[j] = path[j]
    BY Reverted, Zenon DEF Base
  <2>2. \A k \in 1..(n - 1) :
            /\ backtrack_points'[k] = backtrack_points[k]
            /\ backtrack_points[k].path_len <= Len(path')
    BY <2>1, Reverted, Zenon
  <2>3. \A k \in 1..(n - 1) : solver'[k] = solver[k]
    <3>1. Len(solver') - 1 = n - 1
      BY <1>2, <2>1, SMTT(30)
    <3>2. QED
      BY <3>1, Reverted, Zenon
  <2>4. \A k \in 1..(n - 1) : IsPoint(program, Len(path), backtrack_points[k])
    BY <1>2, SMTT(60) DEF Base, ArePoints
  <2>5. \A k \in 1..(n - 1) : backtrack_points[k].path_len \in Nat /\ backtrack_points[k].path_len <= Len(path)
    BY <1>2, <2>4, SMTT(30) DEF IsPoint
  <2>6. Len(path') \in Nat /\ Len(path') <= Len(path)
    BY <1>2, <2>1, SMTT(30) DEF IsPoint
  <2>7. QED
    BY <2>1, <2>2, <2>3, <2>5, <2>6, Zenon
<1> HIDE DEF bp, n
<1>9. n - 1 \in 0..Len(Points) /\ n - 1 \in 0..Len(SavedNow) /\ n \in Nat /\ n > 0
  BY <1>1, <1>2, <1>6, SMTT(30)
<1>10. Points' = SubSeq(Points, 1, n - 1)
  <2>1. /\ IsSeq(SubSeq(Points, 1, n - 1)) /\ Len(SubSeq(Points, 1, n - 1)) = n - 1
        /\ \A k \in 1..(n - 1) : SubSeq(Points, 1, n - 1)[k] = Points[k]
    BY <1>6, <1>9, Cut, Zenon
  <2>2. IsSeq(Points') /\ Len(Points') = n - 1
    BY <1>8, PointsLenNext, Zenon
  <2>3. \A k \in 1..(n - 1) : k \in 1..n
    BY <1>9, SMTT(30)
  <2>4. \A k \in 1..(n - 1) : Points'[k] = Points[k]
    <3> TAKE k \in 1..(n - 1)
    <3>1. Points[k] = [constraint |-> backtrack_points[k].constraint, path_len |-> backtrack_points[k].path_len]
      BY <2>3, PointsLen, Zenon DEF n
    <3>2. Points'[k] = [constraint |-> backtrack_points'[k].constraint, path_len |-> backtrack_points'[k].path_len]
      BY <1>8, PointsLenNext, Zenon
    <3>3. backtrack_points'[k] = backtrack_points[k]
      BY <1>8, Zenon
    <3>4. QED
      BY <3>1, <3>2, <3>3, Zenon
  <2>5. QED
    BY <2>1, <2>2, <2>4, SameSeq, Zenon
<1>11. SavedNow' = SubSeq(SavedNow, 1, n - 1)
  <2>1. /\ IsSeq(SubSeq(SavedNow, 1, n - 1)) /\ Len(SubSeq(SavedNow, 1, n - 1)) = n - 1
        /\ \A k \in 1..(n - 1) : SubSeq(SavedNow, 1, n - 1)[k] = SavedNow[k]
    BY <1>6, <1>9, Cut, Zenon
  <2>2. IsSeq(SavedNow') /\ Len(SavedNow') = n - 1
    BY <1>8, PointsLenNext, Zenon
  <2>3. \A k \in 1..(n - 1) : k \in 1..n
    BY <1>9, SMTT(30)
  <2>4. ASSUME NEW k \in 1..(n - 1)
        PROVE  SubSeq(path', 1, backtrack_points[k].path_len) = SubSeq(path, 1, backtrack_points[k].path_len)
    <3> DEFINE m == backtrack_points[k].path_len
    <3>1. m \in Nat /\ m <= Len(path') /\ m <= Len(path)
      BY <1>8, Zenon
    <3>2. \A j \in 1..m : path'[j] = path[j]
      BY <1>8, <3>1, SMTT(30)
    <3>3. QED
      BY <1>8, <3>1, <3>2, SamePrefix, Zenon
  <2>5. ASSUME NEW k \in 1..(n - 1)
        PROVE  SavedNow'[k] = SavedNow[k]
    <3>1. SavedNow[k] = [region |-> solver[k], path |-> SubSeq(path, 1, backtrack_points[k].path_len)]
      BY <2>3, PointsLen, Zenon DEF n
    <3>2. SavedNow'[k] = [region |-> solver'[k], path |-> SubSeq(path', 1, backtrack_points'[k].path_len)]
      BY <1>8, PointsLenNext, Zenon
    <3>3. /\ solver'[k] = solver[k] /\ backtrack_points'[k] = backtrack_points[k]
          /\ SubSeq(path', 1, backtrack_points[k].path_len) = SubSeq(path, 1, backtrack_points[k].path_len)
      BY <1>8, <2>4, Zenon
    <3>4. QED
      BY <3>1, <3>2, <3>3, Zenon
  <2>6. QED
    BY <2>1, <2>2, <2>5, SameSeq, Zenon
<1>12. /\ Points[Len(Points)].constraint = bp.constraint
       /\ Points[Len(Points)].path_len = bp.path_len
  BY <1>6, <1>7, SMTT(30)
<1>13. Exploration!Backtrack
  BY <1>1, <1>3, <1>5, <1>6, <1>9, <1>10, <1>11, <1>12, Zenon
     DEF Exploration!Backtrack, Exploration!AssertIn, Exploration!Pop, AssertIn, Pop
<1>14. QED
  BY <1>4, <1>13, Zenon DEF Explores, Exploration!Next

\* Forking, as the exploration sees it.
LEMMA ForkExplores ==
    ASSUME Base, Base', Going(ctl), UNCHANGED <<fresh, yielded, excluded>>,
           NEW bb, NEW c, NEW alts, IsSeq(alts), Fork(bb, c, alts),
           NEW cs, IsSeq(cs), Len(cs) = Len(alts), \A j \in 1..Len(alts) : cs[j] = alts[j].constraint
    PROVE  Answers' /\ Mode = "running" /\ Exploration!Fork(c, cs)
<1> DEFINE n == Len(backtrack_points)
           m == Len(alts)
<1>1. /\ SaveBacktrackingPoints(alts)
      /\ solver' = AssertIn(PushTimes(solver, m), c)
      /\ ctl' = Enter /\ path' = path
  BY Zenon DEF Fork
<1>2. /\ n \in Nat /\ m \in Nat /\ Len(path) \in Nat /\ Len(solver) = n + 1
      /\ IsSeq(path)
  BY SolverLevels, SeqShape, Zenon DEF Base
<1>3. Mode = "running" /\ Mode' = "running" /\ ~fresh
  BY <1>1, ModeGoing, ModeGoingNext, FormsSound, Zenon DEF Sound
<1>4. Answers'
  BY <1>1, <1>3, FormsSound, SoundKeeps, Zenon
<1>5. /\ Len(solver') = n + 1 + m
      /\ \A k \in 1..n : solver'[k] = solver[k]
      /\ \A k \in (n + 1)..(n + m) : solver'[k] = Top(solver)
      /\ solver'[n + 1 + m] = Top(solver) \cap c
  <2>1. Len(solver) - 1 = n /\ Len(solver) + m - 1 = n + m /\ Len(solver) + m = n + 1 + m
    BY <1>2, SMTT(30)
  <2>2. QED
    BY <1>1, <1>2, <2>1, ForkedLevels, Zenon
<1>6. /\ Len(backtrack_points') = n + m
      /\ \A k \in 1..n : backtrack_points'[k] = backtrack_points[k]
      /\ \A j \in 1..m : /\ backtrack_points'[n + j].constraint = cs[j]
                         /\ backtrack_points'[n + j].path_len = Len(path)
  BY <1>1, Saved, Zenon
<1>7. \A k \in 1..n : backtrack_points[k].path_len \in 0..Len(path)
  BY Zenon DEF Base, ArePoints, IsPoint
<1>8. SubSeq(path, 1, Len(path)) = path
  <2> DEFINE s == SubSeq(path, 1, Len(path))
  <2>1. Len(path) \in 0..Len(path)
    BY <1>2, SMTT(30)
  <2>2. IsSeq(s) /\ Len(s) = Len(path) /\ \A k \in 1..Len(path) : s[k] = path[k]
    BY <1>2, <2>1, Cut, Zenon
  <2> HIDE DEF s
  <2>3. s = path
    BY <1>2, <2>2, SameSeq, Zenon
  <2>4. QED
    BY <2>3, Zenon DEF s
<1> HIDE DEF n, m
<1>9. solver' = [k \in 1..(Len(solver) + m) |->
                    IF k < Len(solver) THEN solver[k]
                    ELSE IF k < Len(solver) + m THEN Top(solver)
                    ELSE Top(solver) \cap c]
  <2> DEFINE f == [k \in 1..(Len(solver) + m) |->
                    IF k < Len(solver) THEN solver[k]
                    ELSE IF k < Len(solver) + m THEN Top(solver)
                    ELSE Top(solver) \cap c]
  <2>1. IsSeq(f) /\ Len(f) = n + 1 + m
    <3>1. Len(solver) + m \in Nat /\ f = [k \in 1..(Len(solver) + m) |-> f[k]]
      BY <1>2, SMTT(30)
    <3> HIDE DEF f
    <3>2. IsSeq(f) /\ Len(f) = Len(solver) + m
      BY <3>1, FcnIsSeq, Zenon
    <3>3. QED
      BY <1>2, <3>2, Zenon
  <2>2. IsSeq(solver')
    BY InSeq, Zenon DEF Base
  <2>3. ASSUME NEW k \in 1..(n + 1 + m)
        PROVE  solver'[k] = f[k]
    <3>1. CASE k \in 1..n
      <4>1. f[k] = solver[k]
        BY <1>2, <3>1, SMTT(30)
      <4>2. QED
        BY <1>5, <3>1, <4>1, Zenon
    <3>2. CASE k \in (n + 1)..(n + m)
      <4>1. f[k] = Top(solver)
        BY <1>2, <3>2, SMTT(30)
      <4>2. QED
        BY <1>5, <3>2, <4>1, Zenon
    <3>3. CASE k = n + 1 + m
      <4>1. f[k] = Top(solver) \cap c
        BY <1>2, <3>3, SMTT(30)
      <4>2. QED
        BY <1>5, <3>3, <4>1, Zenon
    <3>4. QED
      BY <1>2, <3>1, <3>2, <3>3, SMTT(60)
  <2> HIDE DEF f
  <2>4. solver' = f
    BY <1>5, <2>1, <2>2, <2>3, SameSeq, Zenon
  <2>5. QED
    BY <2>4, Zenon DEF f
<1>10. Points' = Points \o [j \in 1..m |-> [constraint |-> cs[j], path_len |-> Len(path)]]
  <2> DEFINE t == [j \in 1..m |-> [constraint |-> cs[j], path_len |-> Len(path)]]
  <2>1. IsSeq(t) /\ Len(t) = m /\ \A j \in 1..m : t[j] = [constraint |-> cs[j], path_len |-> Len(path)]
    BY <1>2, FcnIsSeq, Zenon
  <2> HIDE DEF t
  <2>2. /\ IsSeq(Points) /\ Len(Points) = n
        /\ IsSeq(Points') /\ Len(Points') = n + m
    BY <1>6, PointsLen, PointsLenNext, Zenon DEF n
  <2>3. /\ IsSeq(Points \o t) /\ Len(Points \o t) = n + m
        /\ \A k \in 1..(n + m) : (Points \o t)[k] = IF k <= n THEN Points[k] ELSE t[k - n]
    BY <2>1, <2>2, Joined, Zenon
  <2>4. ASSUME NEW k \in 1..n
        PROVE  Points'[k] = Points[k]
    <3>1. k \in 1..(n + m)
      BY <1>2, SMTT(30)
    <3>2. Points[k] = [constraint |-> backtrack_points[k].constraint, path_len |-> backtrack_points[k].path_len]
      BY PointsLen, Zenon DEF n
    <3>3. Points'[k] = [constraint |-> backtrack_points'[k].constraint, path_len |-> backtrack_points'[k].path_len]
      BY <1>6, <3>1, PointsLenNext, Zenon
    <3>4. backtrack_points'[k] = backtrack_points[k]
      BY <1>6, Zenon
    <3>5. QED
      BY <3>2, <3>3, <3>4, Zenon
  <2>5. ASSUME NEW j \in 1..m
        PROVE  Points'[n + j] = t[j]
    <3>1. n + j \in 1..(n + m)
      BY <1>2, SMTT(30)
    <3>2. Points'[n + j] = [constraint |-> backtrack_points'[n + j].constraint,
                            path_len   |-> backtrack_points'[n + j].path_len]
      BY <1>6, <3>1, PointsLenNext, Zenon
    <3>3. QED
      BY <1>6, <2>1, <3>2, Zenon
  <2>6. ASSUME NEW k \in 1..(n + m)
        PROVE  Points'[k] = (Points \o t)[k]
    <3>1. CASE k <= n
      <4>1. k \in 1..n
        BY <1>2, <3>1, SMTT(30)
      <4>2. (Points \o t)[k] = Points[k]
        BY <2>3, <3>1, Zenon
      <4>3. QED
        BY <2>4, <4>1, <4>2, Zenon
    <3>2. CASE ~(k <= n)
      <4>1. k - n \in 1..m /\ n + (k - n) = k
        BY <1>2, <3>2, SMTT(30)
      <4>2. (Points \o t)[k] = t[k - n]
        BY <2>3, <3>2, Zenon
      <4>3. QED
        BY <2>5, <4>1, <4>2, Zenon
    <3>3. QED
      BY <3>1, <3>2, Zenon
  <2>7. Points' = Points \o t
    <3>1. Len(Points') = Len(Points \o t) /\ \A k \in 1..Len(Points') : Points'[k] = (Points \o t)[k]
      BY <2>2, <2>3, <2>6, Zenon
    <3>2. QED
      BY <2>2, <2>3, <3>1, SameSeq, Zenon
  <2>8. QED
    BY <2>7, Zenon DEF t
<1>11. SavedNow' = SavedNow \o [j \in 1..m |-> [region |-> Top(solver), path |-> path]]
  <2> DEFINE t == [j \in 1..m |-> [region |-> Top(solver), path |-> path]]
  <2>1. IsSeq(t) /\ Len(t) = m /\ \A j \in 1..m : t[j] = [region |-> Top(solver), path |-> path]
    BY <1>2, FcnIsSeq, Zenon
  <2> HIDE DEF t
  <2>2. /\ IsSeq(SavedNow) /\ Len(SavedNow) = n
        /\ IsSeq(SavedNow') /\ Len(SavedNow') = n + m
    BY <1>6, PointsLen, PointsLenNext, Zenon DEF n
  <2>3. /\ IsSeq(SavedNow \o t) /\ Len(SavedNow \o t) = n + m
        /\ \A k \in 1..(n + m) : (SavedNow \o t)[k] = IF k <= n THEN SavedNow[k] ELSE t[k - n]
    BY <2>1, <2>2, Joined, Zenon
  <2>4. ASSUME NEW k \in 1..n
        PROVE  SavedNow'[k] = SavedNow[k]
    <3>1. k \in 1..(n + m)
      BY <1>2, SMTT(30)
    <3>2. SavedNow[k] = [region |-> solver[k], path |-> SubSeq(path, 1, backtrack_points[k].path_len)]
      BY PointsLen, Zenon DEF n
    <3>3. SavedNow'[k] = [region |-> solver'[k], path |-> SubSeq(path', 1, backtrack_points'[k].path_len)]
      BY <1>6, <3>1, PointsLenNext, Zenon
    <3>4. solver'[k] = solver[k] /\ backtrack_points'[k] = backtrack_points[k] /\ path' = path
      BY <1>1, <1>5, <1>6, Zenon
    <3>5. QED
      BY <3>2, <3>3, <3>4, Zenon
  <2>5. ASSUME NEW j \in 1..m
        PROVE  SavedNow'[n + j] = t[j]
    <3>1. n + j \in 1..(n + m) /\ n + j \in (n + 1)..(n + m)
      BY <1>2, SMTT(30)
    <3>2. SavedNow'[n + j] = [region |-> solver'[n + j],
                              path   |-> SubSeq(path', 1, backtrack_points'[n + j].path_len)]
      BY <1>6, <3>1, PointsLenNext, Zenon
    <3>3. solver'[n + j] = Top(solver)
      BY <1>5, <3>1, Zenon
    <3>4. SubSeq(path', 1, backtrack_points'[n + j].path_len) = path
      BY <1>1, <1>6, <1>8, Zenon
    <3>5. QED
      BY <2>1, <3>2, <3>3, <3>4, Zenon
  <2>6. ASSUME NEW k \in 1..(n + m)
        PROVE  SavedNow'[k] = (SavedNow \o t)[k]
    <3>1. CASE k <= n
      <4>1. k \in 1..n
        BY <1>2, <3>1, SMTT(30)
      <4>2. (SavedNow \o t)[k] = SavedNow[k]
        BY <2>3, <3>1, Zenon
      <4>3. QED
        BY <2>4, <4>1, <4>2, Zenon
    <3>2. CASE ~(k <= n)
      <4>1. k - n \in 1..m /\ n + (k - n) = k
        BY <1>2, <3>2, SMTT(30)
      <4>2. (SavedNow \o t)[k] = t[k - n]
        BY <2>3, <3>2, Zenon
      <4>3. QED
        BY <2>5, <4>1, <4>2, Zenon
    <3>3. QED
      BY <3>1, <3>2, Zenon
  <2>7. SavedNow' = SavedNow \o t
    <3>1. Len(SavedNow') = Len(SavedNow \o t) /\ \A k \in 1..Len(SavedNow') : SavedNow'[k] = (SavedNow \o t)[k]
      BY <2>2, <2>3, <2>6, Zenon
    <3>2. QED
      BY <2>2, <2>3, <3>1, SameSeq, Zenon
  <2>8. QED
    BY <2>7, Zenon DEF t
<1>12. Len(cs) = m /\ Exploration!Top(solver) = Top(solver)
  BY Zenon DEF m, Exploration!Top, Top
<1>13. Exploration!Fork(c, cs)
  BY <1>1, <1>3, <1>9, <1>10, <1>11, <1>12, Zenon DEF Exploration!Fork
<1>14. QED
  BY <1>3, <1>4, <1>13, Zenon

=============================================================================
