-------------------------- MODULE ExecutionProofs --------------------------
(***************************************************************************)
(* The engine, for every program that LLVM accepts: what the recursion of  *)
(* its procedures, its callstack and its backtracking points keep in step. *)
(***************************************************************************)
EXTENDS ExecutionManager, TLAPS

\* What the provers know of sequences, as facts to cite.
LEMMA SeqOfLen ==
    ASSUME NEW S, NEW s \in Seq(S)
    PROVE  Len(s) \in Nat /\ s \in [1..Len(s) -> S] /\ DOMAIN s = 1..Len(s)
BY SMTT(30)

LEMMA FcnInSeq ==
    ASSUME NEW S, NEW n \in Nat, NEW s \in [1..n -> S]
    PROVE  s \in Seq(S)
BY SMTT(30)

LEMMA SeqGrows ==
    ASSUME NEW S, NEW T, S \subseteq T
    PROVE  Seq(S) \subseteq Seq(T)
BY SMTT(30)

LEMMA ConcatInSeq ==
    ASSUME NEW S, NEW s \in Seq(S), NEW t \in Seq(S)
    PROVE  /\ s \o t \in Seq(S)
           /\ Len(s \o t) = Len(s) + Len(t)
           /\ \A k \in 1..(Len(s) + Len(t)) : (s \o t)[k] = IF k <= Len(s) THEN s[k] ELSE t[k - Len(s)]
BY SMTT(30)

LEMMA SeqElement ==
    ASSUME NEW S, NEW s \in Seq(S), NEW k \in 1..Len(s)
    PROVE  s[k] \in S
BY SMTT(30)

LEMMA ExceptInSeq ==
    ASSUME NEW S, NEW s \in Seq(S), NEW k \in 1..Len(s), NEW e \in S
    PROVE  /\ [s EXCEPT ![k] = e] \in Seq(S)
           /\ Len([s EXCEPT ![k] = e]) = Len(s)
           /\ \A j \in 1..Len(s) : [s EXCEPT ![k] = e][j] = IF j = k THEN e ELSE s[j]
BY SMTT(30)

LEMMA TailInSeq ==
    ASSUME NEW S, NEW s \in Seq(S), s # <<>>
    PROVE  /\ Tail(s) \in Seq(S)
           /\ Len(Tail(s)) = Len(s) - 1
           /\ \A j \in 1..Len(Tail(s)) : Tail(s)[j] = s[j + 1]
BY SMTT(30)

\* s is a sequence, whatever its elements are.
IsSeq(s) == s \in Seq({s[k] : k \in 1..Len(s)})

LEMMA InSeq ==
    ASSUME NEW S, NEW s \in Seq(S)
    PROVE  IsSeq(s)
<1>1. Len(s) \in Nat /\ s \in [1..Len(s) -> S] /\ DOMAIN s = 1..Len(s)
  BY SeqOfLen, Zenon
<1>2. s \in [1..Len(s) -> {s[k] : k \in 1..Len(s)}]
  BY <1>1, Zenon
<1>3. QED
  BY <1>1, <1>2, FcnInSeq, Zenon DEF IsSeq

LEMMA SeqShape ==
    ASSUME NEW s, IsSeq(s)
    PROVE  Len(s) \in Nat /\ DOMAIN s = 1..Len(s) /\ s = [k \in 1..Len(s) |-> s[k]]
<1>1. s \in Seq({s[k] : k \in 1..Len(s)})
  BY Zenon DEF IsSeq
<1>2. QED
  BY <1>1, SeqOfLen, Zenon

LEMMA FcnIsSeq ==
    ASSUME NEW n \in Nat, NEW f, f = [k \in 1..n |-> f[k]]
    PROVE  IsSeq(f) /\ Len(f) = n
<1>1. f \in [1..n -> {f[k] : k \in 1..n}]
  BY Zenon
<1>2. f \in Seq({f[k] : k \in 1..n})
  BY <1>1, FcnInSeq, Zenon
<1>3. DOMAIN f = 1..n /\ DOMAIN f = 1..Len(f) /\ Len(f) \in Nat
  BY <1>1, <1>2, SeqOfLen, Zenon
<1>4. QED
  BY <1>2, <1>3, InSeq, SMTT(30)

LEMMA SameSeq ==
    ASSUME NEW s, NEW t, IsSeq(s), IsSeq(t), Len(s) = Len(t),
           \A k \in 1..Len(s) : s[k] = t[k]
    PROVE  s = t
BY SeqShape, SMTT(30)

LEMMA EmptyIsSeq == IsSeq(<<>>) /\ Len(<<>>) = 0
<1>1. <<>> \in Seq({}) /\ Len(<<>>) = 0
  BY SMTT(30)
<1>2. QED
  BY <1>1, InSeq, Zenon

LEMMA SingleIsSeq == \A x : IsSeq(<<x>>) /\ Len(<<x>>) = 1 /\ <<x>>[1] = x
<1>1. \A x : <<x>> \in Seq({x}) /\ Len(<<x>>) = 1 /\ <<x>>[1] = x
  BY SMTT(30)
<1>2. QED
  BY <1>1, InSeq, Zenon

LEMMA LengthZero ==
    ASSUME NEW s, IsSeq(s)
    PROVE  s = <<>> <=> Len(s) = 0
BY EmptyIsSeq, SameSeq, SMTT(30)

LEMMA Appended ==
    ASSUME NEW s, IsSeq(s), NEW e
    PROVE  /\ IsSeq(Append(s, e))
           /\ Len(Append(s, e)) = Len(s) + 1
           /\ \A k \in 1..Len(s) : Append(s, e)[k] = s[k]
           /\ Append(s, e)[Len(s) + 1] = e
<1> DEFINE S == {s[k] : k \in 1..Len(s)} \cup {e}
<1>1. s \in Seq(S) /\ e \in S
  BY SeqGrows, Zenon DEF IsSeq
<1> HIDE DEF S
<1>2. Append(s, e) \in Seq(S) /\ Len(s) \in Nat /\ Len(Append(s, e)) = Len(s) + 1
  BY <1>1, SMTT(30)
<1>3. (\A k \in 1..Len(s) : Append(s, e)[k] = s[k]) /\ Append(s, e)[Len(s) + 1] = e
  BY <1>1, SMTT(30)
<1>4. QED
  BY <1>2, <1>3, InSeq, Zenon

LEMMA Cut ==
    ASSUME NEW s, IsSeq(s), NEW n \in 0..Len(s)
    PROVE  /\ IsSeq(SubSeq(s, 1, n))
           /\ Len(SubSeq(s, 1, n)) = n
           /\ \A k \in 1..n : SubSeq(s, 1, n)[k] = s[k]
<1> DEFINE S == {s[k] : k \in 1..Len(s)}
<1>1. s \in Seq(S)
  BY Zenon DEF IsSeq
<1> HIDE DEF S
<1>2. /\ SubSeq(s, 1, n) \in Seq(S)
      /\ Len(SubSeq(s, 1, n)) = n
      /\ \A k \in 1..n : SubSeq(s, 1, n)[k] = s[k]
  BY <1>1, SMTT(30)
<1>3. QED
  BY <1>2, InSeq, Zenon

LEMMA Joined ==
    ASSUME NEW s, NEW t, IsSeq(s), IsSeq(t)
    PROVE  /\ IsSeq(s \o t)
           /\ Len(s \o t) = Len(s) + Len(t)
           /\ \A k \in 1..(Len(s) + Len(t)) : (s \o t)[k] = IF k <= Len(s) THEN s[k] ELSE t[k - Len(s)]
<1> DEFINE S == {s[k] : k \in 1..Len(s)} \cup {t[k] : k \in 1..Len(t)}
<1>1. s \in Seq(S) /\ t \in Seq(S)
  BY SeqGrows, SMTT(30) DEF IsSeq
<1> HIDE DEF S
<1>2. /\ s \o t \in Seq(S)
      /\ Len(s \o t) = Len(s) + Len(t)
      /\ \A k \in 1..(Len(s) + Len(t)) : (s \o t)[k] = IF k <= Len(s) THEN s[k] ELSE t[k - Len(s)]
  BY <1>1, ConcatInSeq, Zenon
<1>3. QED
  BY <1>2, InSeq, Zenon
\* The beginning of a path is the same on a path that begins like it.
LEMMA SamePrefix ==
    ASSUME NEW s, NEW t, IsSeq(s), IsSeq(t), NEW n \in Nat, n <= Len(s), n <= Len(t),
           \A j \in 1..n : s[j] = t[j]
    PROVE  SubSeq(s, 1, n) = SubSeq(t, 1, n)
<1>1. n \in 0..Len(s) /\ n \in 0..Len(t)
  BY SeqShape, SMTT(30)
<1>2. /\ IsSeq(SubSeq(s, 1, n)) /\ Len(SubSeq(s, 1, n)) = n
      /\ IsSeq(SubSeq(t, 1, n)) /\ Len(SubSeq(t, 1, n)) = n
      /\ \A k \in 1..n : SubSeq(s, 1, n)[k] = s[k] /\ SubSeq(t, 1, n)[k] = t[k]
  BY <1>1, Cut, Zenon
<1>3. QED
  BY <1>2, SameSeq, Zenon

-----------------------------------------------------------------------------
(* Places in a program.  These definitions take the program as a parameter,  *)
(* so that they say the same before and after a step.                        *)

BlockIn(p, loc) == p[loc.func].blocks[loc.bb]
InstrIn(p, loc) ==
    IF loc.instr > Len(BlockIn(p, loc).instrs) THEN BlockIn(p, loc).term
    ELSE BlockIn(p, loc).instrs[loc.instr]

\* loc is an instruction or the terminator of a block.
IsLoc(p, loc) ==
    /\ loc \in [func : DOMAIN p, bb : Nat, instr : Nat]
    /\ loc.bb \in 1..Len(p[loc.func].blocks)
    /\ loc.instr \in 1..(Len(BlockIn(p, loc).instrs) + 1)

IsLabel(p, loc, bb) == bb \in 1..Len(p[loc.func].blocks)

\* A callsite holds the call or invoke at its location, and so does a frame.
IsCallsite(p, cs) ==
    /\ IsLoc(p, cs.loc)
    /\ cs.instr = InstrIn(p, cs.loc)
    /\ cs.instr.op \in {"call", "invoke"}
IsStack(p, st) == IsSeq(st) /\ \A j \in 1..Len(st) : IsCallsite(p, st[j])
IsFrame(p, fr) ==
    fr.kind \in {"call", "invoke"} => IsLoc(p, fr.loc) /\ InstrIn(p, fr.loc).op = fr.kind
IsNative(p, nat) == IsSeq(nat) /\ \A j \in 1..Len(nat) : IsFrame(p, nat[j])

LEMMA BlockFormed ==
    ASSUME NEW s \in Scenarios, NEW loc, IsLoc(s.program, loc)
    PROVE  WellFormedBlock(BlockIn(s.program, loc), 1..Len(s.program[loc.func].blocks))
BY ScenariosAssumption, Zenon DEF WellFormed, IsLoc, BlockIn

\* After an instruction that is not a terminator there is another one.
LEMMA NextInstr ==
    ASSUME NEW s \in Scenarios, NEW loc, IsLoc(s.program, loc),
           InstrIn(s.program, loc).op \in {"data", "load", "store", "phi", "landingpad", "call"}
    PROVE  IsLoc(s.program, Inc(loc))
<1> DEFINE p == s.program
           n == Len(BlockIn(p, loc).instrs)
<1>1. n \in Nat /\ BlockIn(p, loc).term.op \in
          {"ret", "resume", "unreachable", "br", "condbr", "switch", "invoke"}
  BY BlockFormed, Zenon DEF WellFormedBlock
<1>2. loc \in [func : DOMAIN p, bb : Nat, instr : Nat] /\ loc.instr \in 1..(n + 1)
  BY Zenon DEF IsLoc
<1>3. ~(loc.instr > n)
  BY <1>1, Zenon DEF InstrIn
<1>4. /\ Inc(loc) \in [func : DOMAIN p, bb : Nat, instr : Nat]
      /\ Inc(loc).func = loc.func /\ Inc(loc).bb = loc.bb /\ Inc(loc).instr = loc.instr + 1
  BY <1>2, SMTT(30) DEF Inc
<1>5. BlockIn(p, Inc(loc)) = BlockIn(p, loc)
  BY <1>4, Zenon DEF BlockIn
<1>6. QED
  BY <1>1, <1>2, <1>3, <1>4, <1>5, SMTT(30) DEF IsLoc

LEMMA FirstInstr ==
    ASSUME NEW s \in Scenarios, NEW loc, IsLoc(s.program, loc), NEW bb, IsLabel(s.program, loc, bb)
    PROVE  IsLoc(s.program, StartOfBB(loc, bb))
<1> DEFINE p  == s.program
           l  == StartOfBB(loc, bb)
           bs == p[loc.func].blocks
<1>1. loc \in [func : DOMAIN p, bb : Nat, instr : Nat]
  BY Zenon DEF IsLoc
<1>2. Len(bs) \in Nat \ {0} /\ WellFormedBlock(bs[bb], 1..Len(bs))
  BY <1>1, ScenariosAssumption, Zenon DEF WellFormed, IsLabel
<1>3. Len(bs[bb].instrs) \in Nat
  BY <1>2, Zenon DEF WellFormedBlock
<1>4. bb \in Nat
  BY <1>2, SMTT(30) DEF IsLabel
<1>5. l \in [func : DOMAIN p, bb : Nat, instr : Nat] /\ l.func = loc.func /\ l.bb = bb /\ l.instr = 1
  BY <1>1, <1>4, Zenon DEF StartOfBB
<1>6. \A n \in Nat : 1 \in 1..(n + 1)
  BY SMTT(30)
<1>7. QED
  BY <1>3, <1>5, <1>6, Zenon DEF IsLoc, IsLabel, BlockIn

LEMMA FirstOfFunction ==
    ASSUME NEW s \in Scenarios, NEW f \in DOMAIN s.program
    PROVE  IsLoc(s.program, Start(f))
<1> DEFINE bs == s.program[f].blocks
<1>1. Len(bs) \in Nat \ {0} /\ WellFormedBlock(bs[1], 1..Len(bs))
  BY ScenariosAssumption, SMTT(30) DEF WellFormed
<1>2. Len(bs[1].instrs) \in Nat
  BY <1>1, Zenon DEF WellFormedBlock
<1>3. Start(f) \in [func : DOMAIN s.program, bb : Nat, instr : Nat]
  BY Zenon DEF Start
<1>4. Start(f).func = f /\ Start(f).bb = 1 /\ Start(f).instr = 1
  BY Zenon DEF Start
<1>5. 1 \in 1..Len(bs) /\ \A n \in Nat : 1 \in 1..(n + 1)
  BY <1>1, SMTT(30)
<1>6. QED
  BY <1>2, <1>3, <1>4, <1>5, Zenon DEF IsLoc, BlockIn

\* The labels of a terminator are those of blocks of the function.
LEMMA LabelsFormed ==
    ASSUME NEW s \in Scenarios, NEW loc, IsLoc(s.program, loc)
    PROVE  LET ins == InstrIn(s.program, loc)
               Label(bb) == IsLabel(s.program, loc, bb)
           IN  /\ ins.op = "br" => Label(ins.dest)
               /\ ins.op = "condbr" => Label(ins.true_dest) /\ Label(ins.false_dest)
               /\ ins.op = "invoke" => Label(ins.return_label) /\ Label(ins.exception_label)
               /\ ins.op = "switch" =>
                     /\ Len(ins.dests) \in Nat
                     /\ Label(ins.default_dest)
                     /\ \A j \in 1..Len(ins.dests) : Label(ins.dests[j].bb)
                     /\ \A j, k \in 1..Len(ins.dests) : j # k => ins.dests[j].val # ins.dests[k].val
<1> DEFINE b == BlockIn(s.program, loc)
           ls == 1..Len(s.program[loc.func].blocks)
<1>1. WellFormedBlock(b, ls)
  BY BlockFormed, Zenon
<1>2. Len(b.instrs) \in Nat /\ loc.instr \in 1..(Len(b.instrs) + 1)
  BY <1>1, Zenon DEF WellFormedBlock, IsLoc
<1>3. CASE loc.instr > Len(b.instrs)
  <2>1. InstrIn(s.program, loc) = b.term
    BY <1>3, Zenon DEF InstrIn
  <2>2. QED
    BY <1>1, <2>1, Zenon DEF WellFormedBlock, IsLabel
<1>4. CASE ~(loc.instr > Len(b.instrs))
  <2>1. InstrIn(s.program, loc) = b.instrs[loc.instr] /\ loc.instr \in 1..Len(b.instrs)
    BY <1>2, <1>4, SMTT(30) DEF InstrIn
  <2>2. InstrIn(s.program, loc).op \in {"data", "load", "store", "phi", "landingpad", "call"}
    BY <1>1, <2>1, Zenon DEF WellFormedBlock
  <2>3. QED
    BY <2>2, Zenon
<1>5. QED
  BY <1>3, <1>4, Zenon
-----------------------------------------------------------------------------
(* The base: locations are in the program, and the stacks are in step with   *)
(* each other.  No step of the engine departs from it.                       *)

\* bps are backtracking points of program p, saved along a path of length n.
IsPoint(p, n, bp) ==
    /\ IsLoc(p, bp.loc)
    /\ IsStack(p, bp.stack)
    /\ bp.constraint \subseteq Inputs
    /\ bp.path_len \in 0..n
ArePoints(p, n, bps) ==
    /\ IsSeq(bps)
    /\ \A k \in 1..Len(bps) : IsPoint(p, n, bps[k])
    /\ \A j, k \in 1..Len(bps) : j <= k => bps[j].path_len <= bps[k].path_len

\* What the records in ctl hold.
Formed(c) ==
    /\ c.at = "catch" => c = Catch(c.exc)
    /\ c.at = "backtrack" => c.why \in {"next", "dead", "none"}
    /\ c.at \in {"idle", "return"} /\ c.res.tag = "None" => c.res = NoPath
Busy(c) == Formed(c) /\ c.at # "idle"

Base ==
    /\ scenario \in Scenarios
    /\ IsLoc(program, cur_loc)
    /\ IsStack(program, stack)
    /\ IsNative(program, native)
    /\ IsSeq(path)
    /\ ArePoints(program, Len(path), backtrack_points)
    /\ solver \in Seq(SUBSET Inputs)
    /\ Len(solver) = Len(backtrack_points) + 1
    /\ Formed(ctl)
    /\ fresh \in BOOLEAN
    /\ fresh => ctl.at = "idle"

LEMMA InstrHere == Instr = InstrIn(program, cur_loc) /\ \A loc : InstrAt(loc) = InstrIn(program, loc)
BY Zenon DEF Instr, InstrAt, InstrIn, BB, BlockIn

LEMMA FormsBusy ==
    /\ Busy(Enter) /\ Busy(Exec)
    /\ \A x : Busy(Catch(x)) /\ Busy(Unwind(x))
    /\ \A e : Busy(Returning(Err(e))) /\ Busy(InstrErr(e)) /\ Busy(CatchErr(e)) /\ Busy(HandleErr(e))
    /\ \A e, ins : Busy(CallErr(ins, e))
    /\ \A bv : Busy(Returning(Return(bv))) /\ Busy(Returning(Throw(bv)))
    /\ Busy(Returning(ReturnVoid)) /\ Busy(Returning(Abort)) /\ Busy(Returning(NoPath))
    /\ Busy(Panic)
    /\ \A why \in {"next", "dead", "none"} : Busy(Backtracking(why))
BY SMTT(30) DEF Busy, Formed, Enter, Exec, Catch, Unwind, Returning, Err, InstrErr, CatchErr, HandleErr, CallErr,
       Return, Throw, ReturnVoid, Abort, NoPath, Panic, Backtracking

\* A step that only moves on within the function keeps the base.
LEMMA MoveKeeps ==
    ASSUME Base, ctl.at # "idle",
           UNCHANGED <<scenario, stack, native, path, solver, backtrack_points, fresh>>,
           IsLoc(program, cur_loc'), Busy(ctl')
    PROVE  Base'
BY Zenon DEF Base, Busy, program

LEMMA RecordMoves ==
    ASSUME Base, NEW n, NEW bv, RecordBVResult(n, bv), Busy(ctl),
           Instr.op \in {"data", "load", "phi"}
    PROVE  IsLoc(program, cur_loc') /\ Busy(ctl')
<1>1. IsLoc(program, cur_loc) /\ IsLoc(program, Inc(cur_loc))
  BY NextInstr, InstrHere, Zenon DEF Base, program
<1>2. QED
  BY <1>1, FormsBusy, Zenon DEF RecordBVResult

LEMMA ContinueMoves ==
    ASSUME Base, NEW loc, IsLoc(program, loc), NEW ins, ins = InstrIn(program, loc),
           NEW vm, NEW default, ContinueAfter(ins, loc, vm, default)
    PROVE  IsLoc(program, cur_loc') /\ Busy(ctl')
<1>1. CASE ins.op = "call" /\ cur_loc' = Inc(loc) /\ ctl' = Exec
  BY <1>1, NextInstr, FormsBusy, Zenon DEF Base, program
<1>2. CASE ins.op = "invoke" /\ cur_loc' = StartOfBB(loc, ins.return_label) /\ ctl' = Enter
  <2>1. IsLabel(program, loc, ins.return_label)
    BY <1>2, LabelsFormed, Zenon DEF Base, program
  <2>2. QED
    BY <1>2, <2>1, FirstInstr, FormsBusy, Zenon DEF Base, program
<1>3. CASE cur_loc' = loc /\ ctl' = Returning(NoPath)
  BY <1>3, FormsBusy, Zenon
<1>4. QED
  BY <1>1, <1>2, <1>3, Zenon DEF ContinueAfter

LEMMA AssignMoves ==
    ASSUME Base, NEW loc, IsLoc(program, loc), NEW ins, ins = InstrIn(program, loc),
           NEW vm, NEW bv, NEW default, AssignCallResult(ins, loc, vm, bv, default)
    PROVE  IsLoc(program, cur_loc') /\ Busy(ctl')
BY ContinueMoves, FormsBusy, Zenon DEF AssignCallResult

LEMMA CatchMoves ==
    ASSUME Base, NEW loc, IsLoc(program, loc), NEW bb, IsLabel(program, loc, bb),
           NEW vm, NEW ptr, CatchAtExceptionLabel(vm, ptr, loc, bb)
    PROVE  IsLoc(program, cur_loc') /\ Busy(ctl')
<1>1. IsLoc(program, StartOfBB(loc, bb))
  BY FirstInstr, Zenon DEF Base, program
<1>2. QED
  BY <1>1, FormsBusy, Zenon DEF CatchAtExceptionLabel

LEMMA Asserted ==
    ASSUME NEW s \in Seq(SUBSET Inputs), Len(s) > 0, NEW c
    PROVE  /\ AssertIn(s, c) \in Seq(SUBSET Inputs)
           /\ Len(AssertIn(s, c)) = Len(s)
           /\ \A k \in 1..(Len(s) - 1) : AssertIn(s, c)[k] = s[k]
           /\ Top(AssertIn(s, c)) = Top(s) \cap c
<1>1. Len(s) \in 1..Len(s) /\ s[Len(s)] \cap c \in SUBSET Inputs
  BY SeqElement, SMTT(30)
<1>2. AssertIn(s, c) = [s EXCEPT ![Len(s)] = s[Len(s)] \cap c]
  BY Zenon DEF AssertIn
<1>3. QED
  BY <1>1, <1>2, ExceptInSeq, SMTT(30) DEF Top

LEMMA Pushed ==
    ASSUME NEW s \in Seq(SUBSET Inputs), Len(s) > 0, NEW n \in Nat
    PROVE  /\ PushTimes(s, n) \in Seq(SUBSET Inputs)
           /\ Len(PushTimes(s, n)) = Len(s) + n
           /\ \A k \in 1..Len(s) : PushTimes(s, n)[k] = s[k]
           /\ \A k \in Len(s)..(Len(s) + n) : PushTimes(s, n)[k] = Top(s)
<1> DEFINE t == [j \in 1..n |-> Top(s)]
<1>1. Top(s) \in SUBSET Inputs /\ Len(s) \in Nat
  BY SeqElement, SMTT(30) DEF Top
<1>2. t \in Seq(SUBSET Inputs) /\ Len(t) = n
  <2>1. t \in [1..n -> SUBSET Inputs]
    BY <1>1, Zenon
  <2>2. QED
    BY <2>1, FcnInSeq, FcnIsSeq, Zenon
<1>3. \A j \in 1..n : t[j] = Top(s)
  BY Zenon
<1> HIDE DEF t
<1>4. /\ s \o t \in Seq(SUBSET Inputs)
      /\ Len(s \o t) = Len(s) + Len(t)
      /\ \A k \in 1..(Len(s) + Len(t)) : (s \o t)[k] = IF k <= Len(s) THEN s[k] ELSE t[k - Len(s)]
  BY <1>2, ConcatInSeq, Zenon
<1>5. PushTimes(s, n) = s \o t
  BY Zenon DEF PushTimes, t
<1>6. QED
  BY <1>1, <1>2, <1>3, <1>4, <1>5, SMTT(30) DEF Top

\* The points that are saved come after the others, in order.
LEMMA Saved ==
    ASSUME Base, NEW alts, IsSeq(alts), SaveBacktrackingPoints(alts)
    PROVE  /\ IsSeq(backtrack_points')
           /\ Len(backtrack_points') = Len(backtrack_points) + Len(alts)
           /\ \A k \in 1..Len(backtrack_points) : backtrack_points'[k] = backtrack_points[k]
           /\ \A j \in 1..Len(alts) :
                 LET bp == backtrack_points'[Len(backtrack_points) + j]
                 IN  /\ bp.loc = alts[j].loc
                     /\ bp.stack = stack
                     /\ bp.constraint = alts[j].constraint
                     /\ bp.path_len = Len(path)
<1> DEFINE t == [j \in 1..Len(alts) |-> [loc        |-> alts[j].loc,
                                         stack      |-> stack,
                                         constraint |-> alts[j].constraint,
                                         varmap     |-> varmap,
                                         mem        |-> mem,
                                         path_len   |-> Len(path)]]
<1>1. Len(alts) \in Nat /\ IsSeq(backtrack_points) /\ Len(backtrack_points) \in Nat
  BY SeqShape, Zenon DEF Base, ArePoints
<1>2. IsSeq(t) /\ Len(t) = Len(alts)
  BY <1>1, FcnIsSeq, Zenon
<1>3. \A j \in 1..Len(alts) : /\ t[j].loc = alts[j].loc
                              /\ t[j].stack = stack
                              /\ t[j].constraint = alts[j].constraint
                              /\ t[j].path_len = Len(path)
  BY Zenon
<1>4. backtrack_points' = backtrack_points \o t
  BY Zenon DEF SaveBacktrackingPoints
<1> HIDE DEF t
<1> DEFINE n == Len(backtrack_points)
<1>5. /\ IsSeq(backtrack_points')
      /\ Len(backtrack_points') = n + Len(alts)
      /\ \A k \in 1..(n + Len(alts)) :
            backtrack_points'[k] = IF k <= n THEN backtrack_points[k] ELSE t[k - n]
  BY <1>1, <1>2, <1>4, Joined, Zenon
<1>6. \A k \in 1..n : backtrack_points'[k] = backtrack_points[k]
  BY <1>1, <1>5, SMTT(30)
<1>7. \A j \in 1..Len(alts) : backtrack_points'[n + j] = t[j]
  <2> TAKE j \in 1..Len(alts)
  <2>1. n + j \in 1..(n + Len(alts)) /\ ~(n + j <= n) /\ (n + j) - n = j
    BY <1>1, SMTT(30)
  <2>2. QED
    BY <1>5, <2>1, Zenon
<1>8. QED
  BY <1>3, <1>5, <1>6, <1>7, ZenonT(30)

LEMMA SavedArePoints ==
    ASSUME Base, NEW alts, IsSeq(alts), SaveBacktrackingPoints(alts),
           \A j \in 1..Len(alts) : IsLoc(program, alts[j].loc) /\ alts[j].constraint \subseteq Inputs
    PROVE  ArePoints(program, Len(path), backtrack_points')
<1> DEFINE n == Len(backtrack_points)
<1>1. Len(alts) \in Nat /\ n \in Nat /\ Len(path) \in Nat
  BY SeqShape, Zenon DEF Base, ArePoints
<1>2. /\ IsStack(program, stack)
      /\ \A k \in 1..n : IsPoint(program, Len(path), backtrack_points[k])
      /\ \A j, k \in 1..n : j <= k => backtrack_points[j].path_len <= backtrack_points[k].path_len
  BY Zenon DEF Base, ArePoints
<1>3. \A k \in 1..Len(backtrack_points') : k \in 1..n \/ (k - n \in 1..Len(alts) /\ k = n + (k - n))
  BY <1>1, Saved, SMTT(30)
<1>4. \A k \in 1..Len(backtrack_points') :
         /\ IsPoint(program, Len(path), backtrack_points'[k])
         /\ k > n => backtrack_points'[k].path_len = Len(path)
  <2> SUFFICES ASSUME NEW k \in 1..Len(backtrack_points')
               PROVE  /\ IsPoint(program, Len(path), backtrack_points'[k])
                      /\ k > n => backtrack_points'[k].path_len = Len(path)
    BY Zenon
  <2>1. CASE k \in 1..n
    BY <2>1, <1>1, <1>2, Saved, SMTT(30)
  <2>2. CASE k - n \in 1..Len(alts) /\ k = n + (k - n)
    <3> DEFINE j == k - n
    <3>1. j \in 1..Len(alts) /\ backtrack_points'[k] = backtrack_points'[n + j]
      BY <2>2, Zenon
    <3>2. /\ backtrack_points'[n + j].loc = alts[j].loc
          /\ backtrack_points'[n + j].stack = stack
          /\ backtrack_points'[n + j].constraint = alts[j].constraint
          /\ backtrack_points'[n + j].path_len = Len(path)
      BY <3>1, Saved, Zenon
    <3>3. QED
      BY <1>1, <1>2, <3>1, <3>2, SMTT(30) DEF IsPoint
  <2>3. QED
    BY <2>1, <2>2, <1>3, Zenon
<1>5. \A k \in 1..n : backtrack_points'[k] = backtrack_points[k]
  BY Saved, Zenon
<1>6. \A j, k \in 1..Len(backtrack_points') :
         j <= k => backtrack_points'[j].path_len <= backtrack_points'[k].path_len
  <2> SUFFICES ASSUME NEW j \in 1..Len(backtrack_points'), NEW k \in 1..Len(backtrack_points'), j <= k
               PROVE  backtrack_points'[j].path_len <= backtrack_points'[k].path_len
    BY Zenon
  <2>1. backtrack_points'[j].path_len \in 0..Len(path)
    BY <1>4, Zenon DEF IsPoint
  <2>2. CASE k > n
    BY <1>1, <1>4, <2>1, <2>2, SMTT(30)
  <2>3. CASE ~(k > n)
    <3>1. j \in 1..n /\ k \in 1..n
      BY <1>1, <2>3, SMTT(30)
    <3>2. QED
      BY <1>2, <1>5, <3>1, Zenon
  <2>4. QED
    BY <2>2, <2>3, Zenon
<1>7. QED
  BY <1>4, <1>6, Saved, Zenon DEF ArePoints

LEMMA ForkKeeps ==
    ASSUME Base, ctl.at # "idle", UNCHANGED <<scenario, fresh>>,
           NEW bb, IsLabel(program, cur_loc, bb), NEW c, NEW alts, IsSeq(alts),
           \A j \in 1..Len(alts) : IsLoc(program, alts[j].loc) /\ alts[j].constraint \subseteq Inputs,
           Fork(bb, c, alts)
    PROVE  Base'
<1>1. /\ SaveBacktrackingPoints(alts)
      /\ solver' = AssertIn(PushTimes(solver, Len(alts)), c)
      /\ cur_loc' = StartOfBB(cur_loc, bb)
      /\ ctl' = Enter
      /\ UNCHANGED <<stack, path, native>>
  BY Zenon DEF Fork
<1>2. ArePoints(program, Len(path), backtrack_points') /\ Len(backtrack_points') = Len(backtrack_points) + Len(alts)
  BY <1>1, SavedArePoints, Saved, Zenon
<1>3. IsLoc(program, cur_loc')
  BY <1>1, FirstInstr, Zenon DEF Base, program
<1>4. Len(alts) \in Nat /\ Len(backtrack_points) \in Nat
  BY SeqShape, Zenon DEF Base, ArePoints
<1>5. solver' \in Seq(SUBSET Inputs) /\ Len(solver') = Len(solver) + Len(alts)
  <2> DEFINE s == PushTimes(solver, Len(alts))
  <2>1. solver \in Seq(SUBSET Inputs) /\ Len(solver) \in Nat /\ Len(solver) > 0
    BY <1>4, SMTT(30) DEF Base
  <2>2. s \in Seq(SUBSET Inputs) /\ Len(s) = Len(solver) + Len(alts)
    BY <1>4, <2>1, Pushed, Zenon
  <2> HIDE DEF s
  <2>3. AssertIn(s, c) \in Seq(SUBSET Inputs) /\ Len(AssertIn(s, c)) = Len(s)
    BY <1>4, <2>1, <2>2, Asserted, SMTT(30)
  <2>4. QED
    BY <1>1, <2>2, <2>3, Zenon DEF s
<1>6. Formed(ctl') /\ ctl'.at # "idle"
  BY <1>1, FormsBusy, Zenon DEF Busy
<1>7. Len(solver') = Len(backtrack_points') + 1 /\ Len(path') = Len(path)
  BY <1>1, <1>2, <1>4, <1>5, SMTT(30) DEF Base
<1>8. IsStack(program, stack') /\ IsNative(program, native') /\ IsSeq(path') /\ program' = program
  BY <1>1, Zenon DEF Base, program
<1>9. QED
  BY <1>1, <1>2, <1>3, <1>5, <1>6, <1>7, <1>8, Zenon DEF Base

LEMMA JumpKeeps ==
    ASSUME Base, ctl.at # "idle", UNCHANGED <<scenario, fresh>>,
           NEW bb, IsLabel(program, cur_loc, bb), NEW c, Fork(bb, c, <<>>)
    PROVE  Base'
<1>1. IsSeq(<<>>) /\ \A j \in 1..Len(<<>>) : FALSE
  BY EmptyIsSeq, SMTT(30)
<1> DEFINE alts == <<>>
<1>2. Fork(bb, c, alts) /\ IsSeq(alts) /\ \A j \in 1..Len(alts) : FALSE
  BY <1>1, Zenon
<1> HIDE DEF alts
<1>3. QED
  BY <1>2, ForkKeeps, Zenon

\* Instructions, terminators and calls that stay in the function.
LEMMA StraightKeeps ==
    ASSUME Base,
           \/ CallbackFails \/ DataOp \/ Phi \/ Unsupported \/ CallUnresolved \/ CallIgnored
           \/ CallUnknown \/ CallMalformed \/ Ret \/ Resume
    PROVE  Base'
<1>1. IsLoc(program, cur_loc)
  BY Zenon DEF Base
<1>2. /\ ctl.at # "idle"
      /\ UNCHANGED <<scenario, stack, native, path, solver, backtrack_points, fresh>>
  BY Zenon DEF CallbackFails, DataOp, Phi, Unsupported, CallUnresolved, CallIgnored, CallUnknown, CallMalformed,
         Ret, Resume, AtCall, At, state
<1>3. Busy(ctl)
  BY <1>2, Zenon DEF Base, Busy
<1>4. CASE CallbackFails
  BY <1>1, <1>2, <1>4, MoveKeeps, FormsBusy, Zenon DEF CallbackFails, state
<1>5. CASE DataOp
  <2>1. \E n, bv : RecordBVResult(n, bv) /\ Instr.op = "data"
    BY <1>5, Zenon DEF DataOp, At
  <2>2. QED
    BY <1>2, <1>3, <2>1, MoveKeeps, RecordMoves, Zenon
<1>6. CASE Phi
  <2>1. \/ \E n, bv : RecordBVResult(n, bv) /\ Instr.op = "phi"
        \/ ctl' = HandleErr("OtherError") /\ UNCHANGED cur_loc
    BY <1>6, Zenon DEF Phi, At, ChoosePhi
  <2>2. QED
    BY <1>1, <1>2, <1>3, <2>1, MoveKeeps, RecordMoves, FormsBusy, Zenon
<1>7. CASE Unsupported
  BY <1>1, <1>2, <1>7, MoveKeeps, FormsBusy, Zenon DEF Unsupported, state
<1>8. CASE CallUnresolved
  BY <1>1, <1>2, <1>8, MoveKeeps, FormsBusy, Zenon DEF CallUnresolved
<1>9. CASE CallIgnored
  <2>1. \/ \E vm, default : ContinueAfter(Instr, cur_loc, vm, default)
        \/ \E vm, bv, default : AssignCallResult(Instr, cur_loc, vm, bv, default)
        \/ ctl' = CallErr(Instr, "LoopBoundExceeded") /\ UNCHANGED cur_loc
    BY <1>9, Zenon DEF CallIgnored
  <2>2. IsLoc(program, cur_loc') /\ Busy(ctl')
    BY <1>1, <2>1, InstrHere, ContinueMoves, AssignMoves, FormsBusy, Zenon
  <2>3. QED
    BY <1>2, <2>2, MoveKeeps, Zenon
<1>10. CASE CallUnknown
  BY <1>1, <1>2, <1>10, MoveKeeps, FormsBusy, Zenon DEF CallUnknown, state
<1>11. CASE CallMalformed
  BY <1>1, <1>2, <1>11, MoveKeeps, FormsBusy, Zenon DEF CallMalformed
<1>12. CASE Ret
  BY <1>1, <1>2, <1>12, MoveKeeps, FormsBusy, Zenon DEF Ret, state
<1>13. CASE Resume
  BY <1>1, <1>2, <1>13, MoveKeeps, FormsBusy, Zenon DEF Resume, state
<1>14. QED
  BY <1>4, <1>5, <1>6, <1>7, <1>8, <1>9, <1>10, <1>11, <1>12, <1>13, Zenon

\* A hook moves on, and may assert a constraint.
LEMMA HookedKeeps ==
    ASSUME Base, CallHooked
    PROVE  Base'
<1>1. IsLoc(program, cur_loc) /\ Instr = InstrIn(program, cur_loc)
  BY InstrHere, Zenon DEF Base
<1>2. /\ ctl.at # "idle"
      /\ UNCHANGED <<scenario, stack, native, path, backtrack_points, fresh>>
      /\ \E c : solver' = AssertIn(solver, c)
  BY Zenon DEF CallHooked, AtCall, At
<1>3. \/ \E vm, default : ContinueAfter(Instr, cur_loc, vm, default)
      \/ \E vm, bv, default : AssignCallResult(Instr, cur_loc, vm, bv, default)
      \/ \E res : ctl' = Returning(res) /\ res.tag \in {"Throw", "Abort"} /\ UNCHANGED cur_loc
      \/ \E vm, ptr : Instr.op = "invoke" /\ CatchAtExceptionLabel(vm, ptr, cur_loc, Instr.exception_label)
      \/ \E e : ctl' = CallErr(Instr, e) /\ UNCHANGED cur_loc
  BY Zenon DEF CallHooked
<1>4. Instr.op = "invoke" => IsLabel(program, cur_loc, Instr.exception_label)
  BY <1>1, LabelsFormed, Zenon DEF Base, program
<1>5. \A res : res.tag \in {"Throw", "Abort"} => Busy(Returning(res))
  BY Zenon DEF Busy, Formed, Returning
<1>6. IsLoc(program, cur_loc') /\ Busy(ctl')
  BY <1>1, <1>3, <1>4, <1>5, ContinueMoves, AssignMoves, CatchMoves, FormsBusy, SMTT(30)
<1>7. solver' \in Seq(SUBSET Inputs) /\ Len(solver') = Len(solver)
  <2>1. Len(backtrack_points) \in Nat
    BY SeqShape, Zenon DEF Base, ArePoints
  <2>2. solver \in Seq(SUBSET Inputs) /\ Len(solver) > 0
    BY <2>1, SMTT(30) DEF Base
  <2>3. QED
    BY <1>2, <2>2, Asserted, SMTT(30)
<1>8. QED
  BY <1>2, <1>6, <1>7, Zenon DEF Base, program, Busy

LEMMA NullKeeps ==
    ASSUME Base, ctl.at # "idle", UNCHANGED <<scenario, native, fresh>>,
           NEW addr, NullDereference(addr)
    PROVE  Base'
<1> DEFINE alts == IF config.null_pointer_checking = "SplitPath"
                   THEN <<[loc |-> cur_loc, constraint |-> NonZero(addr)]>> ELSE <<>>
<1>1. /\ SaveBacktrackingPoints(alts)
      /\ solver' = PushTimes(solver, Len(alts))
      /\ ctl' = InstrErr("NullPointerDereference")
      /\ UNCHANGED <<cur_loc, stack, path>>
  BY Zenon DEF NullDereference
<1>2. IsSeq(alts) /\ Len(alts) \in Nat
  <2>1. IsSeq(<<[loc |-> cur_loc, constraint |-> NonZero(addr)]>>)
    <3>1. <<[loc |-> cur_loc, constraint |-> NonZero(addr)]>> \in Seq({[loc |-> cur_loc, constraint |-> NonZero(addr)]})
      BY SMTT(30)
    <3>2. QED
      BY <3>1, InSeq, Zenon
  <2>2. IsSeq(alts)
    BY <2>1, EmptyIsSeq, Zenon
  <2>3. QED
    BY <2>2, SeqShape, Zenon
<1>3. \A j \in 1..Len(alts) : alts[j] = [loc |-> cur_loc, constraint |-> NonZero(addr)]
  BY SMTT(30)
<1>4. \A j \in 1..Len(alts) : IsLoc(program, alts[j].loc) /\ alts[j].constraint \subseteq Inputs
  BY <1>3, SMTT(30) DEF Base, NonZero
<1> HIDE DEF alts
<1>5. ArePoints(program, Len(path), backtrack_points') /\ Len(backtrack_points') = Len(backtrack_points) + Len(alts)
  BY <1>1, <1>2, <1>4, SavedArePoints, Saved, Zenon
<1>6. Len(backtrack_points) \in Nat
  BY SeqShape, Zenon DEF Base, ArePoints
<1>7. solver \in Seq(SUBSET Inputs) /\ Len(solver) > 0
  BY <1>6, SMTT(30) DEF Base
<1>8. solver' \in Seq(SUBSET Inputs) /\ Len(solver') = Len(solver) + Len(alts)
  BY <1>1, <1>2, <1>7, Pushed, Zenon
<1>9. Formed(ctl') /\ ctl'.at # "idle"
  BY <1>1, FormsBusy, Zenon DEF Busy
<1>10. QED
  BY <1>1, <1>2, <1>5, <1>6, <1>8, <1>9, SMTT(30) DEF Base, program

LEMMA MemoryKeeps ==
    ASSUME Base, Load \/ Store
    PROVE  Base'
<1>1. ctl.at # "idle" /\ UNCHANGED <<scenario, native, fresh>> /\ Instr.op \in {"load", "store"}
  BY Zenon DEF Load, Store, At
<1>2. Busy(ctl)
  BY <1>1, Zenon DEF Base, Busy
<1>3. CASE \E addr : NullDereference(addr)
  BY <1>1, <1>3, NullKeeps, Zenon
<1>4. CASE /\ \E n, bv : RecordBVResult(n, bv)
           /\ Instr.op = "load"
           /\ UNCHANGED <<stack, path, solver, backtrack_points>>
  BY <1>1, <1>2, <1>4, RecordMoves, MoveKeeps, Zenon
<1>5. CASE /\ cur_loc' = Inc(cur_loc)
           /\ UNCHANGED <<ctl, stack, path, solver, backtrack_points>>
  <2>1. IsLoc(program, cur_loc')
    BY <1>1, <1>5, NextInstr, InstrHere, Zenon DEF Base, program
  <2>2. QED
    BY <1>1, <1>2, <1>5, <2>1, MoveKeeps, Zenon
<1>6. QED
  BY <1>3, <1>4, <1>5, Zenon DEF Load, Store, At

LEMMA Tailed ==
    ASSUME NEW s, IsSeq(s), Len(s) > 0
    PROVE  /\ IsSeq(Tail(s))
           /\ Len(Tail(s)) = Len(s) - 1
           /\ \A j \in 1..(Len(s) - 1) : Tail(s)[j] = s[j + 1]
<1> DEFINE S == {s[k] : k \in 1..Len(s)}
<1>1. s \in Seq(S) /\ s # <<>>
  BY EmptyIsSeq, SMTT(30) DEF IsSeq
<1> HIDE DEF S
<1>2. /\ Tail(s) \in Seq(S)
      /\ Len(Tail(s)) = Len(s) - 1
      /\ \A j \in 1..Len(Tail(s)) : Tail(s)[j] = s[j + 1]
  BY <1>1, TailInSeq, Zenon
<1>3. QED
  BY <1>2, InSeq, Zenon

\* The ways on from a switch, in a list: the n cases that order gives, then
\* the default if it is feasible.
AreAlts(alts, v, ins, order, n, default) ==
    /\ IsSeq(alts)
    /\ SatWithExtraConstraint(solver, default) => Len(alts) = n + 1
    /\ ~SatWithExtraConstraint(solver, default) => Len(alts) = n
    /\ \A j \in 1..n : alts[j] = Alt(ins.dests[order[j]].bb, CaseConstraint(v, ins.dests[order[j]]))
    /\ SatWithExtraConstraint(solver, default) => alts[n + 1] = Alt(ins.default_dest, default)

LEMMA SwitchAltsAre ==
    ASSUME NEW v, NEW ins, NEW n \in Nat, n >= 1, NEW S, NEW order \in [1..n -> S]
    PROVE  AreAlts(SwitchAlts(v, ins, order), v, ins, order, n, DefaultConstraint(v, ins.dests))
<1> DEFINE alts    == SwitchAlts(v, ins, order)
           default == DefaultConstraint(v, ins.dests)
           s == [j \in 1..n |-> Alt(ins.dests[order[j]].bb, CaseConstraint(v, ins.dests[order[j]]))]
           t == IF SatWithExtraConstraint(solver, default) THEN <<Alt(ins.default_dest, default)>> ELSE <<>>
<1>1. Len(order) = n
  <2>1. order = [j \in 1..n |-> order[j]]
    BY Zenon
  <2>2. QED
    BY <2>1, FcnIsSeq, Zenon
<1>2. alts = s \o t
  BY <1>1, Zenon DEF SwitchAlts
<1>3. IsSeq(s) /\ Len(s) = n
  BY FcnIsSeq, Zenon
<1>4. /\ SatWithExtraConstraint(solver, default) => IsSeq(t) /\ Len(t) = 1
      /\ ~SatWithExtraConstraint(solver, default) => IsSeq(t) /\ Len(t) = 0
  BY SingleIsSeq, EmptyIsSeq, Zenon
<1>5. SatWithExtraConstraint(solver, default) => t[1] = Alt(ins.default_dest, default)
  BY Zenon
<1>6. \A j \in 1..n : s[j] = Alt(ins.dests[order[j]].bb, CaseConstraint(v, ins.dests[order[j]]))
  BY Zenon
<1> HIDE DEF s, t, alts, default
<1>7. /\ IsSeq(alts)
      /\ Len(alts) = Len(s) + Len(t)
      /\ \A k \in 1..(Len(s) + Len(t)) : alts[k] = IF k <= Len(s) THEN s[k] ELSE t[k - Len(s)]
  <2>1. IsSeq(t)
    BY <1>4, Zenon
  <2>2. /\ IsSeq(s \o t)
        /\ Len(s \o t) = Len(s) + Len(t)
        /\ \A k \in 1..(Len(s) + Len(t)) : (s \o t)[k] = IF k <= Len(s) THEN s[k] ELSE t[k - Len(s)]
    BY <1>3, <2>1, Joined, Zenon
  <2>3. QED
    BY <1>2, <2>2, Zenon
<1>8. /\ SatWithExtraConstraint(solver, default) => Len(alts) = n + 1
      /\ ~SatWithExtraConstraint(solver, default) => Len(alts) = n
  <2>1. Len(alts) = n + Len(t)
    BY <1>3, <1>7, Zenon
  <2>2. Len(t) = 1 => Len(alts) = n + 1
    BY <2>1, Zenon
  <2>3. Len(t) = 0 => Len(alts) = n
    BY <2>1, SMTT(30)
  <2>4. QED
    BY <1>4, <2>2, <2>3, Zenon
<1>9. \A j \in 1..n : alts[j] = s[j]
  <2>1. Len(t) \in Nat
    BY <1>4, SMTT(30)
  <2>2. QED
    BY <1>3, <1>7, <2>1, SMTT(30)
<1>10. SatWithExtraConstraint(solver, default) => alts[n + 1] = t[1]
  <2>1. Len(t) = 1 => alts[n + 1] = t[1]
    <3>1. Len(t) = 1 => n + 1 \in 1..(Len(s) + Len(t)) /\ (n + 1) - Len(s) = 1 /\ ~(n + 1 <= Len(s))
      BY <1>3, SMTT(30)
    <3>2. QED
      BY <1>7, <3>1, Zenon
  <2>2. QED
    BY <1>4, <2>1, Zenon
<1>11. AreAlts(alts, v, ins, order, n, default)
  BY <1>5, <1>6, <1>7, <1>8, <1>9, <1>10, Zenon DEF AreAlts
<1>12. QED
  BY <1>11, Zenon DEF alts, default

LEMMA AltIs == \A bb, c : Alt(bb, c).constraint = c
BY Zenon DEF Alt

\* The ways on from a switch: n cases, and the default if it is feasible.
LEMMA AltsShape ==
    ASSUME NEW alts, NEW v, NEW ins, NEW order, NEW n \in Nat, n >= 1, NEW default,
           AreAlts(alts, v, ins, order, n, default)
    PROVE  /\ IsSeq(alts) /\ Len(alts) \in Nat /\ Len(alts) >= 1
           /\ \A j \in 1..n : j \in 1..Len(alts) /\ j # n + 1
           /\ SatWithExtraConstraint(solver, default) => n + 1 \in 1..Len(alts)
           /\ \A j \in 1..Len(alts) : j \in 1..n \/ (j = n + 1 /\ SatWithExtraConstraint(solver, default))
<1>1. /\ IsSeq(alts)
      /\ SatWithExtraConstraint(solver, default) => Len(alts) = n + 1
      /\ ~SatWithExtraConstraint(solver, default) => Len(alts) = n
  BY Zenon DEF AreAlts
<1>2. \A j \in 1..n : j \in 1..(n + 1) /\ j # n + 1
  BY SMTT(30)
<1>3. \A j \in 1..(n + 1) : j \in 1..n \/ j = n + 1
  BY SMTT(30)
<1>4. n + 1 \in 1..(n + 1) /\ n + 1 \in Nat /\ n + 1 >= 1
  BY SMTT(30)
<1>5. QED
  BY <1>1, <1>2, <1>3, <1>4, Zenon

LEMMA BranchKeeps ==
    ASSUME Base, Br \/ CondBr \/ Switch
    PROVE  Base'
<1>1. scenario \in Scenarios /\ IsLoc(scenario.program, cur_loc) /\ Instr = InstrIn(scenario.program, cur_loc)
  BY InstrHere, Zenon DEF Base, program
<1>2. ctl.at # "idle" /\ UNCHANGED <<scenario, fresh>>
  BY Zenon DEF Br, CondBr, Switch, At
<1>3. \A bb, c : IsLabel(program, cur_loc, bb) /\ c \subseteq Inputs =>
          IsLoc(program, Alt(bb, c).loc) /\ Alt(bb, c).constraint \subseteq Inputs
  BY <1>1, FirstInstr, Zenon DEF Alt, program
<1>4. \A bv : NonZero(bv) \subseteq Inputs /\ IsZero(bv) \subseteq Inputs
  BY Zenon DEF NonZero, IsZero
<1>5. CASE Br
  <2>1. IsLabel(program, cur_loc, Instr.dest)
    BY <1>1, <1>5, LabelsFormed, Zenon DEF Br, At, program
  <2>2. QED
    BY <1>2, <1>5, <2>1, JumpKeeps, Zenon DEF Br
<1>6. CASE CondBr
  <2> DEFINE bv == OperandToBV(Instr.args[1])
  <2>1. IsLabel(program, cur_loc, Instr.true_dest) /\ IsLabel(program, cur_loc, Instr.false_dest)
    BY <1>1, <1>6, LabelsFormed, Zenon DEF CondBr, At, program
  <2>2. CASE Fork(Instr.true_dest, NonZero(bv), <<Alt(Instr.false_dest, IsZero(bv))>>)
    <3> DEFINE alt  == Alt(Instr.false_dest, IsZero(bv))
               alts == <<alt>>
    <3>1. alts \in Seq({alt}) /\ \A j \in 1..Len(alts) : alts[j] = alt
      BY SMTT(30)
    <3>2. IsLoc(program, alt.loc) /\ alt.constraint \subseteq Inputs
      BY <1>3, <1>4, <2>1, Zenon
    <3>3. IsSeq(alts) /\ \A j \in 1..Len(alts) : IsLoc(program, alts[j].loc) /\ alts[j].constraint \subseteq Inputs
      BY <3>1, <3>2, InSeq, Zenon
    <3> HIDE DEF alts
    <3>4. Fork(Instr.true_dest, NonZero(bv), alts)
      BY <2>2, Zenon DEF alts
    <3>5. QED
      BY <1>2, <2>1, <3>3, <3>4, ForkKeeps, Zenon
  <2>3. ASSUME NEW bb, NEW c, bb = Instr.true_dest \/ bb = Instr.false_dest, Fork(bb, c, <<>>)
        PROVE  Base'
    BY <1>2, <2>1, <2>3, JumpKeeps, Zenon
  <2>4. CASE ctl' = Backtracking("dead") /\ UNCHANGED <<state, native>>
    BY <1>1, <1>2, <2>4, MoveKeeps, FormsBusy, Zenon DEF state, program
  <2>5. QED
    <3>1. \/ Fork(Instr.true_dest, NonZero(bv), <<Alt(Instr.false_dest, IsZero(bv))>>)
          \/ Fork(Instr.true_dest, NonZero(bv), <<>>)
          \/ Fork(Instr.false_dest, IsZero(bv), <<>>)
          \/ ctl' = Backtracking("dead") /\ UNCHANGED <<state, native>>
      BY <1>6, Zenon DEF CondBr
    <3>2. QED
      BY <2>2, <2>3, <2>4, <3>1, Zenon
<1>7. CASE Switch
  <2> DEFINE v == OperandToBV(Instr.args[1])
             feasible == FeasibleCases(v, Instr.dests)
  <2>1. /\ Len(Instr.dests) \in Nat
        /\ IsLabel(program, cur_loc, Instr.default_dest)
        /\ \A j \in 1..Len(Instr.dests) : IsLabel(program, cur_loc, Instr.dests[j].bb)
    BY <1>1, <1>7, LabelsFormed, Zenon DEF Switch, At, program
  <2>2. CASE Fork(Instr.default_dest, Inputs, <<>>)
    BY <1>2, <2>1, <2>2, JumpKeeps, Zenon
  <2>3. ASSUME NEW n \in 1..Len(Instr.dests), NEW order \in [1..n -> feasible],
               LET alts == SwitchAlts(v, Instr, order)
               IN  Fork(alts[1].loc.bb, alts[1].constraint, Tail(alts))
        PROVE  Base'
    <3> DEFINE alts == SwitchAlts(v, Instr, order)
               default == DefaultConstraint(v, Instr.dests)
    <3>1. \A j \in 1..n : order[j] \in 1..Len(Instr.dests)
      BY Zenon DEF FeasibleCases
    <3>2. default \subseteq Inputs /\ \A d : CaseConstraint(v, d) \subseteq Inputs
      BY Zenon DEF DefaultConstraint, CaseConstraint
    <3>3. n \in Nat /\ n >= 1 /\ order \in [1..n -> feasible]
      BY <2>1, SMTT(30)
    <3>4. AreAlts(alts, v, Instr, order, n, default)
      BY <3>3, SwitchAltsAre, Zenon
    <3> HIDE DEF alts, default, v
    <3>5. \A j \in 1..Len(alts) : IsLoc(program, alts[j].loc) /\ alts[j].constraint \subseteq Inputs
      <4> TAKE j \in 1..Len(alts)
      <4>1. CASE j \in 1..n
        <5>1. order[j] \in 1..Len(Instr.dests) /\ IsLabel(program, cur_loc, Instr.dests[order[j]].bb)
          BY <2>1, <3>1, <4>1, Zenon
        <5>2. alts[j] = Alt(Instr.dests[order[j]].bb, CaseConstraint(v, Instr.dests[order[j]]))
          BY <3>4, <4>1, Zenon DEF AreAlts
        <5>3. QED
          BY <1>3, <3>2, <5>1, <5>2, Zenon
      <4>2. CASE j = n + 1 /\ SatWithExtraConstraint(solver, default)
        <5>1. alts[j] = Alt(Instr.default_dest, default)
          BY <3>4, <4>2, Zenon DEF AreAlts
        <5>2. QED
          BY <1>3, <2>1, <3>2, <5>1, Zenon
      <4>3. QED
        BY <3>3, <3>4, <4>1, <4>2, AltsShape, Zenon
    <3>6. IsLabel(program, cur_loc, alts[1].loc.bb)
      <4>1. alts[1] = Alt(Instr.dests[order[1]].bb, CaseConstraint(v, Instr.dests[order[1]])) /\ order[1] \in 1..Len(Instr.dests)
        <5>1. 1 \in 1..n
          BY <3>3, SMTT(30)
        <5>2. QED
          BY <3>1, <3>4, <5>1, Zenon DEF AreAlts
      <4>2. cur_loc \in [func : DOMAIN program, bb : Nat, instr : Nat]
        BY <1>1, Zenon DEF IsLoc, program
      <4>3. alts[1].loc.bb = Instr.dests[order[1]].bb
        <5>1. \A bb, c : Alt(bb, c).loc.bb = bb
          BY <4>2, Zenon DEF Alt, StartOfBB
        <5>2. QED
          BY <4>1, <5>1, SMTT(30)
      <4>4. QED
        BY <2>1, <4>1, <4>3, Zenon
    <3>7. IsSeq(alts) /\ Len(alts) \in Nat /\ Len(alts) >= 1
      BY <3>3, <3>4, AltsShape, Zenon
    <3>8. /\ IsSeq(Tail(alts))
          /\ \A j \in 1..Len(Tail(alts)) :
                IsLoc(program, Tail(alts)[j].loc) /\ Tail(alts)[j].constraint \subseteq Inputs
      <4>1. Len(alts) > 0 /\ \A j \in 1..(Len(alts) - 1) : j + 1 \in 1..Len(alts)
        BY <3>7, SMTT(30)
      <4>2. /\ IsSeq(Tail(alts)) /\ Len(Tail(alts)) = Len(alts) - 1
            /\ \A j \in 1..(Len(alts) - 1) : Tail(alts)[j] = alts[j + 1]
        BY <3>7, <4>1, Tailed, Zenon
      <4>3. QED
        BY <3>5, <4>1, <4>2, Zenon
    <3>9. Fork(alts[1].loc.bb, alts[1].constraint, Tail(alts))
      BY <2>3, Zenon DEF alts, v
    <3>10. QED
      BY <1>2, <3>6, <3>8, <3>9, ForkKeeps, Zenon
  <2>4. QED
    BY <1>7, <2>2, <2>3, Zenon DEF Switch
<1>8. QED
  BY <1>5, <1>6, <1>7, Zenon

\* A longer path holds the same backtracking points.
LEMMA PointsGrow ==
    ASSUME NEW p, NEW n \in Nat, NEW m \in Nat, n <= m, NEW bps, ArePoints(p, n, bps)
    PROVE  ArePoints(p, m, bps)
BY SMTT(30) DEF ArePoints, IsPoint

\* A step that leaves the backtracking points and their levels alone.
LEMMA StackStepKeeps ==
    ASSUME Base, ctl.at # "idle", UNCHANGED <<scenario, fresh, solver, backtrack_points>>,
           IsLoc(program, cur_loc'), IsStack(program, stack'), IsNative(program, native'),
           IsSeq(path'), Len(path) <= Len(path'), Busy(ctl')
    PROVE  Base'
<1>1. Len(path) \in Nat /\ Len(path') \in Nat
  BY SeqShape, Zenon DEF Base
<1>2. ArePoints(program, Len(path'), backtrack_points)
  BY <1>1, PointsGrow, Zenon DEF Base
<1>3. QED
  BY <1>2, Zenon DEF Base, Busy, program

LEMMA PathGrows ==
    ASSUME Base, NEW loc, path' = Append(path, loc)
    PROVE  IsSeq(path') /\ Len(path) <= Len(path')
<1>1. IsSeq(path) /\ Len(path) \in Nat
  BY SeqShape, Zenon DEF Base
<1>2. QED
  BY <1>1, Appended, SMTT(30)

LEMMA EnterKeeps ==
    ASSUME Base, EnterBlock \/ CatchEnter
    PROVE  Base'
<1>1. /\ ctl.at # "idle"
      /\ UNCHANGED <<scenario, fresh, solver, backtrack_points, cur_loc, stack, native>>
      /\ path' = path \/ path' = Append(path, cur_loc)
  BY Zenon DEF EnterBlock, CatchEnter
<1>2. IsSeq(path') /\ Len(path) <= Len(path')
  BY <1>1, PathGrows, SeqShape, SMTT(30) DEF Base
<1>3. Busy(ctl')
  <2>1. CASE EnterBlock
    BY <2>1, FormsBusy, Zenon DEF EnterBlock
  <2>2. CASE CatchEnter
    <3>1. ctl = Catch(ctl.exc) /\ ctl' = [ctl EXCEPT !.at = "pad"]
      BY <2>2, Zenon DEF CatchEnter, Base, Formed
    <3>2. ctl'.at = "pad"
      BY <3>1, Zenon DEF Catch
    <3>3. QED
      BY <3>2, Zenon DEF Busy, Formed
  <2>3. QED
    BY <2>1, <2>2, Zenon
<1>4. IsLoc(program, cur_loc') /\ IsStack(program, stack') /\ IsNative(program, native')
  BY <1>1, Zenon DEF Base
<1>5. QED
  BY <1>1, <1>2, <1>3, <1>4, StackStepKeeps, Zenon

LEMMA PadKeeps ==
    ASSUME Base, LandingPad
    PROVE  Base'
<1>1. /\ ctl.at # "idle"
      /\ UNCHANGED <<scenario, stack, native, path, solver, backtrack_points, fresh>>
      /\ IsLoc(program, cur_loc) /\ Instr = InstrIn(program, cur_loc)
  BY InstrHere, Zenon DEF LandingPad, Base
<1>2. Busy(ctl)
  BY <1>1, Zenon DEF Base, Busy
<1>3. \/ \E n, bv : RecordBVResult(n, bv) /\ Instr.op = "phi"
      \/ ctl' = HandleErr("OtherError") /\ UNCHANGED cur_loc
      \/ Instr.op = "landingpad" /\ cur_loc' = Inc(cur_loc) /\ ctl' = Enter
      \/ \E e : ctl' = CatchErr(e) /\ UNCHANGED cur_loc
  BY Zenon DEF LandingPad, ChoosePhi
<1>4. Instr.op = "landingpad" => IsLoc(program, Inc(cur_loc))
  BY <1>1, NextInstr, Zenon DEF Base, program
<1>5. IsLoc(program, cur_loc') /\ Busy(ctl')
  BY <1>1, <1>2, <1>3, <1>4, RecordMoves, FormsBusy, Zenon
<1>6. QED
  BY <1>1, <1>5, MoveKeeps, Zenon
-----------------------------------------------------------------------------
(* The callstack and the native stack.                                       *)

\* What is popped, and what remains.
LEMMA Popped ==
    ASSUME NEW s, IsSeq(s), s # <<>>
    PROVE  /\ Len(s) \in Nat /\ Len(s) > 0
           /\ IsSeq(SubSeq(s, 1, Len(s) - 1))
           /\ Len(SubSeq(s, 1, Len(s) - 1)) = Len(s) - 1
           /\ \A k \in 1..(Len(s) - 1) : SubSeq(s, 1, Len(s) - 1)[k] = s[k]
<1>1. Len(s) \in Nat /\ Len(s) > 0
  BY SeqShape, LengthZero, SMTT(30)
<1>2. Len(s) - 1 \in 0..Len(s)
  BY <1>1, SMTT(30)
<1>3. QED
  BY <1>1, <1>2, Cut, Zenon

LEMMA FramePopped ==
    ASSUME Base, native # <<>>
    PROVE  /\ IsFrame(program, Frame)
           /\ PopFrame => IsNative(program, native')
<1>1. IsSeq(native) /\ \A j \in 1..Len(native) : IsFrame(program, native[j])
  BY Zenon DEF Base, IsNative
<1>2. Len(native) \in Nat /\ Len(native) > 0
  BY <1>1, Popped, Zenon
<1>3. ASSUME PopFrame
      PROVE  IsNative(program, native')
  <2>1. /\ IsSeq(native')
        /\ Len(native') = Len(native) - 1
        /\ \A k \in 1..(Len(native) - 1) : native'[k] = native[k]
    BY <1>1, <1>3, Popped, Zenon DEF PopFrame
  <2>2. QED
    BY <1>1, <1>2, <2>1, SMTT(30) DEF IsNative
<1>4. QED
  BY <1>1, <1>2, <1>3, SMTT(30) DEF Frame

LEMMA CallsitePopped ==
    ASSUME Base, stack # <<>>
    PROVE  /\ IsCallsite(program, Callsite)
           /\ PopCallsite => IsStack(program, stack')
<1>1. IsSeq(stack) /\ \A j \in 1..Len(stack) : IsCallsite(program, stack[j])
  BY Zenon DEF Base, IsStack
<1>2. Len(stack) \in Nat /\ Len(stack) > 0
  BY <1>1, Popped, SMTT(30)
<1>3. ASSUME PopCallsite
      PROVE  IsStack(program, stack')
  <2>1. /\ IsSeq(stack')
        /\ Len(stack') = Len(stack) - 1
        /\ \A k \in 1..(Len(stack) - 1) : stack'[k] = stack[k]
    BY <1>1, <1>3, Popped, SMTT(30) DEF PopCallsite
  <2>2. QED
    BY <1>1, <1>2, <2>1, SMTT(30) DEF IsStack
<1>4. QED
  BY <1>1, <1>2, <1>3, SMTT(30) DEF Callsite

LEMMA AppendedKeeps ==
    ASSUME NEW p, NEW e
    PROVE  /\ \A st : IsStack(p, st) /\ IsCallsite(p, e) => IsStack(p, Append(st, e))
           /\ \A nat : IsNative(p, nat) /\ IsFrame(p, e) => IsNative(p, Append(nat, e))
<1>1. ASSUME NEW s, IsSeq(s)
      PROVE  /\ IsSeq(Append(s, e))
             /\ \A k \in 1..Len(Append(s, e)) : Append(s, e)[k] = e \/ (k \in 1..Len(s) /\ Append(s, e)[k] = s[k])
  <2>1. /\ IsSeq(Append(s, e))
        /\ Len(Append(s, e)) = Len(s) + 1
        /\ \A k \in 1..Len(s) : Append(s, e)[k] = s[k]
        /\ Append(s, e)[Len(s) + 1] = e
    BY <1>1, Appended, Zenon
  <2>2. Len(s) \in Nat
    BY <1>1, SeqShape, Zenon
  <2>3. \A k \in 1..(Len(s) + 1) : k = Len(s) + 1 \/ k \in 1..Len(s)
    BY <2>2, SMTT(30)
  <2>4. QED
    BY <2>1, <2>3, Zenon
<1>2. ASSUME NEW st, IsStack(p, st), IsCallsite(p, e)
      PROVE  IsStack(p, Append(st, e))
  BY <1>1, <1>2, Zenon DEF IsStack
<1>3. ASSUME NEW nat, IsNative(p, nat), IsFrame(p, e)
      PROVE  IsNative(p, Append(nat, e))
  BY <1>1, <1>3, SMTT(30) DEF IsNative
<1>4. QED
  BY <1>2, <1>3, Zenon

LEMMA EnteredKeeps ==
    ASSUME Base, CallEntered
    PROVE  Base'
<1> DEFINE cs == [loc |-> cur_loc, instr |-> Instr, restore_info |-> RestoreInfoFor(varmap, cur_loc.func)]
           fr == [kind |-> Instr.op, loc |-> cur_loc]
<1>1. /\ ctl.at # "idle"
      /\ Instr.op \in {"call", "invoke"}
      /\ UNCHANGED <<scenario, fresh, path, solver, backtrack_points>>
      /\ Callee(Instr) \in DOMAIN program /\ cur_loc' = Start(Callee(Instr))
      /\ stack' = Append(stack, cs)
      /\ \/ native' = Append(native, fr) /\ ctl' = Enter
         \/ UNCHANGED native /\ \E e : ctl' = CallErr(Instr, e)
  BY Zenon DEF CallEntered, AtCall, At
<1>2. scenario \in Scenarios /\ IsLoc(program, cur_loc) /\ Instr = InstrIn(program, cur_loc)
  BY InstrHere, Zenon DEF Base
<1>3. IsLoc(program, cur_loc')
  BY <1>1, <1>2, FirstOfFunction, Zenon DEF program
<1>4. IsCallsite(program, cs) /\ IsFrame(program, fr)
  BY <1>1, <1>2, Zenon DEF IsCallsite, IsFrame
<1>5. IsStack(program, stack) /\ IsNative(program, native) /\ IsSeq(path) /\ Len(path) \in Nat
  BY SeqShape, Zenon DEF Base
<1> HIDE DEF cs, fr
<1>6. IsStack(program, stack') /\ IsNative(program, native')
  BY <1>1, <1>4, <1>5, AppendedKeeps, Zenon
<1>7. Busy(ctl')
  BY <1>1, FormsBusy, Zenon
<1>8. QED
  BY <1>1, <1>3, <1>5, <1>6, <1>7, StackStepKeeps, SMTT(30)

\* A result comes back to symex_call, symex_invoke or symex_from_cur_loc.
LEMMA CalleeEndsKeeps ==
    ASSUME Base, CalleeFails \/ CalleeFinishedElsewhere \/ UnexpectedCallsite \/ FromCurLocEnds
    PROVE  Base'
<1>1. /\ ctl.at = "return" /\ native # <<>>
      /\ UNCHANGED <<scenario, fresh, path, solver, backtrack_points, cur_loc, stack>>
      /\ PopFrame \/ UNCHANGED native
  BY Zenon DEF CalleeFails, CalleeFinishedElsewhere, UnexpectedCallsite, FromCurLocEnds, ReturnsTo, state
<1>2. Busy(ctl)
  BY <1>1, Zenon DEF Base, Busy
<1>3. \/ \E ins, e : ctl' = CallErr(ins, e)
      \/ \E why \in {"none", "dead"} : ctl' = Backtracking(why)
      \/ ctl' = Returning(Err("Unsat"))
      \/ ctl' = ctl
      \/ ctl' = Panic
      \/ \E ptr : ctl' = Unwind(ptr)
  BY Zenon DEF CalleeFails, CalleeFinishedElsewhere, UnexpectedCallsite, FromCurLocEnds
<1>4. Busy(ctl')
  BY <1>2, <1>3, FormsBusy, Zenon
<1>5. /\ IsNative(program, native') /\ IsStack(program, stack') /\ IsLoc(program, cur_loc')
      /\ IsSeq(path') /\ Len(path) <= Len(path')
  BY <1>1, FramePopped, SeqShape, SMTT(30) DEF Base
<1>6. QED
  BY <1>1, <1>4, <1>5, StackStepKeeps, Zenon

LEMMA CallReturnsKeeps ==
    ASSUME Base, CallReturns
    PROVE  Base'
<1>1. /\ ctl.at = "return" /\ native # <<>> /\ stack # <<>> /\ Frame.kind = "call"
      /\ UNCHANGED <<scenario, fresh, solver, backtrack_points>>
      /\ PopFrame /\ PopCallsite
      /\ cur_loc' = Inc(Frame.loc) /\ path' = Append(path, Inc(Frame.loc))
      /\ ctl' = Exec \/ ctl' = InstrErr("LoopBoundExceeded") \/ ctl' = ctl
  BY Zenon DEF CallReturns, ReturnsTo
<1>2. Busy(ctl')
  <2>1. Busy(ctl)
    BY <1>1, Zenon DEF Base, Busy
  <2>2. QED
    BY <1>1, <2>1, FormsBusy, Zenon
<1>3. scenario \in Scenarios /\ IsLoc(program, Frame.loc) /\ InstrIn(program, Frame.loc).op = "call"
  BY <1>1, FramePopped, Zenon DEF Base, IsFrame
<1>4. IsLoc(program, cur_loc')
  BY <1>1, <1>3, NextInstr, Zenon DEF program
<1>5. IsNative(program, native') /\ IsStack(program, stack') /\ IsSeq(path') /\ Len(path) <= Len(path')
  BY <1>1, FramePopped, CallsitePopped, PathGrows, Zenon
<1>6. QED
  BY <1>1, <1>2, <1>4, <1>5, StackStepKeeps, Zenon

LEMMA InvokeReturnsKeeps ==
    ASSUME Base, InvokeReturns
    PROVE  Base'
<1> DEFINE loc == Frame.loc
           ins == InstrAt(Frame.loc)
<1>1. /\ ctl.at = "return" /\ native # <<>> /\ stack # <<>> /\ Frame.kind = "invoke"
      /\ UNCHANGED <<scenario, fresh, path, solver, backtrack_points>>
      /\ PopFrame /\ PopCallsite
      /\ \/ \E vm, bv, default : AssignCallResult(ins, loc, vm, bv, default)
         \/ \E vm, default : ContinueAfter(ins, loc, vm, default)
         \/ \E vm, ptr : CatchAtExceptionLabel(vm, ptr, loc, ins.exception_label)
         \/ cur_loc' = loc /\ ctl' = ctl
  BY Zenon DEF InvokeReturns, ReturnsTo
<1>2. Busy(ctl)
  BY <1>1, Zenon DEF Base, Busy
<1>3. /\ scenario \in Scenarios /\ IsLoc(program, loc) /\ ins = InstrIn(program, loc)
      /\ ins.op = "invoke"
  BY <1>1, FramePopped, InstrHere, Zenon DEF Base, IsFrame
<1> HIDE DEF loc, ins
<1>4. IsLabel(program, loc, ins.exception_label)
  BY <1>3, LabelsFormed, Zenon DEF program
<1>5. IsLoc(program, cur_loc') /\ Busy(ctl')
  BY <1>1, <1>2, <1>3, <1>4, AssignMoves, ContinueMoves, CatchMoves, Zenon
<1>6. IsNative(program, native') /\ IsStack(program, stack') /\ IsSeq(path') /\ Len(path) <= Len(path')
  BY <1>1, FramePopped, CallsitePopped, SeqShape, SMTT(30) DEF Base
<1>7. QED
  BY <1>1, <1>5, <1>6, StackStepKeeps, Zenon

LEMMA FromReturnsKeeps ==
    ASSUME Base, FromCurLocReturns
    PROVE  Base'
<1> DEFINE loc == Callsite.loc
           ins == Callsite.instr
<1>1. /\ ctl.at = "return" /\ native # <<>> /\ stack # <<>>
      /\ UNCHANGED <<scenario, fresh, path, solver, backtrack_points>>
      /\ PopCallsite /\ (PopFrame \/ UNCHANGED native)
      /\ \/ cur_loc' = loc
         \/ ins.op = "call" /\ cur_loc' = Inc(loc)
         \/ ins.op # "call" /\ cur_loc' = StartOfBB(loc, ins.return_label)
      /\ ctl' = Enter \/ ctl' = Backtracking("dead")
  BY Zenon DEF FromCurLocReturns, ReturnsTo
<1>2. /\ scenario \in Scenarios /\ IsLoc(program, loc) /\ ins = InstrIn(program, loc)
      /\ ins.op \in {"call", "invoke"}
  BY <1>1, CallsitePopped, Zenon DEF Base, IsCallsite
<1> HIDE DEF loc, ins
<1>3. /\ ins.op = "call" => IsLoc(program, Inc(loc))
      /\ ins.op = "invoke" => IsLoc(program, StartOfBB(loc, ins.return_label))
  BY <1>2, NextInstr, LabelsFormed, FirstInstr, Zenon DEF program
<1>4. IsLoc(program, cur_loc') /\ Busy(ctl')
  BY <1>1, <1>2, <1>3, FormsBusy, Zenon
<1>5. IsNative(program, native') /\ IsStack(program, stack') /\ IsSeq(path') /\ Len(path) <= Len(path')
  BY <1>1, FramePopped, CallsitePopped, SeqShape, SMTT(30) DEF Base
<1>6. QED
  BY <1>1, <1>4, <1>5, StackStepKeeps, Zenon

LEMMA UnwindKeeps ==
    ASSUME Base, UnwindCallsite
    PROVE  Base'
<1> DEFINE loc == Callsite.loc
           ins == Callsite.instr
<1>1. /\ ctl.at = "unwind"
      /\ UNCHANGED <<scenario, fresh, native, path, solver, backtrack_points>>
      /\ \/ \E ptr : ctl' = Returning(Throw(ptr)) /\ UNCHANGED <<stack, cur_loc>>
         \/ stack # <<>> /\ PopCallsite /\ UNCHANGED <<ctl, cur_loc>>
         \/ /\ stack # <<>> /\ PopCallsite /\ ins.op = "invoke"
            /\ \E vm, ptr : CatchAtExceptionLabel(vm, ptr, loc, ins.exception_label)
  BY Zenon DEF UnwindCallsite
<1>2. scenario \in Scenarios /\ Busy(ctl)
  BY <1>1, Zenon DEF Base, Busy
<1>3. stack # <<>> => IsLoc(program, loc) /\ (ins.op = "invoke" => IsLabel(program, loc, ins.exception_label))
  <2>1. stack # <<>> => IsLoc(program, loc) /\ ins = InstrIn(program, loc)
    BY CallsitePopped, Zenon DEF IsCallsite
  <2>2. QED
    BY <1>2, <2>1, LabelsFormed, Zenon DEF program
<1> HIDE DEF loc, ins
<1>4. IsLoc(program, cur_loc') /\ Busy(ctl')
  BY <1>1, <1>2, <1>3, CatchMoves, FormsBusy, Zenon DEF Base
<1>5. IsNative(program, native') /\ IsStack(program, stack') /\ IsSeq(path') /\ Len(path) <= Len(path')
  BY <1>1, CallsitePopped, SeqShape, SMTT(30) DEF Base
<1>6. QED
  BY <1>1, <1>4, <1>5, StackStepKeeps, Zenon
-----------------------------------------------------------------------------
(* `next()` and backtracking.                                                *)

LEMMA CalledKeeps ==
    ASSUME Base, NextCalled \/ NextReturns \/ BacktrackFails \/ UNCHANGED vars
    PROVE  Base'
<1>1. UNCHANGED <<scenario, cur_loc, stack, native, path, solver, backtrack_points>>
  BY Zenon DEF NextCalled, NextReturns, BacktrackFails, vars, state
<1>2. /\ Formed(ctl') /\ fresh' \in BOOLEAN
      /\ fresh' => ctl'.at = "idle"
  <2>1. CASE NextCalled
    BY <2>1, FormsBusy, Zenon DEF NextCalled, Busy, Base
  <2>2. CASE NextReturns
    BY <2>2, Zenon DEF NextReturns, Base, Formed, Idle
  <2>3. CASE BacktrackFails
    <3>1. ctl.at # "idle" /\ ctl' = Returning(NoPath) /\ fresh' = fresh
      BY <2>3, Zenon DEF BacktrackFails
    <3>2. QED
      BY <3>1, FormsBusy, Zenon DEF Busy, Base
  <2>4. CASE UNCHANGED vars
    BY <2>4, Zenon DEF vars, Base
  <2>5. QED
    BY <2>1, <2>2, <2>3, <2>4, Zenon
<1>3. QED
  BY <1>1, <1>2, Zenon DEF Base, program

\* The state a backtracking point restores, and the points that remain.
LEMMA Reverted ==
    ASSUME Base, Backtrack
    PROVE  /\ Len(backtrack_points) \in Nat /\ Len(backtrack_points) > 0
           /\ IsPoint(program, Len(path), backtrack_points[Len(backtrack_points)])
           /\ IsSeq(backtrack_points') /\ Len(backtrack_points') = Len(backtrack_points) - 1
           /\ \A k \in 1..Len(backtrack_points') :
                 /\ backtrack_points'[k] = backtrack_points[k]
                 /\ backtrack_points[k].path_len <= Len(path')
           /\ IsSeq(path')
           /\ Len(path') = backtrack_points[Len(backtrack_points)].path_len
           /\ \A j \in 1..Len(path') : path'[j] = path[j]
           /\ solver' \in Seq(SUBSET Inputs) /\ Len(solver') = Len(solver) - 1
           /\ \A k \in 1..(Len(solver') - 1) : solver'[k] = solver[k]
           /\ Top(solver') = solver[Len(solver) - 1] \cap backtrack_points[Len(backtrack_points)].constraint
<1> DEFINE n  == Len(backtrack_points)
           bp == backtrack_points[n]
<1>1. /\ n > 0
      /\ backtrack_points' = SubSeq(backtrack_points, 1, n - 1)
      /\ solver' = AssertIn(Pop(solver), bp.constraint)
      /\ path' = SubSeq(path, 1, bp.path_len)
  BY Zenon DEF Backtrack, RevertTo
<1>2. /\ n \in Nat /\ Len(path) \in Nat
      /\ IsSeq(backtrack_points) /\ IsSeq(path)
      /\ IsPoint(program, Len(path), bp)
      /\ \A k \in 1..n : backtrack_points[k].path_len <= bp.path_len
  <2>1. n \in Nat /\ Len(path) \in Nat /\ IsSeq(backtrack_points) /\ IsSeq(path)
    BY SeqShape, Zenon DEF Base, ArePoints
  <2>2. n \in 1..n /\ \A k \in 1..n : k <= n
    BY <1>1, <2>1, SMTT(30)
  <2>3. QED
    BY <2>1, <2>2, Zenon DEF Base, ArePoints
<1>3. /\ IsSeq(backtrack_points') /\ Len(backtrack_points') = n - 1
      /\ \A k \in 1..(n - 1) : backtrack_points'[k] = backtrack_points[k]
  <2>1. n - 1 \in 0..n
    BY <1>1, <1>2, SMTT(30)
  <2>2. QED
    BY <1>1, <1>2, <2>1, Cut, Zenon
<1>4. /\ IsSeq(path') /\ Len(path') = bp.path_len
      /\ \A j \in 1..Len(path') : path'[j] = path[j]
  BY <1>1, <1>2, Cut, Zenon DEF IsPoint
<1>5. /\ Pop(solver) \in Seq(SUBSET Inputs) /\ Len(Pop(solver)) = n
      /\ \A k \in 1..n : Pop(solver)[k] = solver[k]
  <2>1. solver \in Seq(SUBSET Inputs) /\ Len(solver) = n + 1 /\ Len(solver) - 1 \in 0..Len(solver)
    <3>1. solver \in Seq(SUBSET Inputs) /\ Len(solver) = n + 1
      BY Zenon DEF Base
    <3>2. QED
      BY <1>2, <3>1, SMTT(30)
  <2>2. QED
    BY <1>2, <2>1, SMTT(30) DEF Pop
<1>6. /\ solver' \in Seq(SUBSET Inputs) /\ Len(solver') = n
      /\ \A k \in 1..(n - 1) : solver'[k] = Pop(solver)[k]
      /\ Top(solver') = Top(Pop(solver)) \cap bp.constraint
  <2>1. Pop(solver) \in Seq(SUBSET Inputs) /\ Len(Pop(solver)) = n /\ n > 0
    BY <1>1, <1>2, <1>5, Zenon
  <2> HIDE DEF bp
  <2>2. QED
    BY <1>1, <2>1, Asserted, Zenon
<1>7. Top(Pop(solver)) = solver[n] /\ Len(solver) = n + 1
  <2>1. n \in 1..n
    BY <1>1, <1>2, SMTT(30)
  <2>2. QED
    BY <1>5, <2>1, Zenon DEF Top, Base
<1> HIDE DEF bp
<1>8. QED
  <2>1. \A k \in 1..(n - 1) : k \in 1..n
    BY <1>2, SMTT(30)
  <2>2. /\ IsSeq(backtrack_points') /\ Len(backtrack_points') = n - 1
        /\ \A k \in 1..Len(backtrack_points') :
              backtrack_points'[k] = backtrack_points[k] /\ backtrack_points[k].path_len <= Len(path')
    BY <1>2, <1>3, <1>4, <2>1, Zenon
  <2>3. Len(solver) - 1 = n /\ Len(solver') = Len(solver) - 1
    BY <1>2, <1>6, <1>7, SMTT(30)
  <2>4. (\A k \in 1..(Len(solver') - 1) : solver'[k] = solver[k]) /\ Top(solver') = solver[n] \cap bp.constraint
    BY <1>5, <1>6, <1>7, <2>1, Zenon
  <2>5. QED
    BY <1>1, <1>2, <1>4, <1>6, <2>2, <2>3, <2>4, Zenon DEF bp

LEMMA BacktrackKeeps ==
    ASSUME Base, Backtrack
    PROVE  Base'
<1> DEFINE n  == Len(backtrack_points)
           bp == backtrack_points[n]
<1>1. /\ ctl.at = "backtrack" /\ ctl' = Enter
      /\ UNCHANGED <<scenario, fresh>>
      /\ stack' = bp.stack /\ cur_loc' = bp.loc
      /\ native' = Append(native, [kind |-> "from"])
  BY Zenon DEF Backtrack, RevertTo
<1>2. IsStack(program, stack') /\ IsLoc(program, cur_loc')
  BY <1>1, Reverted, Zenon DEF IsPoint
<1>3. IsNative(program, native')
  BY <1>1, AppendedKeeps, Zenon DEF Base, IsFrame
<1>4. ArePoints(program, Len(path'), backtrack_points')
  <2>1. /\ n \in Nat /\ n > 0
        /\ \A k \in 1..n : IsPoint(program, Len(path), backtrack_points[k])
        /\ \A j, k \in 1..n : j <= k => backtrack_points[j].path_len <= backtrack_points[k].path_len
    BY Reverted, Zenon DEF Base, ArePoints
  <2>2. /\ IsSeq(backtrack_points') /\ Len(backtrack_points') = n - 1 /\ Len(path') \in Nat
        /\ \A k \in 1..Len(backtrack_points') :
              backtrack_points'[k] = backtrack_points[k] /\ backtrack_points[k].path_len <= Len(path')
    BY Reverted, SeqShape, Zenon
  <2>3. \A k \in 1..Len(backtrack_points') : k \in 1..n
    BY <2>1, <2>2, SMTT(30)
  <2>4. \A k \in 1..Len(backtrack_points') : IsPoint(program, Len(path'), backtrack_points'[k])
    <3> TAKE k \in 1..Len(backtrack_points')
    <3>1. /\ IsPoint(program, Len(path), backtrack_points[k])
          /\ backtrack_points'[k] = backtrack_points[k] /\ backtrack_points[k].path_len <= Len(path')
      BY <2>1, <2>2, <2>3, Zenon
    <3>2. backtrack_points[k].path_len \in 0..Len(path')
      BY <2>2, <3>1, SMTT(30) DEF IsPoint
    <3>3. QED
      BY <3>1, <3>2, Zenon DEF IsPoint
  <2>5. QED
    BY <2>1, <2>2, <2>3, <2>4, Zenon DEF ArePoints
<1>5. Formed(ctl') /\ ~fresh'
  BY <1>1, FormsBusy, Zenon DEF Busy, Base
<1>6. IsSeq(path') /\ solver' \in Seq(SUBSET Inputs) /\ Len(solver') = Len(backtrack_points') + 1
  <2>1. Len(solver) = n + 1 /\ n \in Nat
    BY Reverted, Zenon DEF Base
  <2>2. /\ IsSeq(path') /\ solver' \in Seq(SUBSET Inputs)
        /\ Len(solver') = Len(solver) - 1 /\ Len(backtrack_points') = n - 1
    BY Reverted, Zenon
  <2>3. QED
    BY <2>1, <2>2, SMTT(30)
<1>7. QED
  BY <1>1, <1>2, <1>3, <1>4, <1>5, <1>6, Zenon DEF Base, program

LEMMA BaseStep ==
    ASSUME Base, [Next]_vars
    PROVE  Base'
BY StraightKeeps, HookedKeeps, MemoryKeeps, BranchKeeps, EnterKeeps, PadKeeps, EnteredKeeps,
   CalleeEndsKeeps, CallReturnsKeeps, InvokeReturnsKeeps, FromReturnsKeeps, UnwindKeeps, CalledKeeps,
   BacktrackKeeps, Zenon DEF Next, Step, Panicked

LEMMA BaseInit ==
    ASSUME Init
    PROVE  Base
<1>1. /\ scenario \in Scenarios /\ cur_loc = Start(scenario.start)
      /\ stack = <<>> /\ native = <<>> /\ path = <<>> /\ backtrack_points = <<>>
      /\ solver = <<Inputs>> /\ fresh = TRUE /\ ctl = Idle(NoPath)
  BY Zenon DEF Init
<1>2. IsLoc(program, cur_loc)
  BY <1>1, ScenariosAssumption, FirstOfFunction, Zenon DEF WellFormed, program
<1>3. IsStack(program, stack) /\ IsNative(program, native) /\ IsSeq(path) /\ ArePoints(program, Len(path), backtrack_points)
  BY <1>1, EmptyIsSeq, SMTT(30) DEF IsStack, IsNative, ArePoints
<1>4. solver \in Seq(SUBSET Inputs) /\ Len(solver) = Len(backtrack_points) + 1
  BY <1>1, EmptyIsSeq, SMTT(30)
<1>5. Formed(ctl) /\ ctl.at = "idle"
  BY <1>1, Zenon DEF Formed, Idle, NoPath
<1>6. QED
  BY <1>1, <1>2, <1>3, <1>4, <1>5, Zenon DEF Base

\* Wherever symbolic execution goes, forward, into calls, back to their
\* callers, to a landing pad or to a backtracking point, it is at an
\* instruction of the program, every callsite on the stack is a call or invoke
\* of the program, and every backtracking point has its assertion level.
THEOREM BaseInvariance == Spec => []Base
<1>1. Init => Base
  BY BaseInit, Zenon
<1>2. Base /\ [Next]_vars => Base'
  BY BaseStep, Zenon
<1>3. QED
  BY <1>1, <1>2, PTL DEF Spec
-----------------------------------------------------------------------------
(* The callstack is unwound, and the engine does not panic.                  *)

\* The last m native frames are the calls and invokes of the last m callsites,
\* and the callsites before those belong to a symex_from_cur_loc below.
Matched(nat, st, m) ==
    /\ m <= Len(nat)
    /\ \A j \in 0..(m - 1) : /\ nat[Len(nat) - j].kind = st[Len(st) - j].instr.op
                             /\ nat[Len(nat) - j].loc = st[Len(st) - j].loc
    /\ m < Len(st) => m < Len(nat) /\ nat[Len(nat) - m].kind = "from"
Aligned(nat, st) == \E m \in 0..Len(st) : Matched(nat, st, m)

LEMMA AlignedEmpty ==
    ASSUME NEW nat, IsSeq(nat)
    PROVE  Aligned(nat, <<>>)
BY SeqShape, EmptyIsSeq, SMTT(30) DEF Aligned, Matched

LEMMA AlignedFrom ==
    ASSUME NEW nat, IsSeq(nat), NEW st, IsSeq(st), Len(nat) > 0, nat[Len(nat)].kind = "from"
    PROVE  Aligned(nat, st)
<1>1. Len(nat) \in Nat /\ Len(st) \in Nat
  BY SeqShape, Zenon
<1>2. Matched(nat, st, 0)
  BY <1>1, SMTT(30) DEF Matched
<1>3. QED
  BY <1>1, <1>2, SMTT(30) DEF Aligned

\* A call pushes a callsite and a frame that match.
LEMMA AlignedPush ==
    ASSUME NEW nat, IsSeq(nat), NEW st, IsSeq(st), Aligned(nat, st),
           NEW fr, NEW cs, fr.kind = cs.instr.op, fr.loc = cs.loc
    PROVE  Aligned(Append(nat, fr), Append(st, cs))
<1> DEFINE nat1 == Append(nat, fr)
           st1  == Append(st, cs)
<1>1. Len(nat) \in Nat /\ Len(st) \in Nat
  BY SeqShape, Zenon
<1>2. /\ Len(nat1) = Len(nat) + 1 /\ nat1[Len(nat) + 1] = fr
      /\ \A k \in 1..Len(nat) : nat1[k] = nat[k]
      /\ Len(st1) = Len(st) + 1 /\ st1[Len(st) + 1] = cs
      /\ \A k \in 1..Len(st) : st1[k] = st[k]
  BY Appended, SMTT(30)
<1> HIDE DEF nat1, st1
<1>3. PICK m \in 0..Len(st) : Matched(nat, st, m)
  BY Zenon DEF Aligned
<1>4. /\ m <= Len(nat)
      /\ \A j \in 0..(m - 1) : /\ nat[Len(nat) - j].kind = st[Len(st) - j].instr.op
                               /\ nat[Len(nat) - j].loc = st[Len(st) - j].loc
      /\ m < Len(st) => m < Len(nat) /\ nat[Len(nat) - m].kind = "from"
  BY <1>3, Zenon DEF Matched
<1>4a. m \in 0..Len(st) /\ m <= Len(nat) /\ Len(nat1) = Len(nat) + 1 /\ Len(st1) = Len(st) + 1
  BY <1>2, <1>4, Zenon
<1>5. \A j \in 0..m : /\ nat1[Len(nat1) - j].kind = st1[Len(st1) - j].instr.op
                      /\ nat1[Len(nat1) - j].loc = st1[Len(st1) - j].loc
  <2> TAKE j \in 0..m
  <2>1. CASE j = 0
    <3>1. Len(nat1) - j = Len(nat) + 1 /\ Len(st1) - j = Len(st) + 1
      BY <1>1, <1>4a, <2>1, SMTT(30)
    <3>2. QED
      BY <1>2, <3>1, Zenon
  <2>2. CASE j # 0
    <3>1. /\ j - 1 \in 0..(m - 1)
          /\ Len(nat1) - j = Len(nat) - (j - 1) /\ Len(nat) - (j - 1) \in 1..Len(nat)
          /\ Len(st1) - j = Len(st) - (j - 1) /\ Len(st) - (j - 1) \in 1..Len(st)
      BY <1>1, <1>4a, <2>2, SMTT(30)
    <3>2. nat1[Len(nat1) - j] = nat[Len(nat) - (j - 1)] /\ st1[Len(st1) - j] = st[Len(st) - (j - 1)]
      BY <1>2, <3>1, Zenon
    <3>3. QED
      BY <1>4, <3>1, <3>2, Zenon
  <2>3. QED
    BY <2>1, <2>2, Zenon
<1>6. m + 1 \in 0..Len(st1) /\ m + 1 <= Len(nat1) /\ (m + 1) - 1 = m
  BY <1>1, <1>4a, SMTT(30)
<1>7. m + 1 < Len(st1) => m + 1 < Len(nat1) /\ nat1[Len(nat1) - (m + 1)].kind = "from"
  <2> SUFFICES ASSUME m + 1 < Len(st1)
               PROVE  m + 1 < Len(nat1) /\ nat1[Len(nat1) - (m + 1)].kind = "from"
    BY Zenon
  <2>1. m < Len(nat) /\ nat[Len(nat) - m].kind = "from"
    BY <1>1, <1>2, <1>4, SMTT(30)
  <2>2. Len(nat1) - (m + 1) = Len(nat) - m /\ Len(nat) - m \in 1..Len(nat) /\ m + 1 < Len(nat1)
    BY <1>1, <1>2, <2>1, SMTT(30)
  <2>3. QED
    BY <1>2, <2>1, <2>2, Zenon
<1>8. Matched(nat1, st1, m + 1)
  BY <1>5, <1>6, <1>7, Zenon DEF Matched
<1>9. QED
  BY <1>6, <1>8, Zenon DEF Aligned, nat1, st1

\* The frame of a call or invoke is that of the last callsite, and what is
\* left when both are popped matches.
LEMMA AlignedPop ==
    ASSUME NEW nat, IsSeq(nat), nat # <<>>, NEW st, IsSeq(st), st # <<>>, Aligned(nat, st),
           nat[Len(nat)].kind # "from"
    PROVE  /\ nat[Len(nat)].kind = st[Len(st)].instr.op
           /\ nat[Len(nat)].loc = st[Len(st)].loc
           /\ Aligned(SubSeq(nat, 1, Len(nat) - 1), SubSeq(st, 1, Len(st) - 1))
<1> DEFINE nat1 == SubSeq(nat, 1, Len(nat) - 1)
           st1  == SubSeq(st, 1, Len(st) - 1)
<1>1. /\ Len(nat) \in Nat /\ Len(st) \in Nat /\ Len(nat) > 0 /\ Len(st) > 0
      /\ Len(nat1) = Len(nat) - 1 /\ Len(st1) = Len(st) - 1
      /\ \A k \in 1..(Len(nat) - 1) : nat1[k] = nat[k]
      /\ \A k \in 1..(Len(st) - 1) : st1[k] = st[k]
  BY Popped, Zenon
<1> HIDE DEF nat1, st1
<1>2. PICK m \in 0..Len(st) : Matched(nat, st, m)
  BY Zenon DEF Aligned
<1>3. /\ m <= Len(nat)
      /\ \A j \in 0..(m - 1) : /\ nat[Len(nat) - j].kind = st[Len(st) - j].instr.op
                               /\ nat[Len(nat) - j].loc = st[Len(st) - j].loc
      /\ m < Len(st) => m < Len(nat) /\ nat[Len(nat) - m].kind = "from"
  BY <1>2, Zenon DEF Matched
<1>4. m # 0
  <2> SUFFICES ASSUME m = 0 PROVE FALSE
    BY Zenon
  <2>1. m < Len(st) /\ Len(nat) - m = Len(nat)
    BY <1>1, SMTT(30)
  <2>2. QED
    BY <1>3, <2>1, Zenon
<1>5. 0 \in 0..(m - 1) /\ Len(nat) - 0 = Len(nat) /\ Len(st) - 0 = Len(st)
  BY <1>1, <1>4, SMTT(30)
<1>6. nat[Len(nat)].kind = st[Len(st)].instr.op /\ nat[Len(nat)].loc = st[Len(st)].loc
  BY <1>3, <1>5, Zenon
<1>7. \A j \in 0..(m - 1 - 1) : /\ nat1[Len(nat1) - j].kind = st1[Len(st1) - j].instr.op
                                /\ nat1[Len(nat1) - j].loc = st1[Len(st1) - j].loc
  <2> TAKE j \in 0..(m - 1 - 1)
  <2>0. /\ Len(nat) \in Nat /\ Len(st) \in Nat /\ m \in 0..Len(st) /\ m <= Len(nat)
        /\ Len(nat1) = Len(nat) - 1 /\ Len(st1) = Len(st) - 1
    BY <1>1, <1>3, Zenon
  <2>1. /\ j + 1 \in 0..(m - 1)
        /\ Len(nat1) - j = Len(nat) - (j + 1) /\ Len(nat) - (j + 1) \in 1..(Len(nat) - 1)
        /\ Len(st1) - j = Len(st) - (j + 1) /\ Len(st) - (j + 1) \in 1..(Len(st) - 1)
    BY <2>0, SMTT(30)
  <2>2. nat1[Len(nat1) - j] = nat[Len(nat) - (j + 1)] /\ st1[Len(st1) - j] = st[Len(st) - (j + 1)]
    BY <1>1, <2>1, Zenon
  <2>3. QED
    BY <1>3, <2>1, <2>2, Zenon
<1>8. m - 1 \in 0..Len(st1) /\ m - 1 <= Len(nat1)
  BY <1>1, <1>3, <1>4, SMTT(30)
<1>9. m - 1 < Len(st1) => m - 1 < Len(nat1) /\ nat1[Len(nat1) - (m - 1)].kind = "from"
  <2> SUFFICES ASSUME m - 1 < Len(st1)
               PROVE  m - 1 < Len(nat1) /\ nat1[Len(nat1) - (m - 1)].kind = "from"
    BY Zenon
  <2>1. m < Len(nat) /\ nat[Len(nat) - m].kind = "from"
    BY <1>1, <1>3, SMTT(30)
  <2>2. /\ m - 1 < Len(nat1) /\ Len(nat1) - (m - 1) = Len(nat) - m
        /\ Len(nat) - m \in 1..(Len(nat) - 1)
    BY <1>1, <1>4, <2>1, SMTT(30)
  <2>3. nat1[Len(nat) - m] = nat[Len(nat) - m]
    BY <1>1, <2>2, Zenon
  <2>4. QED
    BY <2>1, <2>2, <2>3, Zenon
<1>10. Matched(nat1, st1, m - 1)
  BY <1>7, <1>8, <1>9, Zenon DEF Matched
<1>11. QED
  BY <1>6, <1>8, <1>10, Zenon DEF Aligned, nat1, st1

\* The path goes on, or ends in a result that the callers take up.
OnPath(c) ==
    \/ c.at \in {"enter", "exec", "catch", "pad"}
    \/ c.at = "return" /\ c.res.tag \notin {"Err", "None", "Abort"}

Unwinding ==
    /\ OnPath(ctl) => Aligned(native, stack)
    /\ ctl.at = "idle" \/ (ctl.at = "backtrack" /\ ctl.why = "next") => native = <<>>
    /\ CallstackUnwound
    /\ fresh => stack = <<>>

Kept ==
    /\ NoPanic
    /\ ctl.at = "return" /\ ctl.res.tag = "Abort" => Aligned(native, stack)

\* ctl is inside `next()`, past its beginning, and has not panicked.
Inner(c) == c.at \notin {"idle", "panic"} /\ ~(c.at = "backtrack" /\ c.why = "next")

LEMMA FormsInner ==
    /\ Inner(Enter) /\ Inner(Exec) /\ Inner(Backtracking("dead")) /\ Inner(Backtracking("none"))
    /\ \A x : Inner(Catch(x)) /\ Inner(Unwind(x)) /\ Inner(Returning(x))
    /\ \A e : Inner(InstrErr(e)) /\ Inner(CatchErr(e)) /\ Inner(HandleErr(e))
    /\ \A e, ins : Inner(CallErr(ins, e))
    /\ ctl.at = "catch" /\ ctl = Catch(ctl.exc) => Inner([ctl EXCEPT !.at = "pad"])
BY Zenon DEF Inner, Enter, Exec, Backtracking, Catch, Unwind, Returning, InstrErr, CatchErr, HandleErr, CallErr

\* An answer that no caller takes up as a result.
LEMMA FormsFail ==
    /\ ~OnPath(Backtracking("dead")) /\ ~OnPath(Backtracking("none")) /\ ~OnPath(Returning(NoPath))
    /\ \A x : ~OnPath(Unwind(x))
    /\ \A e : ~OnPath(InstrErr(e)) /\ ~OnPath(CatchErr(e)) /\ ~OnPath(Returning(Err(e)))
    /\ \A e, ins : ~OnPath(CallErr(ins, e))
BY Zenon DEF OnPath, Backtracking, Returning, NoPath, Unwind, InstrErr, CatchErr, Err, CallErr

LEMMA FormsAbort ==
    LET Aborts(c) == c.at = "return" /\ c.res.tag = "Abort"
    IN  /\ ~Aborts(Backtracking("dead")) /\ ~Aborts(Backtracking("none")) /\ ~Aborts(Returning(NoPath))
        /\ \A x : ~Aborts(Unwind(x))
        /\ \A e : ~Aborts(InstrErr(e)) /\ ~Aborts(CatchErr(e)) /\ ~Aborts(Returning(Err(e)))
        /\ \A e, ins : ~Aborts(CallErr(ins, e))
BY Zenon DEF Backtracking, Returning, NoPath, Unwind, InstrErr, CatchErr, Err, CallErr

\* A step inside `next()` that leaves the two stacks matching.
LEMMA InnerKeeps ==
    ASSUME Base, ctl.at # "idle", UNCHANGED fresh, Inner(ctl'), Aligned(native', stack')
    PROVE  Unwinding' /\ Kept'
BY Zenon DEF Base, Inner, Unwinding, Kept, CallstackUnwound, Answered, NoPanic

\* A step inside `next()` to an answer that is no result.
LEMMA FailKeeps ==
    ASSUME Base, ctl.at # "idle", UNCHANGED fresh, Inner(ctl'), ~OnPath(ctl')
    PROVE  /\ Unwinding'
           /\ ~(ctl'.at = "return" /\ ctl'.res.tag = "Abort") => Kept'
BY Zenon DEF Base, Inner, Unwinding, Kept, CallstackUnwound, Answered, NoPanic

LEMMA ContinueInner ==
    ASSUME NEW ins, NEW loc, NEW vm, NEW default, ContinueAfter(ins, loc, vm, default)
    PROVE  Inner(ctl')
BY FormsInner, Zenon DEF ContinueAfter

LEMMA AssignInner ==
    ASSUME NEW ins, NEW loc, NEW vm, NEW bv, NEW default, AssignCallResult(ins, loc, vm, bv, default)
    PROVE  Inner(ctl')
BY ContinueInner, FormsInner, Zenon DEF AssignCallResult

LEMMA CatchInner ==
    ASSUME NEW vm, NEW ptr, NEW loc, NEW bb, CatchAtExceptionLabel(vm, ptr, loc, bb)
    PROVE  Inner(ctl')
BY FormsInner, Zenon DEF CatchAtExceptionLabel

\* The steps within one function.
LEMMA StraightUnwinds ==
    ASSUME Base, Unwinding,
           \/ EnterBlock \/ CallbackFails \/ DataOp \/ Load \/ Store \/ Phi \/ Unsupported
           \/ CallUnresolved \/ CallHooked \/ CallIgnored \/ CallUnknown \/ CallMalformed
           \/ CatchEnter \/ LandingPad \/ Ret \/ Resume \/ Br \/ CondBr \/ Switch
    PROVE  Unwinding' /\ Kept'
<1>1. /\ ctl.at \in {"enter", "exec", "catch", "pad"}
      /\ UNCHANGED <<stack, native, fresh>>
  BY Zenon DEF EnterBlock, CallbackFails, DataOp, Load, Store, Phi, Unsupported, CallUnresolved, CallHooked,
         CallIgnored, CallUnknown, CallMalformed, CatchEnter, LandingPad, Ret, Resume, Br, CondBr, Switch,
         NullDereference, RecordBVResult, Fork, AtCall, At, state
<1>2. Inner(ctl)
  BY <1>1, Zenon DEF Inner
<1>3. \A n, bv : RecordBVResult(n, bv) => Inner(ctl')
  BY <1>2, FormsInner, Zenon DEF RecordBVResult
<1>4. Inner(ctl')
  <2>1. CASE EnterBlock \/ CallbackFails \/ Unsupported \/ CallUnresolved \/ CallUnknown \/ CallMalformed \/ Ret \/ Resume
    BY <2>1, FormsInner, Zenon
       DEF EnterBlock, CallbackFails, Unsupported, CallUnresolved, CallUnknown, CallMalformed, Ret, Resume
  <2>2. CASE DataOp \/ Phi
    BY <1>3, <2>2, FormsInner, Zenon DEF DataOp, Phi, ChoosePhi
  <2>3. CASE Load \/ Store
    <3>1. ctl' = ctl \/ ctl' = InstrErr("NullPointerDereference") \/ \E n, bv : RecordBVResult(n, bv)
      BY <2>3, Zenon DEF Load, Store, NullDereference
    <3>2. QED
      BY <1>2, <1>3, <3>1, FormsInner, Zenon
  <2>4. CASE CallHooked
    <3>1. \/ \E ins, loc, vm, bv, default : AssignCallResult(ins, loc, vm, bv, default)
          \/ \E ins, loc, vm, default : ContinueAfter(ins, loc, vm, default)
          \/ \E vm, ptr, loc, bb : CatchAtExceptionLabel(vm, ptr, loc, bb)
          \/ \E r : ctl' = Returning(r)
          \/ \E e : ctl' = CallErr(Instr, e)
      BY <2>4, Zenon DEF CallHooked
    <3>2. QED
      BY <3>1, AssignInner, ContinueInner, CatchInner, FormsInner, Zenon
  <2>5. CASE CallIgnored
    <3>1. \/ \E ins, loc, vm, bv, default : AssignCallResult(ins, loc, vm, bv, default)
          \/ \E ins, loc, vm, default : ContinueAfter(ins, loc, vm, default)
          \/ \E e : ctl' = CallErr(Instr, e)
      BY <2>5, Zenon DEF CallIgnored
    <3>2. QED
      BY <3>1, AssignInner, ContinueInner, FormsInner, Zenon
  <2>6. CASE CatchEnter
    BY <2>6, FormsInner, Zenon DEF CatchEnter, Base, Formed
  <2>7. CASE LandingPad
    <3>1. \/ \E n, bv : RecordBVResult(n, bv)
          \/ ctl' = Enter
          \/ \E e : ctl' = HandleErr(e) \/ ctl' = CatchErr(e)
      BY <2>7, Zenon DEF LandingPad, ChoosePhi
    <3>2. QED
      BY <1>3, <3>1, FormsInner, Zenon
  <2>8. CASE Br \/ CondBr \/ Switch
    <3>1. ctl' = Enter \/ ctl' = Backtracking("dead")
      BY <2>8, Zenon DEF Br, CondBr, Switch, Fork
    <3>2. QED
      BY <3>1, FormsInner, Zenon
  <2>9. QED
    BY <2>1, <2>2, <2>3, <2>4, <2>5, <2>6, <2>7, <2>8, Zenon
<1>5. Aligned(native', stack')
  BY <1>1, Zenon DEF Unwinding, OnPath
<1>6. ctl.at # "idle" /\ UNCHANGED fresh
  BY <1>1, Zenon
<1>7. QED
  BY <1>4, <1>5, <1>6, InnerKeeps, Zenon

\* Calls, and the ends of functions.
LEMMA EnteredUnwinds ==
    ASSUME Base, Unwinding, CallEntered
    PROVE  Unwinding' /\ Kept'
<1> DEFINE cs == [loc |-> cur_loc, instr |-> Instr, restore_info |-> RestoreInfoFor(varmap, cur_loc.func)]
           fr == [kind |-> Instr.op, loc |-> cur_loc]
<1>1. /\ ctl.at = "exec" /\ UNCHANGED fresh
      /\ stack' = Append(stack, cs)
      /\ \/ native' = Append(native, fr) /\ ctl' = Enter
         \/ \E e : ctl' = CallErr(Instr, e)
  BY Zenon DEF CallEntered, AtCall, At
<1>2. fr.kind = cs.instr.op /\ fr.loc = cs.loc
  BY Zenon
<1>3. IsSeq(native) /\ IsSeq(stack) /\ Aligned(native, stack)
  BY <1>1, Zenon DEF Base, IsStack, IsNative, Unwinding, OnPath
<1> HIDE DEF cs, fr
<1>4. CASE native' = Append(native, fr) /\ ctl' = Enter
  <2>1. Aligned(native', stack')
    BY <1>1, <1>2, <1>3, <1>4, AlignedPush, Zenon
  <2>2. QED
    BY <1>1, <1>4, <2>1, InnerKeeps, FormsInner, Zenon
<1>5. CASE \E e : ctl' = CallErr(Instr, e)
  BY <1>1, <1>5, FailKeeps, FormsInner, FormsFail, FormsAbort, Zenon
<1>6. QED
  BY <1>1, <1>4, <1>5, Zenon

\* What an aborted path leaves is only looked at for Kept.
LEMMA CalleeEndsUnwinds ==
    ASSUME Base, Unwinding, CalleeFails \/ CalleeFinishedElsewhere \/ UnexpectedCallsite \/ FromCurLocEnds
    PROVE  Unwinding' /\ (Kept /\ ~AbortsBelow => Kept')
<1>1. /\ ctl.at = "return" /\ native # <<>>
      /\ UNCHANGED <<fresh, stack>>
  BY Zenon DEF CalleeFails, CalleeFinishedElsewhere, UnexpectedCallsite, FromCurLocEnds, ReturnsTo, state
<1>2. IsSeq(native) /\ IsSeq(stack)
  BY Zenon DEF Base, IsStack, IsNative
<1>3. PopFrame => IsSeq(native')
  BY <1>1, FramePopped, Zenon DEF IsNative
<1>4. CASE CalleeFails
  <2>1. \/ \E ins, e : ctl' = CallErr(ins, e)
        \/ ctl' = Backtracking("none")
        \/ ctl' = Returning(Err("Unsat"))
    BY <1>4, Zenon DEF CalleeFails
  <2>2. QED
    BY <1>1, <2>1, FailKeeps, FormsInner, FormsFail, FormsAbort, Zenon
<1>5. CASE stack = <<>> /\ ctl' = ctl /\ PopFrame
  <2>1. Aligned(native', stack')
    BY <1>1, <1>3, <1>5, AlignedEmpty, Zenon
  <2>2. Inner(ctl')
    BY <1>1, <1>5, Zenon DEF Inner
  <2>3. QED
    BY <1>1, <2>1, <2>2, InnerKeeps, Zenon
<1>6. CASE UnexpectedCallsite
  <2>1. /\ ctl.res.tag \notin {"Err", "None"} /\ stack # <<>> /\ ctl' = Panic
        /\ Frame.kind \in {"call", "invoke"} /\ ~CallsiteExpected
    BY <1>6, Zenon DEF UnexpectedCallsite, ReturnsTo
  <2>2. Unwinding'
    BY <1>1, <2>1, Zenon DEF Unwinding, OnPath, Panic, CallstackUnwound, Answered, Base
  <2>3. ~Aligned(native, stack)
    <3>1. Frame.kind # "from"
      BY <2>1, Zenon
    <3>2. QED
      BY <1>1, <1>2, <2>1, <3>1, AlignedPop, Zenon DEF Frame, Callsite, CallsiteExpected
  <2>4. ASSUME Kept
        PROVE  FALSE
    BY <1>1, <2>1, <2>3, <2>4, Zenon DEF Kept, Unwinding, OnPath
  <2>5. QED
    BY <2>2, <2>4, Zenon
<1>7. CASE FromCurLocEnds /\ ~(stack = <<>> /\ ctl' = ctl)
  <2>1. \/ ctl.res.tag \in {"Err", "Abort"} /\ ctl' = ctl
        \/ \E ptr : ctl' = Unwind(ptr)
        \/ ctl' = Backtracking("none")
    BY <1>7, Zenon DEF FromCurLocEnds
  <2>2. CASE ctl.res.tag \in {"Err", "Abort"} /\ ctl' = ctl
    <3>1. Inner(ctl') /\ ~OnPath(ctl')
      BY <1>1, <2>2, Zenon DEF Inner, OnPath
    <3>2. ~AbortsBelow => ctl.res.tag # "Abort"
      BY <1>7, <2>2, Zenon DEF AbortsBelow
    <3>3. QED
      BY <1>1, <2>2, <3>1, <3>2, FailKeeps, Zenon
  <2>3. QED
    BY <1>1, <2>1, <2>2, FailKeeps, FormsInner, FormsFail, FormsAbort, Zenon
<1>8. QED
  BY <1>4, <1>5, <1>6, <1>7, Zenon DEF CalleeFinishedElsewhere, FromCurLocEnds

LEMMA ReturnsUnwind ==
    ASSUME Base, Unwinding, CallReturns \/ InvokeReturns
    PROVE  Unwinding' /\ (Kept => Kept')
<1>1. /\ ctl.at = "return" /\ native # <<>> /\ stack # <<>>
      /\ Frame.kind # "from" /\ ctl.res.tag \notin {"Err", "None"}
      /\ PopFrame /\ PopCallsite /\ UNCHANGED fresh
  BY Zenon DEF CallReturns, InvokeReturns, ReturnsTo
<1>2. Inner(ctl') /\ (ctl.res.tag = "Abort" => ctl' = ctl)
  <2>1. CASE CallReturns
    <3>1. /\ ctl' = Exec \/ ctl' = InstrErr("LoopBoundExceeded") \/ ctl' = ctl
          /\ ctl.res.tag = "Abort" => ctl' = ctl
      BY <2>1, Zenon DEF CallReturns
    <3>2. Inner(ctl)
      BY <1>1, Zenon DEF Inner
    <3>3. QED
      BY <3>1, <3>2, FormsInner, Zenon
  <2>2. CASE InvokeReturns
    <3>1. /\ \/ \E ins, loc, vm, bv, default : AssignCallResult(ins, loc, vm, bv, default)
             \/ \E ins, loc, vm, default : ContinueAfter(ins, loc, vm, default)
             \/ \E vm, ptr, loc, bb : CatchAtExceptionLabel(vm, ptr, loc, bb)
             \/ ctl' = ctl
          /\ ctl.res.tag = "Abort" => ctl' = ctl
      BY <2>2, Zenon DEF InvokeReturns
    <3>2. Inner(ctl)
      BY <1>1, SMTT(30) DEF Inner
    <3>3. QED
      BY <3>1, <3>2, AssignInner, ContinueInner, CatchInner, Zenon
  <2>3. QED
    BY <2>1, <2>2, Zenon
<1>3. IsSeq(native) /\ IsSeq(stack)
  BY Zenon DEF Base, IsStack, IsNative
<1>4. Aligned(native, stack) => Aligned(native', stack')
  BY <1>1, <1>3, AlignedPop, Zenon DEF Frame, PopFrame, PopCallsite
<1>5. CASE Aligned(native, stack)
  BY <1>1, <1>2, <1>4, <1>5, InnerKeeps, Zenon
<1>6. CASE ~Aligned(native, stack)
  <2>1. ctl.res.tag = "Abort" /\ ~Kept
    BY <1>1, <1>6, Zenon DEF Unwinding, OnPath, Kept
  <2>2. ~OnPath(ctl')
    BY <1>1, <1>2, <2>1, Zenon DEF OnPath
  <2>3. QED
    BY <1>1, <1>2, <2>1, <2>2, FailKeeps, Zenon
<1>7. QED
  BY <1>5, <1>6, Zenon

LEMMA FromReturnsUnwinds ==
    ASSUME Base, Unwinding, FromCurLocReturns
    PROVE  Unwinding' /\ Kept'
<1>1. /\ ctl.at = "return" /\ native # <<>> /\ stack # <<>> /\ Frame.kind = "from"
      /\ PopCallsite /\ UNCHANGED fresh
      /\ \/ ctl' = Enter /\ UNCHANGED native
         \/ ctl' = Backtracking("dead")
  BY Zenon DEF FromCurLocReturns, ReturnsTo
<1>2. CASE ctl' = Enter /\ UNCHANGED native
  <2>1. IsSeq(native) /\ Len(native) > 0 /\ IsSeq(stack')
    BY <1>1, Popped, CallsitePopped, Zenon DEF Base, IsNative, IsStack
  <2>2. Aligned(native', stack')
    BY <1>1, <1>2, <2>1, AlignedFrom, Zenon DEF Frame
  <2>3. QED
    BY <1>1, <1>2, <2>2, InnerKeeps, FormsInner, Zenon
<1>3. CASE ctl' = Backtracking("dead")
  BY <1>1, <1>3, FailKeeps, FormsInner, FormsFail, FormsAbort, Zenon
<1>4. QED
  BY <1>1, <1>2, <1>3, Zenon

LEMMA UnwindUnwinds ==
    ASSUME Base, UnwindCallsite, ~CatchesBelow
    PROVE  Unwinding' /\ Kept'
<1>1. ctl.at = "unwind" /\ UNCHANGED <<fresh, native>> /\ IsSeq(native)
  BY Zenon DEF UnwindCallsite, Base, IsNative
<1>2. \/ stack = <<>> /\ stack' = <<>> /\ ctl' = Returning(Throw(ctl.ptr))
      \/ ctl' = ctl
      \/ \E vm, ptr, loc, bb : CatchAtExceptionLabel(vm, ptr, loc, bb)
  BY Zenon DEF UnwindCallsite
<1>3. CASE stack' = <<>> /\ Inner(ctl')
  <2>1. Aligned(native', stack')
    BY <1>1, <1>3, AlignedEmpty, Zenon
  <2>2. QED
    BY <1>1, <1>3, <2>1, InnerKeeps, Zenon
<1>4. CASE ctl' = ctl
  <2>1. Inner(ctl') /\ ~OnPath(ctl') /\ ctl'.at # "return"
    BY <1>1, <1>4, Zenon DEF Inner, OnPath
  <2>2. QED
    BY <1>1, <2>1, FailKeeps, Zenon
<1>5. CASE \E vm, ptr, loc, bb : CatchAtExceptionLabel(vm, ptr, loc, bb)
  <2>1. (\E x : ctl' = Catch(x)) \/ ctl' = Returning(Err("LoopBoundExceeded"))
    BY <1>5, Zenon DEF CatchAtExceptionLabel
  <2>2. CASE \E x : ctl' = Catch(x)
    <3>1. ctl'.at = "catch"
      BY <2>2, SMTT(30) DEF Catch
    <3>2. stack' = <<>>
      BY <3>1, Zenon DEF CatchesBelow
    <3>3. QED
      BY <1>3, <1>5, <3>2, CatchInner, Zenon
  <2>3. CASE ctl' = Returning(Err("LoopBoundExceeded"))
    BY <1>1, <2>3, FailKeeps, FormsInner, FormsFail, FormsAbort, Zenon
  <2>4. QED
    BY <2>1, <2>2, <2>3, Zenon
<1>6. QED
  BY <1>2, <1>3, <1>4, <1>5, FormsInner, Zenon

LEMMA BacktrackUnwinds ==
    ASSUME Base, Base', Backtrack \/ BacktrackFails
    PROVE  Unwinding' /\ Kept'
<1>1. ctl.at = "backtrack" /\ UNCHANGED fresh
  BY Zenon DEF Backtrack, BacktrackFails
<1>2. CASE BacktrackFails
  <2>1. ctl' = Returning(NoPath)
    BY <1>2, Zenon DEF BacktrackFails
  <2>2. QED
    BY <1>1, <2>1, FailKeeps, FormsInner, FormsFail, FormsAbort, Zenon
<1>3. CASE Backtrack
  <2>1. native' = Append(native, [kind |-> "from"]) /\ ctl' = Enter
    BY <1>3, Zenon DEF Backtrack
  <2>2. IsSeq(native) /\ IsSeq(native') /\ IsSeq(stack') /\ Len(native) \in Nat
    BY SeqShape, Zenon DEF Base, IsNative, IsStack
  <2>3. Len(native') = Len(native) + 1 /\ native'[Len(native) + 1] = [kind |-> "from"]
    BY <2>1, <2>2, Appended, Zenon
  <2>4. Len(native') > 0 /\ native'[Len(native')].kind = "from"
    BY <2>2, <2>3, SMTT(30)
  <2>5. Aligned(native', stack')
    BY <2>2, <2>4, AlignedFrom, Zenon
  <2>6. QED
    BY <1>1, <2>1, <2>5, InnerKeeps, FormsInner, Zenon
<1>4. QED
  BY <1>2, <1>3, Zenon

LEMMA NextUnwinds ==
    ASSUME Base, Unwinding, NextCalled \/ NextReturns
    PROVE  Unwinding' /\ Kept'
<1>1. IsSeq(native) /\ IsSeq(stack) /\ UNCHANGED <<stack, native>>
  BY Zenon DEF NextCalled, NextReturns, state, Base, IsNative, IsStack
<1>2. CASE NextCalled
  <2>1. ~fresh' /\ native' = <<>> /\ ctl.at = "idle"
    BY <1>1, <1>2, Zenon DEF NextCalled, Unwinding
  <2>2. CASE fresh
    <3>1. ctl' = Enter /\ Aligned(native', stack')
      BY <1>1, <1>2, <2>2, AlignedEmpty, Zenon DEF NextCalled, Unwinding
    <3>2. QED
      BY <2>1, <3>1, Zenon DEF Unwinding, Kept, CallstackUnwound, Answered, NoPanic, Enter
  <2>3. CASE ~fresh
    <3>1. ctl' = Backtracking("none") \/ ctl' = Backtracking("next")
      BY <1>2, <2>3, Zenon DEF NextCalled
    <3>2. QED
      BY <2>1, <3>1, SMTT(30) DEF Unwinding, Kept, CallstackUnwound, Answered, NoPanic, OnPath, Backtracking
  <2>4. QED
    BY <2>2, <2>3, Zenon
<1>3. CASE NextReturns
  <2>1. /\ ctl.at = "return" /\ native = <<>> /\ ~fresh'
        /\ ctl'.at = "idle" /\ ctl'.res = ctl.res
    BY <1>3, Zenon DEF NextReturns, Idle, Base
  <2>2. OnPath(ctl) => stack = <<>>
    <3> SUFFICES ASSUME OnPath(ctl) PROVE stack = <<>>
      BY Zenon
    <3>1. PICK m \in 0..Len(stack) : Matched(native, stack, m)
      BY Zenon DEF Unwinding, Aligned
    <3>2. Len(native) = 0 /\ Len(stack) \in Nat
      BY <1>1, <2>1, EmptyIsSeq, SeqShape, Zenon
    <3>3. m <= 0 /\ ~(m < Len(stack))
      BY <3>1, <3>2, SMTT(30) DEF Matched
    <3>4. Len(stack) = 0
      BY <3>2, <3>3, SMTT(30)
    <3>5. QED
      BY <1>1, <3>4, LengthZero, Zenon
  <2>3. ctl'.res.tag \in {"Return", "ReturnVoid", "Throw"} => stack' = <<>>
    BY <1>1, <2>1, <2>2, Zenon DEF OnPath
  <2>4. QED
    BY <1>1, <2>1, <2>3, Zenon DEF Unwinding, Kept, CallstackUnwound, Answered, NoPanic, OnPath
<1>4. QED
  BY <1>2, <1>3, Zenon

LEMMA UnwindingStep ==
    ASSUME Base, Base', Unwinding, [Next]_vars, ~CatchesBelow \/ UNCHANGED vars
    PROVE  Unwinding' /\ (Kept /\ (~AbortsBelow \/ UNCHANGED vars) => Kept')
<1>1. CASE UNCHANGED vars
  BY <1>1, Zenon DEF vars, state, Unwinding, Kept, CallstackUnwound, Answered, NoPanic
<1>2. CASE Next /\ ~CatchesBelow /\ ~(UNCHANGED vars)
  BY <1>2, StraightUnwinds, EnteredUnwinds, CalleeEndsUnwinds, ReturnsUnwind, FromReturnsUnwinds,
     UnwindUnwinds, BacktrackUnwinds, NextUnwinds, Zenon DEF Next, Step, Panicked
<1>3. QED
  BY <1>1, <1>2, Zenon

LEMMA UnwindingInit ==
    ASSUME Init
    PROVE  Unwinding /\ Kept
BY Zenon DEF Init, Idle, Unwinding, Kept, CallstackUnwound, Answered, NoPanic, OnPath

\* A path that runs to its end leaves no callsite behind, whether it came back
\* through symex_call and symex_invoke or, after backtracking, through the
\* callstack that symex_from_cur_loc takes up.  The one step left out is the
\* exception caught by an invoke above the first callsite.
THEOREM EngineUnwinds == Spec /\ [][~CatchesBelow]_vars => []CallstackUnwound
<1>1. Init => Unwinding
  BY UnwindingInit, Zenon
<1>2. Base /\ Base' /\ Unwinding /\ [Next]_vars /\ [~CatchesBelow]_vars => Unwinding'
  BY UnwindingStep, Zenon
<1>3. Unwinding => CallstackUnwound
  BY Zenon DEF Unwinding
<1>4. QED
  BY <1>1, <1>2, <1>3, BaseInvariance, PTL DEF Spec

\* The engine does not panic: whatever was explored, abandoned and resumed in
\* between, symex_call and symex_invoke pop the callsite they pushed.  The
\* steps left out are the two that leave callsites of symex_from_cur_loc to
\* the frames below it.
THEOREM EngineNeverPanics == Spec /\ [][~CatchesBelow]_vars /\ [][~AbortsBelow]_vars => []NoPanic
<1>1. Init => Unwinding /\ Kept
  BY UnwindingInit, Zenon
<1>2. Base /\ Base' /\ Unwinding /\ Kept /\ [Next]_vars /\ [~CatchesBelow]_vars /\ [~AbortsBelow]_vars
         => Unwinding' /\ Kept'
  BY UnwindingStep, Zenon
<1>3. Kept => NoPanic
  BY Zenon DEF Kept
<1>4. QED
  BY <1>1, <1>2, <1>3, BaseInvariance, PTL DEF Spec
=============================================================================
