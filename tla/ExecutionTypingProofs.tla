----------------------- MODULE ExecutionTypingProofs -----------------------
(***************************************************************************)
(* The engine, for every program that LLVM accepts: the state of a path    *)
(* that goes on keeps its types.                                           *)
(***************************************************************************)
EXTENDS ExecutionProofs
-----------------------------------------------------------------------------
(* Types.  The bitvectors are defined on all inputs, and no variable has     *)
(* more versions than the loop bound while the path goes on.                 *)

\* vm is a VarMap whose versions are at most max.
TypedVm(vm, max) ==
    /\ vm = [active |-> vm.active, version |-> vm.version]
    /\ DOMAIN vm.active \subseteq DOMAIN vm.version
    /\ \A k \in DOMAIN vm.active : DOMAIN vm.active[k] = Inputs
    /\ \A k \in DOMAIN vm.version : vm.version[k] \in 0..max
TypedInfo(info) == \A k \in DOMAIN info : DOMAIN info[k] = Inputs

\* The path goes on, or has ended with a result.
Alive(c) ==
    \/ c.at \in {"enter", "exec", "catch", "pad", "unwind"}
    \/ c.at = "return" /\ c.res.tag \notin {"Err", "None"}
TypedCtl(c) ==
    /\ c.at = "return" /\ c.res.tag \in {"Return", "Throw"} => DOMAIN c.res.bv = Inputs
    /\ c.at = "unwind" => DOMAIN c.ptr = Inputs

\* A version number past the bound ends the path.
TypedVars(vm, c, bound) ==
    /\ TypedVm(vm, bound)
    /\ Alive(c) => TypedVm(vm, bound - 1)
    /\ TypedCtl(c)

Memories == [Inputs -> [Val -> Val]]
TypedStack(st) == \A j \in 1..Len(st) : TypedInfo(st[j].restore_info)
TypedPoint(bp, bound) ==
    TypedVm(bp.varmap, bound - 1) /\ bp.mem \in Memories /\ TypedStack(bp.stack)

Typed ==
    /\ TypedVars(varmap, ctl, config.loop_bound)
    /\ fresh => TypedVm(varmap, config.loop_bound - 1)
    /\ TypedStack(stack)
    /\ mem \in Memories
    /\ \A j \in 1..Len(path) : IsLoc(program, path[j])
    /\ \A k \in 1..Len(backtrack_points) : TypedPoint(backtrack_points[k], config.loop_bound)
    /\ function_ptr_cache \in [DOMAIN function_ptr_cache -> Val]
    /\ yielded \subseteq Inputs /\ excluded \subseteq Inputs

LEMMA OperandsFormed ==
    ASSUME NEW s \in Scenarios, NEW loc, IsLoc(s.program, loc)
    PROVE  HasOperands(InstrIn(s.program, loc))
<1> DEFINE b == BlockIn(s.program, loc)
<1>1. WellFormedBlock(b, 1..Len(s.program[loc.func].blocks))
  BY BlockFormed, Zenon
<1>2. Len(b.instrs) \in Nat /\ loc.instr \in 1..(Len(b.instrs) + 1)
  BY <1>1, Zenon DEF WellFormedBlock, IsLoc
<1>3. CASE loc.instr > Len(b.instrs)
  BY <1>1, <1>3, Zenon DEF InstrIn, WellFormedBlock
<1>4. CASE ~(loc.instr > Len(b.instrs))
  <2>1. InstrIn(s.program, loc) = b.instrs[loc.instr] /\ loc.instr \in 1..Len(b.instrs)
    BY <1>2, <1>4, SMTT(30) DEF InstrIn
  <2>2. QED
    BY <1>1, <2>1, Zenon DEF WellFormedBlock
<1>5. QED
  BY <1>3, <1>4, Zenon

LEMMA BoundPositive == ASSUME Base PROVE config.loop_bound \in Nat \ {0}
BY ScenariosAssumption, Zenon DEF Base, WellFormed, config

LEMMA VmWeaker ==
    ASSUME NEW vm, NEW b \in Nat, TypedVm(vm, b - 1)
    PROVE  TypedVm(vm, b)
BY SMTT(30) DEF TypedVm

\* `assign_bv_to_name` leaves the bound in force when it succeeds, and exceeds it
\* by at most one when it fails.
LEMMA AssignTyped ==
    ASSUME NEW vm, NEW k, NEW bv, NEW b \in Nat \ {0}, TypedVm(vm, b - 1), DOMAIN bv = Inputs
    PROVE  /\ TypedVm(AssignBvToName(vm, k, bv, b), b)
           /\ FitsLoopBound(vm, k, b) => TypedVm(AssignBvToName(vm, k, bv, b), b - 1)
<1> DEFINE v == NewVersionNum(vm, k)
           w == AssignBvToName(vm, k, bv, b)
<1>1. v \in 0..b /\ (FitsLoopBound(vm, k, b) => v \in 0..(b - 1))
  BY SMTT(30) DEF TypedVm, NewVersionNum, FitsLoopBound
<1>2. w.version = Insert(vm.version, k, v) /\ w = [active |-> w.active, version |-> w.version]
  BY Zenon DEF AssignBvToName
<1>3. FitsLoopBound(vm, k, b) => w.active = Insert(vm.active, k, bv)
  BY Zenon DEF AssignBvToName
<1>4. ~FitsLoopBound(vm, k, b) => w.active = vm.active
  BY Zenon DEF AssignBvToName
<1> HIDE DEF v, w
<1>5. /\ DOMAIN w.version = DOMAIN vm.version \cup {k}
      /\ \A x \in DOMAIN w.version : w.version[x] = IF x = k THEN v ELSE vm.version[x]
  BY <1>2, Zenon DEF Insert
<1>6. FitsLoopBound(vm, k, b) =>
         /\ DOMAIN w.active = DOMAIN vm.active \cup {k}
         /\ \A x \in DOMAIN w.active : w.active[x] = IF x = k THEN bv ELSE vm.active[x]
  BY <1>3, Zenon DEF Insert
<1>7. /\ DOMAIN w.active \subseteq DOMAIN w.version
      /\ \A x \in DOMAIN w.active : DOMAIN w.active[x] = Inputs
  BY <1>4, <1>5, <1>6, Zenon DEF TypedVm
<1>8. \A x \in DOMAIN vm.version : vm.version[x] \in 0..(b - 1) /\ vm.version[x] \in 0..b
  BY SMTT(30) DEF TypedVm
<1>9. QED
  BY <1>1, <1>2, <1>5, <1>7, <1>8, Zenon DEF TypedVm, w

\* Restoring the caller's variables creates no version.
LEMMA RestoreTyped ==
    ASSUME NEW vm, NEW max, TypedVm(vm, max), NEW info, TypedInfo(info)
    PROVE  TypedVm(RestoreFnVars(vm, info), max)
<1> DEFINE w == RestoreFnVars(vm, info)
           a == [k \in DOMAIN vm.active |-> IF k \in DOMAIN info THEN info[k] ELSE vm.active[k]]
<1>1. w = [active |-> a, version |-> vm.version]
  BY SMTT(30) DEF RestoreFnVars, TypedVm
<1>2. DOMAIN a = DOMAIN vm.active /\ \A k \in DOMAIN a : DOMAIN a[k] = Inputs
  BY Zenon DEF TypedVm, TypedInfo
<1> HIDE DEF a
<1>3. w.active = a /\ w.version = vm.version /\ w = [active |-> w.active, version |-> w.version]
  BY <1>1, SMTT(30)
<1>4. QED
  BY <1>2, <1>3, Zenon DEF TypedVm

LEMMA SavedInfoTyped ==
    ASSUME NEW vm, NEW max, TypedVm(vm, max), NEW f
    PROVE  TypedInfo(RestoreInfoFor(vm, f))
BY Zenon DEF TypedVm, TypedInfo, RestoreInfoFor

LEMMA UnconstrainedTyped == \A k, v : DOMAIN Unconstrained(k, v) = Inputs
BY Zenon DEF Unconstrained

LEMMA NewBvTyped ==
    ASSUME Base, NEW vm, NEW k, TypedVm(vm, config.loop_bound - 1)
    PROVE  /\ TypedVm(NewBvWithName(vm, k), config.loop_bound)
           /\ Fits(vm, k) => TypedVm(NewBvWithName(vm, k), config.loop_bound - 1)
BY AssignTyped, UnconstrainedTyped, BoundPositive, Zenon DEF NewBvWithName, Fits

\* Errors end the path; the other answers have the bitvectors that they hold.
Ends(c) == ~Alive(c) /\ TypedCtl(c)
LEMMA EndsPath ==
    /\ \A e : Ends(Returning(Err(e))) /\ Ends(InstrErr(e)) /\ Ends(CatchErr(e)) /\ Ends(HandleErr(e))
    /\ \A e, ins : Ends(CallErr(ins, e))
    /\ \A why : Ends(Backtracking(why))
    /\ Ends(Returning(NoPath)) /\ Ends(Panic)
BY SMTT(30) DEF Ends, Alive, TypedCtl, Returning, Err, InstrErr, CatchErr, HandleErr, CallErr, Backtracking, NoPath, Panic

LEMMA TypedAnswers ==
    /\ TypedCtl(Enter) /\ TypedCtl(Exec)
    /\ \A x : TypedCtl(Catch(x))
    /\ TypedCtl(Returning(ReturnVoid)) /\ TypedCtl(Returning(Abort))
    /\ \A bv : DOMAIN bv = Inputs =>
          TypedCtl(Returning(Return(bv))) /\ TypedCtl(Returning(Throw(bv))) /\ TypedCtl(Unwind(bv))
BY Zenon DEF TypedCtl, Enter, Exec, Catch, Returning, ReturnVoid, Abort, Return, Throw, Unwind

LEMMA EndsTyped ==
    ASSUME NEW vm, NEW b, TypedVm(vm, b), NEW c, Ends(c)
    PROVE  TypedVars(vm, c, b)
BY Zenon DEF TypedVars, Ends

LEMMA GoesOnTyped ==
    ASSUME NEW vm, NEW b \in Nat, TypedVm(vm, b - 1), NEW c, TypedCtl(c)
    PROVE  TypedVars(vm, c, b)
BY VmWeaker, Zenon DEF TypedVars

\* An operand that is defined is a bitvector.
LEMMA OperandTyped ==
    ASSUME Typed, NEW op, Defined(op)
    PROVE  DOMAIN OperandToBV(op) = Inputs
<1>1. CASE op.kind = "const"
  BY <1>1, Zenon DEF OperandToBV
<1>2. CASE op.kind # "const"
  BY <1>2, Zenon DEF OperandToBV, Defined, Typed, TypedVars, TypedVm
<1>3. QED
  BY <1>1, <1>2, Zenon

LEMMA RecordTyped ==
    ASSUME Base, Typed, Alive(ctl), NEW n, NEW bv, DOMAIN bv = Inputs, RecordBVResult(n, bv)
    PROVE  TypedVars(varmap', ctl', config.loop_bound)
<1> DEFINE b == config.loop_bound
<1>1. b \in Nat \ {0} /\ TypedVm(varmap, b - 1) /\ TypedCtl(ctl)
  BY BoundPositive, Zenon DEF Typed, TypedVars
<1>2. /\ TypedVm(varmap', b)
      /\ Fits(varmap, Key(n)) => TypedVm(varmap', b - 1)
  BY <1>1, AssignTyped, Zenon DEF RecordBVResult, Fits
<1>3. \/ Fits(varmap, Key(n)) /\ ctl' = ctl
      \/ ctl' = HandleErr("LoopBoundExceeded")
  BY Zenon DEF RecordBVResult
<1> HIDE DEF b
<1>4. QED
  BY <1>1, <1>2, <1>3, EndsPath, EndsTyped, GoesOnTyped, Zenon DEF b

LEMMA ContinueTyped ==
    ASSUME Base, NEW ins, NEW loc, NEW vm, TypedVm(vm, config.loop_bound - 1), NEW default,
           ContinueAfter(ins, loc, vm, default)
    PROVE  TypedVars(varmap', ctl', config.loop_bound)
<1>1. config.loop_bound \in Nat /\ varmap' = vm
  BY BoundPositive, Zenon DEF ContinueAfter
<1>2. TypedCtl(ctl')
  BY TypedAnswers, EndsPath, Zenon DEF ContinueAfter, Ends
<1>3. QED
  BY <1>1, <1>2, GoesOnTyped, Zenon

LEMMA ResultTyped ==
    ASSUME Base, NEW ins, NEW loc, NEW vm, TypedVm(vm, config.loop_bound - 1), NEW bv, DOMAIN bv = Inputs,
           NEW default, AssignCallResult(ins, loc, vm, bv, default)
    PROVE  TypedVars(varmap', ctl', config.loop_bound)
<1> DEFINE b   == config.loop_bound
           k   == <<loc.func, ins.dest>>
           vm1 == AssignBvToName(vm, k, bv, b)
<1>1. b \in Nat \ {0}
  BY BoundPositive, Zenon
<1>2. TypedVm(vm1, b) /\ (Fits(vm, k) => TypedVm(vm1, b - 1))
  BY <1>1, AssignTyped, Zenon DEF Fits
<1>3. \/ Fits(vm, k) /\ ContinueAfter(ins, loc, vm1, default)
      \/ varmap' = vm1 /\ ctl' = CallErr(ins, "LoopBoundExceeded")
  BY Zenon DEF AssignCallResult
<1> HIDE DEF k, vm1
<1>4. QED
  BY <1>2, <1>3, ContinueTyped, EndsPath, EndsTyped, Zenon

LEMMA CatchTyped ==
    ASSUME Base, NEW vm, TypedVm(vm, config.loop_bound - 1), NEW ptr, NEW loc, NEW bb,
           CatchAtExceptionLabel(vm, ptr, loc, bb)
    PROVE  TypedVars(varmap', ctl', config.loop_bound)
<1> DEFINE b == config.loop_bound
           k == <<loc.func, "type_index">>
<1>1. b \in Nat /\ TypedVm(varmap', b) /\ (Fits(vm, k) => TypedVm(varmap', b - 1))
  BY NewBvTyped, BoundPositive, Zenon DEF CatchAtExceptionLabel
<1>2. \/ Fits(vm, k) /\ \E x : ctl' = Catch(x)
      \/ ctl' = Returning(Err("LoopBoundExceeded"))
  BY Zenon DEF CatchAtExceptionLabel
<1> HIDE DEF b, k
<1>3. QED
  BY <1>1, <1>2, TypedAnswers, EndsPath, EndsTyped, GoesOnTyped, Zenon DEF b



-----------------------------------------------------------------------------
LEMMA EmptyCardinality == Cardinality({}) = 0
BY Zenon DEF Cardinality

\* The address that is remembered is a value.
LEMMA CacheTyped ==
    ASSUME Base, Typed, NEW callee, callee.kind # "fn" => IsValue(callee), CacheFunctionPtr(callee)
    PROVE  function_ptr_cache' \in [DOMAIN function_ptr_cache' -> Val]
<1> DEFINE bv    == OperandToBV(callee)
           addrs == FunctionPtrAddrs(bv)
           c     == function_ptr_cache
<1>1. c \in [DOMAIN c -> Val]
  BY Zenon DEF Typed
<1>2. CASE callee.kind = "fn" \/ Cardinality(addrs) # 1
  BY <1>1, <1>2, Zenon DEF CacheFunctionPtr
<1>3. CASE callee.kind # "fn" /\ Cardinality(addrs) = 1
  <2>1. \A i \in Inputs : bv[i] \in Val
    BY <1>3, Zenon DEF IsValue
  <2>2. Top(solver) \subseteq Inputs
    <3>1. Len(backtrack_points) \in Nat
      BY SeqShape, Zenon DEF Base, ArePoints
    <3>2. solver \in Seq(SUBSET Inputs) /\ Len(solver) \in 1..Len(solver)
      BY <3>1, SMTT(30) DEF Base
    <3>3. QED
      BY <3>2, SeqElement, SMTT(30) DEF Top
  <2> HIDE DEF bv
  <2>3. addrs \subseteq Val
    BY <2>1, <2>2, Zenon DEF FunctionPtrAddrs, CachedAddr, PossibleSolutions
  <2> HIDE DEF addrs
  <2>4. addrs # {}
    BY <1>3, EmptyCardinality, SMTT(30)
  <2> DEFINE v == CHOOSE a \in addrs : TRUE
  <2>5. v \in Val
    BY <2>3, <2>4, Zenon
  <2>6. c' = Insert(c, cur_loc, v)
    BY <1>3, Zenon DEF CacheFunctionPtr, addrs, bv
  <2> HIDE DEF v, c
  <2>7. ASSUME NEW f, f \in [DOMAIN f -> Val], NEW k, NEW w \in Val, NEW g, g = Insert(f, k, w)
        PROVE  g \in [DOMAIN g -> Val]
    <3>1. \A x \in DOMAIN f : f[x] \in Val
      BY <2>7, Zenon
    <3>2. DOMAIN g = DOMAIN f \cup {k} /\ \A x \in DOMAIN g : g[x] = IF x = k THEN w ELSE f[x]
      BY <2>7, Zenon DEF Insert
    <3>3. g = [x \in DOMAIN g |-> g[x]]
      BY <2>7, Zenon DEF Insert
    <3>4. \A x \in DOMAIN g : g[x] \in Val
      BY <3>1, <3>2, Zenon
    <3>5. QED
      BY <3>3, <3>4, Zenon
  <2>8. QED
    BY <1>1, <2>5, <2>6, <2>7, Zenon DEF c
<1>4. QED
  BY <1>2, <1>3, Zenon

\* A step that changes variables, ctl and the cache only.
LEMMA MoveTyped ==
    ASSUME Base, Typed, ctl.at # "idle",
           UNCHANGED <<scenario, stack, mem, path, backtrack_points, fresh, yielded, excluded>>,
           TypedVars(varmap', ctl', config.loop_bound),
           function_ptr_cache' \in [DOMAIN function_ptr_cache' -> Val]
    PROVE  Typed'
<1>1. ~fresh' /\ config' = config /\ program' = program
  BY Zenon DEF Base, config, program
<1>2. QED
  BY <1>1, Zenon DEF Typed

LEMMA ExecAlive ==
    ASSUME ctl.at \in {"enter", "exec", "catch", "pad", "unwind"}
    PROVE  Alive(ctl)
BY Zenon DEF Alive

\* Instructions, terminators and calls that stay in the function.
LEMMA StraightTyped ==
    ASSUME Base, Typed, OperandsTyped,
           \/ CallbackFails \/ DataOp \/ Phi \/ Unsupported \/ CallUnresolved \/ CallIgnored
           \/ CallUnknown \/ CallMalformed \/ Ret \/ Resume
    PROVE  Typed'
<1> DEFINE b == config.loop_bound
           Cached == function_ptr_cache' \in [DOMAIN function_ptr_cache' -> Val]
<1>1. /\ ctl.at = "exec"
      /\ UNCHANGED <<scenario, stack, mem, path, backtrack_points, fresh, yielded, excluded>>
  BY Zenon DEF CallbackFails, DataOp, Phi, Unsupported, CallUnresolved, CallIgnored, CallUnknown, CallMalformed,
         Ret, Resume, AtCall, At, state
<1>2. Alive(ctl)
  BY <1>1, ExecAlive, Zenon
<1>3. b \in Nat \ {0} /\ TypedVm(varmap, b) /\ TypedVm(varmap, b - 1)
  BY <1>2, BoundPositive, Zenon DEF Typed, TypedVars
<1>4. function_ptr_cache' = function_ptr_cache => Cached
  BY Zenon DEF Typed
<1>5. AtCall /\ CacheFunctionPtr(Instr.callee) => Cached
  <2>1. AtCall => (Instr.callee.kind # "fn" => IsValue(Instr.callee))
    BY Zenon DEF AtCall, At, OperandsTyped
  <2>2. QED
    BY <2>1, CacheTyped, Zenon
<1> HIDE DEF Cached
<1>6. ASSUME TypedVars(varmap', ctl', b), Cached PROVE Typed'
  BY <1>1, <1>6, MoveTyped, Zenon DEF Cached
<1>7. \A c : Ends(c) => TypedVars(varmap, c, b)
  BY <1>3, EndsTyped, Zenon
<1>8. CASE CallbackFails \/ Unsupported \/ CallUnknown
  <2>1. UNCHANGED <<varmap, function_ptr_cache>> /\ Ends(ctl')
    BY <1>8, EndsPath, Zenon DEF CallbackFails, Unsupported, CallUnknown, state
  <2>2. QED
    BY <1>4, <1>6, <1>7, <2>1, Zenon
<1>9. CASE DataOp
  <2>1. /\ function_ptr_cache' = function_ptr_cache
        /\ \E n, bv : DOMAIN bv = Inputs /\ RecordBVResult(n, bv)
    BY <1>9, Zenon DEF DataOp
  <2>2. QED
    BY <1>2, <1>4, <1>6, <2>1, RecordTyped, Zenon
<1>10. CASE Phi
  <2> DEFINE prev == path[Len(path) - 1].bb
  <2>1. function_ptr_cache' = function_ptr_cache /\ ChoosePhi(Instr) /\ Instr.op = "phi"
    BY <1>10, Zenon DEF Phi, At
  <2>2. CASE prev \in DOMAIN Instr.incoming /\ RecordBVResult(Instr.dest, OperandToBV(Instr.incoming[prev]))
    <3>1. Defined(Instr.incoming[prev])
      BY <1>1, <2>1, <2>2, Zenon DEF OperandsTyped
    <3>2. QED
      BY <1>2, <1>4, <1>6, <2>1, <2>2, <3>1, RecordTyped, OperandTyped, Zenon
  <2>3. CASE ctl' = HandleErr("OtherError") /\ UNCHANGED varmap
    BY <1>4, <1>6, <1>7, <2>1, <2>3, EndsPath, Zenon
  <2>4. QED
    BY <2>1, <2>2, <2>3, Zenon DEF ChoosePhi
<1>11. CASE CallUnresolved \/ CallMalformed
  <2>1. UNCHANGED varmap /\ AtCall /\ CacheFunctionPtr(Instr.callee) /\ Ends(ctl')
    BY <1>11, EndsPath, Zenon DEF CallUnresolved, CallMalformed
  <2>2. QED
    BY <1>5, <1>6, <1>7, <2>1, Zenon
<1>12. CASE CallIgnored
  <2> DEFINE k == Key(Callee(Instr) \o "_retval")
  <2>1. AtCall /\ CacheFunctionPtr(Instr.callee)
    BY <1>12, Zenon DEF CallIgnored
  <2>2. \/ ContinueAfter(Instr, cur_loc, varmap, FALSE)
        \/ /\ Fits(varmap, k)
           /\ \E v : AssignCallResult(Instr, cur_loc, NewBvWithName(varmap, k), Unconstrained(k, v), FALSE)
        \/ varmap' = NewBvWithName(varmap, k) /\ ctl' = CallErr(Instr, "LoopBoundExceeded")
    BY <1>12, Zenon DEF CallIgnored
  <2>3. /\ TypedVm(NewBvWithName(varmap, k), b)
        /\ Fits(varmap, k) => TypedVm(NewBvWithName(varmap, k), b - 1)
    BY <1>3, NewBvTyped, Zenon
  <2> HIDE DEF k
  <2>4. CASE ContinueAfter(Instr, cur_loc, varmap, FALSE)
    BY <1>3, <1>5, <1>6, <2>1, <2>4, ContinueTyped, Zenon
  <2>5. CASE /\ Fits(varmap, k)
             /\ \E v : AssignCallResult(Instr, cur_loc, NewBvWithName(varmap, k), Unconstrained(k, v), FALSE)
    BY <1>5, <1>6, <2>1, <2>3, <2>5, ResultTyped, UnconstrainedTyped, Zenon
  <2>6. CASE varmap' = NewBvWithName(varmap, k) /\ ctl' = CallErr(Instr, "LoopBoundExceeded")
    BY <1>5, <1>6, <2>1, <2>3, <2>6, EndsTyped, EndsPath, Zenon
  <2>7. QED
    BY <2>2, <2>4, <2>5, <2>6, Zenon
<1>13. CASE Ret \/ Resume
  <2>1. UNCHANGED <<varmap, function_ptr_cache>> /\ Instr.op \in {"ret", "resume"}
    BY <1>13, Zenon DEF Ret, Resume, At, state
  <2>2. TypedCtl(ctl')
    <3>1. HasOperands(Instr)
      BY OperandsFormed, InstrHere, Zenon DEF Base, program
    <3>2. Instr.args # <<>> /\ Instr.op = "ret" => 1 \in 1..Len(Instr.args)
      BY <3>1, SMTT(30) DEF HasOperands
    <3>3. Instr.args # <<>> /\ Instr.op = "ret" => DOMAIN OperandToBV(Instr.args[1]) = Inputs
      BY <1>1, <3>2, OperandTyped, Zenon DEF OperandsTyped
    <3>4. CASE Ret
      BY <3>3, <3>4, TypedAnswers, Zenon DEF Ret, At
    <3>5. CASE Resume
      <4>1. \E bv : DOMAIN bv = Inputs /\ ctl' = Returning(Throw(bv))
        BY <3>5, Zenon DEF Resume
      <4>2. QED
        BY <4>1, TypedAnswers, Zenon
    <3>6. QED
      BY <1>13, <3>4, <3>5, Zenon
  <2>3. QED
    BY <1>3, <1>4, <1>6, <2>1, <2>2, GoesOnTyped, Zenon
<1>14. QED
  BY <1>8, <1>9, <1>10, <1>11, <1>12, <1>13, Zenon


LEMMA TopInputs ==
    ASSUME Base
    PROVE  Top(solver) \subseteq Inputs
<1>1. Len(backtrack_points) \in Nat
  BY SeqShape, Zenon DEF Base, ArePoints
<1>2. solver \in Seq(SUBSET Inputs) /\ Len(solver) \in 1..Len(solver)
  BY <1>1, SMTT(30) DEF Base
<1>3. QED
  BY <1>2, SeqElement, SMTT(30) DEF Top

\* What a hook leaves behind.
TypedOutcome(out, bound) ==
    /\ TypedVm(out.varmap, bound)
    /\ out.res.tag # "Err" => TypedVm(out.varmap, bound - 1)
    /\ out.res.tag \in {"Return", "Throw"} => DOMAIN out.res.bv = Inputs

LEMMA HookOutcomeTyped ==
    ASSUME Base, TypedVm(varmap, config.loop_bound), TypedVm(varmap, config.loop_bound - 1), NEW ins,
           NEW h \in HookNames, h = "throw" => DOMAIN ArgsToBVs(ins)[1] = Inputs
    PROVE  TypedOutcome(SymexHook(h, ins), config.loop_bound)
<1> DEFINE b   == config.loop_bound
           out == CallHook(h, ins)
<1>1. out = [res |-> out.res, varmap |-> out.varmap, asserts |-> out.asserts] /\ TypedOutcome(out, b)
  <2>1. CASE h = "assume"
    BY <2>1, Zenon DEF CallHook, AssumeHook, HookOutcome, ReturnVoid, TypedOutcome
  <2>2. CASE h = "throw"
    BY <2>2, Zenon DEF CallHook, ThrowHook, HookOutcome, Throw, TypedOutcome
  <2>3. CASE h = "abort"
    BY <2>3, Zenon DEF CallHook, AbortHook, HookOutcome, Abort, TypedOutcome
  <2>4. CASE h = "stub"
    <3> DEFINE k == Key("generic_stub_hook_retval")
               v == NewBvWithName(varmap, k)
               u == Unconstrained(k, NewVersionNum(varmap, k))
    <3>1. TypedVm(v, b) /\ (Fits(varmap, k) => TypedVm(v, b - 1)) /\ DOMAIN u = Inputs
      BY NewBvTyped, UnconstrainedTyped, Zenon
    <3>2. out = StubHook(ins)
      BY <2>4, Zenon DEF CallHook
    <3>3. CASE ins.dest = "void"
      BY <3>2, <3>3, SMTT(30) DEF StubHook, HookOutcome, ReturnVoid, TypedOutcome
    <3>4. CASE ins.dest # "void"
      <4>1. /\ Fits(varmap, k) => out = [res |-> Return(u), varmap |-> v, asserts |-> Inputs]
            /\ ~Fits(varmap, k) => out = [res |-> Err("LoopBoundExceeded"), varmap |-> v, asserts |-> Inputs]
        BY <3>2, <3>4, Zenon DEF StubHook, HookOutcome
      <4> HIDE DEF k, v, u, out
      <4>2. QED
        BY <3>1, <4>1, SMTT(30) DEF Return, Err, TypedOutcome
    <3>5. QED
      BY <3>3, <3>4, Zenon
  <2>5. QED
    BY <2>1, <2>2, <2>3, <2>4, Zenon DEF HookNames
<1>2. SymexHook(h, ins) = out \/ SymexHook(h, ins) = [out EXCEPT !.res = Err("HookReturnValueMismatch")]
  BY Zenon DEF SymexHook
<1> HIDE DEF out
<1>3. CASE SymexHook(h, ins) = [out EXCEPT !.res = Err("HookReturnValueMismatch")]
  <2>1. SymexHook(h, ins).res.tag = "Err" /\ SymexHook(h, ins).varmap = out.varmap
    BY <1>1, <1>3, SMTT(30) DEF Err
  <2>2. QED
    BY <1>1, <2>1, Zenon DEF TypedOutcome
<1>4. QED
  BY <1>1, <1>2, <1>3, Zenon

LEMMA HookedTyped ==
    ASSUME Base, Typed, OperandsTyped, HookTyped, CallHooked
    PROVE  Typed'
<1> DEFINE b   == config.loop_bound
           f   == Callee(Instr)
           h   == IF Hooked(f) THEN config.hooks[f] ELSE config.default_hook
           out == SymexHook(h, Instr)
<1>1. /\ ctl.at = "exec" /\ Instr.op \in {"call", "invoke"}
      /\ Resolves(Instr) /\ (Hooked(f) \/ UsesDefaultHook(f))
      /\ CacheFunctionPtr(Instr.callee)
      /\ excluded' = excluded \cup (Top(solver) \ out.asserts)
      /\ UNCHANGED <<scenario, stack, mem, path, backtrack_points, fresh, yielded>>
  BY Zenon DEF CallHooked, AtCall, At
<1>2. b \in Nat \ {0} /\ TypedVm(varmap, b) /\ TypedVm(varmap, b - 1)
  BY <1>1, ExecAlive, BoundPositive, Zenon DEF Typed, TypedVars
<1>3. h \in HookNames
  <2>1. scenario \in Scenarios /\ WellFormed(scenario)
    BY ScenariosAssumption, Zenon DEF Base
  <2>2. QED
    BY <1>1, <2>1, Zenon DEF WellFormed, Hooked, UsesDefaultHook, config
<1>4. h = "throw" => DOMAIN ArgsToBVs(Instr)[1] = Inputs
  <2>1. SUFFICES ASSUME h = "throw" PROVE DOMAIN ArgsToBVs(Instr)[1] = Inputs
    BY Zenon
  <2>2. Len(Instr.args) > 0
    BY <1>1, <2>1, Zenon DEF HookTyped
  <2>3. Len(Instr.args) \in Nat
    BY OperandsFormed, InstrHere, Zenon DEF Base, program, HasOperands
  <2>4. 1 \in 1..Len(Instr.args)
    BY <2>2, <2>3, SMTT(30)
  <2>5. ArgsToBVs(Instr)[1] = OperandToBV(Instr.args[1]) /\ Defined(Instr.args[1])
    BY <1>1, <2>4, Zenon DEF ArgsToBVs, OperandsTyped
  <2>6. QED
    BY <2>5, OperandTyped, Zenon
<1> HIDE DEF h
<1>5. TypedOutcome(out, b)
  BY <1>2, <1>3, <1>4, HookOutcomeTyped, Zenon
<1>6. \/ out.res.tag = "Return" /\ \E default : AssignCallResult(Instr, cur_loc, out.varmap, out.res.bv, default)
      \/ out.res.tag = "ReturnVoid" /\ \E default : ContinueAfter(Instr, cur_loc, out.varmap, default)
      \/ /\ out.res.tag \in {"Throw", "Abort"} /\ ctl' = Returning(out.res) /\ varmap' = out.varmap
      \/ /\ out.res.tag = "Throw"
         /\ CatchAtExceptionLabel(out.varmap, out.res.bv, cur_loc, Instr.exception_label)
      \/ out.res.tag = "Err" /\ ctl' = CallErr(Instr, out.res.err) /\ varmap' = out.varmap
  BY Zenon DEF CallHooked, h
<1> HIDE DEF out
<1>7. TypedVars(varmap', ctl', b)
  <2>1. CASE out.res.tag = "Return" /\ \E default : AssignCallResult(Instr, cur_loc, out.varmap, out.res.bv, default)
    BY <1>5, <2>1, ResultTyped, Zenon DEF TypedOutcome
  <2>2. CASE out.res.tag = "ReturnVoid" /\ \E default : ContinueAfter(Instr, cur_loc, out.varmap, default)
    BY <1>5, <2>2, ContinueTyped, Zenon DEF TypedOutcome
  <2>3. CASE out.res.tag \in {"Throw", "Abort"} /\ ctl' = Returning(out.res) /\ varmap' = out.varmap
    <3>1. TypedCtl(Returning(out.res))
      BY <1>5, <2>3, Zenon DEF TypedOutcome, TypedCtl, Returning
    <3>2. TypedVm(out.varmap, b - 1)
      BY <1>5, <2>3, Zenon DEF TypedOutcome
    <3>3. QED
      BY <1>2, <2>3, <3>1, <3>2, GoesOnTyped, Zenon
  <2>4. CASE /\ out.res.tag = "Throw"
             /\ CatchAtExceptionLabel(out.varmap, out.res.bv, cur_loc, Instr.exception_label)
    BY <1>5, <2>4, CatchTyped, Zenon DEF TypedOutcome
  <2>5. CASE ctl' = CallErr(Instr, out.res.err) /\ varmap' = out.varmap
    BY <1>5, <2>5, EndsPath, EndsTyped, Zenon DEF TypedOutcome
  <2>6. QED
    BY <1>6, <2>1, <2>2, <2>3, <2>4, <2>5, Zenon
<1>8. function_ptr_cache' \in [DOMAIN function_ptr_cache' -> Val]
  <2>1. Instr.callee.kind # "fn" => IsValue(Instr.callee)
    BY <1>1, Zenon DEF OperandsTyped
  <2>2. QED
    BY <1>1, <2>1, CacheTyped, Zenon
<1>9. excluded' \subseteq Inputs
  BY <1>1, TopInputs, Zenon DEF Typed
<1>10. ~fresh' /\ config' = config /\ program' = program
  BY <1>1, Zenon DEF Base, config, program
<1>11. QED
  BY <1>1, <1>7, <1>8, <1>9, <1>10, Zenon DEF Typed

\* The points that are saved have the types of the state.
LEMMA SavedTyped ==
    ASSUME Base, Typed, Alive(ctl), NEW alts, IsSeq(alts), SaveBacktrackingPoints(alts)
    PROVE  \A k \in 1..Len(backtrack_points') : TypedPoint(backtrack_points'[k], config.loop_bound)
<1> DEFINE n == Len(backtrack_points)
           t == [j \in 1..Len(alts) |-> [loc        |-> alts[j].loc,
                                         stack      |-> stack,
                                         constraint |-> alts[j].constraint,
                                         varmap     |-> varmap,
                                         mem        |-> mem,
                                         path_len   |-> Len(path)]]
<1>1. Len(alts) \in Nat /\ IsSeq(backtrack_points) /\ n \in Nat
  BY SeqShape, Zenon DEF Base, ArePoints
<1>2. IsSeq(t) /\ Len(t) = Len(alts)
  BY <1>1, FcnIsSeq, Zenon
<1>3. \A j \in 1..Len(alts) : TypedPoint(t[j], config.loop_bound)
  BY Zenon DEF TypedPoint, Typed, TypedVars
<1>4. backtrack_points' = backtrack_points \o t
  BY Zenon DEF SaveBacktrackingPoints
<1> HIDE DEF t
<1>5. /\ Len(backtrack_points') = n + Len(alts)
      /\ \A k \in 1..(n + Len(alts)) :
            backtrack_points'[k] = IF k <= n THEN backtrack_points[k] ELSE t[k - n]
  BY <1>1, <1>2, <1>4, Joined, Zenon
<1>6. ASSUME NEW k \in 1..Len(backtrack_points') PROVE TypedPoint(backtrack_points'[k], config.loop_bound)
  <2>1. CASE k <= n
    <3>1. k \in 1..n /\ backtrack_points'[k] = backtrack_points[k]
      BY <1>1, <1>5, <2>1, SMTT(30)
    <3>2. QED
      BY <3>1, Zenon DEF Typed
  <2>2. CASE ~(k <= n)
    <3>1. k - n \in 1..Len(alts) /\ backtrack_points'[k] = t[k - n]
      BY <1>1, <1>5, <2>2, SMTT(30)
    <3>2. QED
      BY <1>3, <3>1, Zenon
  <2>3. QED
    BY <2>1, <2>2, Zenon
<1>7. QED
  BY <1>6, Zenon

LEMMA ForkTyped ==
    ASSUME Base, Typed, ctl.at = "exec",
           UNCHANGED <<scenario, fresh, function_ptr_cache, yielded, excluded>>,
           NEW bb, NEW c, NEW alts, IsSeq(alts), Fork(bb, c, alts)
    PROVE  Typed'
<1>1. /\ UNCHANGED <<stack, varmap, mem, path>> /\ ctl' = Enter
      /\ SaveBacktrackingPoints(alts)
  BY Zenon DEF Fork
<1>2. Alive(ctl) /\ ~fresh' /\ config' = config /\ program' = program
  BY ExecAlive, Zenon DEF Base, config, program
<1>3. \A k \in 1..Len(backtrack_points') : TypedPoint(backtrack_points'[k], config.loop_bound)
  BY <1>1, <1>2, SavedTyped, Zenon
<1>4. TypedVars(varmap', ctl', config.loop_bound)
  BY <1>1, <1>2, TypedAnswers, GoesOnTyped, BoundPositive, Zenon DEF Typed, TypedVars
<1>5. QED
  BY <1>1, <1>2, <1>3, <1>4, Zenon DEF Typed

LEMMA BranchTyped ==
    ASSUME Base, Typed, Br \/ CondBr \/ Switch
    PROVE  Typed'
<1>1. ctl.at = "exec" /\ UNCHANGED <<scenario, fresh, function_ptr_cache, yielded, excluded>>
  BY Zenon DEF Br, CondBr, Switch, At
<1>2. ASSUME NEW bb, NEW c, NEW alts, IsSeq(alts), Fork(bb, c, alts) PROVE Typed'
  BY <1>1, <1>2, ForkTyped, Zenon
<1>3. CASE Br
  BY <1>2, <1>3, EmptyIsSeq, Zenon DEF Br
<1>4. CASE CondBr
  <2>1. \/ \E bb, c, alt : Fork(bb, c, <<alt>>)
        \/ \E bb, c : Fork(bb, c, <<>>)
        \/ ctl' = Backtracking("dead") /\ UNCHANGED state
    BY <1>4, Zenon DEF CondBr
  <2>2. CASE ctl' = Backtracking("dead") /\ UNCHANGED state
    <3>1. UNCHANGED <<stack, varmap, mem, path, backtrack_points>>
      BY <2>2, Zenon DEF state
    <3>2. TypedVars(varmap', ctl', config.loop_bound)
      BY <2>2, <3>1, EndsPath, EndsTyped, Zenon DEF Typed, TypedVars
    <3>3. ctl.at # "idle" /\ function_ptr_cache' \in [DOMAIN function_ptr_cache' -> Val]
      BY <1>1, Zenon DEF Typed
    <3>4. QED
      BY <1>1, <3>1, <3>2, <3>3, MoveTyped, Zenon
  <2>3. QED
    BY <1>2, <2>1, <2>2, EmptyIsSeq, SingleIsSeq, Zenon
<1>5. CASE Switch
  <2> DEFINE v == OperandToBV(Instr.args[1])
             feasible == FeasibleCases(v, Instr.dests)
  <2>1. \/ Fork(Instr.default_dest, Inputs, <<>>)
        \/ \E n \in 1..Len(Instr.dests) : \E order \in [1..n -> feasible] :
              LET alts == SwitchAlts(v, Instr, order)
              IN  Fork(alts[1].loc.bb, alts[1].constraint, Tail(alts))
    BY <1>5, Zenon DEF Switch
  <2>2. ASSUME NEW n \in 1..Len(Instr.dests), NEW order \in [1..n -> feasible]
        PROVE  IsSeq(Tail(SwitchAlts(v, Instr, order)))
    <3> DEFINE alts == SwitchAlts(v, Instr, order)
    <3>1. n \in Nat /\ n >= 1
      BY <2>2, SMTT(30)
    <3>2. AreAlts(alts, v, Instr, order, n, DefaultConstraint(v, Instr.dests))
      BY <3>1, <2>2, SwitchAltsAre, Zenon
    <3> HIDE DEF alts
    <3>3. IsSeq(alts) /\ Len(alts) > 0
      BY <3>1, <3>2, SMTT(30) DEF AreAlts
    <3>4. IsSeq(Tail(alts))
      BY <3>3, Tailed, Zenon
    <3>5. QED
      BY <3>4, Zenon DEF alts
  <2> HIDE DEF v, feasible
  <2>3. QED
    BY <1>2, <2>1, <2>2, EmptyIsSeq, Zenon
<1>6. QED
  BY <1>3, <1>4, <1>5, Zenon

LEMMA NullTyped ==
    ASSUME Base, Typed, ctl.at = "exec",
           UNCHANGED <<scenario, fresh, function_ptr_cache, yielded, excluded>>,
           NEW addr, NullDereference(addr)
    PROVE  Typed'
<1>1. PICK alts : IsSeq(alts) /\ SaveBacktrackingPoints(alts)
  <2>1. PICK alts : /\ SaveBacktrackingPoints(alts)
                    /\ alts = <<>> \/ \E alt : alts = <<alt>>
    BY Zenon DEF NullDereference
  <2>2. QED
    BY <2>1, EmptyIsSeq, SingleIsSeq, Zenon
<1>2. UNCHANGED <<stack, varmap, mem, path>> /\ ctl' = InstrErr("NullPointerDereference")
  BY Zenon DEF NullDereference
<1>3. Alive(ctl) /\ ~fresh' /\ config' = config /\ program' = program
  BY ExecAlive, Zenon DEF Base, config, program
<1>4. \A k \in 1..Len(backtrack_points') : TypedPoint(backtrack_points'[k], config.loop_bound)
  BY <1>1, <1>3, SavedTyped, Zenon
<1>5. TypedVars(varmap', ctl', config.loop_bound)
  BY <1>2, EndsPath, EndsTyped, Zenon DEF Typed, TypedVars
<1>6. QED
  BY <1>2, <1>3, <1>4, <1>5, Zenon DEF Typed

LEMMA MemoryTyped ==
    ASSUME Base, Typed, OperandsTyped, Load \/ Store
    PROVE  Typed'
<1>1. /\ ctl.at = "exec" /\ Instr.op \in {"load", "store"}
      /\ UNCHANGED <<scenario, fresh, function_ptr_cache, yielded, excluded>>
  BY Zenon DEF Load, Store, At
<1>2. CASE \E addr : NullDereference(addr)
  BY <1>1, <1>2, NullTyped, Zenon
<1>3. function_ptr_cache' \in [DOMAIN function_ptr_cache' -> Val] /\ Alive(ctl) /\ ctl.at # "idle"
  BY <1>1, ExecAlive, Zenon DEF Typed
<1>4. CASE (\E n, bv : DOMAIN bv = Inputs /\ RecordBVResult(n, bv)) /\ UNCHANGED <<stack, mem, path, backtrack_points>>
  BY <1>1, <1>3, <1>4, RecordTyped, MoveTyped, Zenon
<1>5. ASSUME Instr.op = "store", UNCHANGED <<ctl, stack, varmap, path, backtrack_points>>,
             LET addr == OperandToBV(Instr.args[1])
                 val  == OperandToBV(Instr.args[2])
             IN  mem' = [i \in Inputs |-> [mem[i] EXCEPT ![addr[i]] = val[i]]]
      PROVE  Typed'
  <2> DEFINE addr == OperandToBV(Instr.args[1])
             val  == OperandToBV(Instr.args[2])
  <2>1. HasOperands(Instr)
    BY OperandsFormed, InstrHere, Zenon DEF Base, program
  <2>2. 1 \in 1..Len(Instr.args) /\ 2 \in 1..Len(Instr.args)
    <3>1. Len(Instr.args) = 2
      BY <1>5, <2>1, Zenon DEF HasOperands
    <3>2. QED
      BY <3>1, SMTT(30)
  <2>3. \A i \in Inputs : addr[i] \in Val /\ val[i] \in Val
    BY <1>1, <2>2, Zenon DEF OperandsTyped, IsValue
  <2>4. mem \in Memories
    BY Zenon DEF Typed
  <2>5. mem' = [i \in Inputs |-> [mem[i] EXCEPT ![addr[i]] = val[i]]]
    BY <1>5, Zenon
  <2> HIDE DEF addr, val
  <2>6. mem' \in Memories
    BY <2>3, <2>4, <2>5, Zenon DEF Memories
  <2>7. ~fresh' /\ config' = config /\ program' = program
    BY <1>1, Zenon DEF Base, config, program
  <2>8. QED
    BY <1>1, <1>5, <2>6, <2>7, Zenon DEF Typed
<1>6. QED
  <2>1. CASE Load
    <3>1. \/ \E addr : NullDereference(addr)
          \/ (\E n, bv : DOMAIN bv = Inputs /\ RecordBVResult(n, bv)) /\ UNCHANGED <<stack, mem, path, backtrack_points>>
      BY <2>1, Zenon DEF Load
    <3>2. QED
      BY <1>2, <1>4, <3>1, Zenon
  <2>2. CASE Store
    BY <1>2, <1>5, <2>2, Zenon DEF Store, At
  <2>3. QED
    BY <2>1, <2>2, Zenon

-----------------------------------------------------------------------------
\* The path has one entry more.
LEMMA EntryTyped ==
    ASSUME Base, Typed, NEW loc, IsLoc(program, loc), path' = Append(path, loc)
    PROVE  \A j \in 1..Len(path') : IsLoc(program, path'[j])
<1>1. IsSeq(path) /\ Len(path) \in Nat
  BY SeqShape, Zenon DEF Base
<1>2. /\ Len(path') = Len(path) + 1
      /\ \A k \in 1..Len(path) : path'[k] = path[k]
      /\ path'[Len(path) + 1] = loc
  BY <1>1, Appended, SMTT(30)
<1>3. QED
  BY <1>1, <1>2, SMTT(30) DEF Typed

LEMMA EnterTyped ==
    ASSUME Base, Typed, EnterBlock \/ CatchEnter
    PROVE  Typed'
<1>1. /\ ctl.at \in {"enter", "catch"}
      /\ UNCHANGED <<scenario, stack, varmap, mem, backtrack_points, function_ptr_cache, fresh, yielded, excluded>>
      /\ path' = path \/ path' = Append(path, cur_loc)
  BY Zenon DEF EnterBlock, CatchEnter
<1>2. TypedCtl(ctl')
  <2>1. CASE EnterBlock
    BY <2>1, TypedAnswers, Zenon DEF EnterBlock
  <2>2. CASE CatchEnter
    <3>1. ctl = Catch(ctl.exc) /\ ctl' = [ctl EXCEPT !.at = "pad"]
      BY <2>2, Zenon DEF CatchEnter, Base, Formed
    <3>2. ctl'.at = "pad"
      BY <3>1, Zenon DEF Catch
    <3>3. QED
      BY <3>2, Zenon DEF TypedCtl
  <2>3. QED
    BY <2>1, <2>2, Zenon
<1>3. TypedVars(varmap', ctl', config.loop_bound)
  <2>1. Alive(ctl)
    BY <1>1, ExecAlive, Zenon
  <2>2. QED
    BY <1>1, <1>2, <2>1, GoesOnTyped, BoundPositive, Zenon DEF Typed, TypedVars
<1>4. \A j \in 1..Len(path') : IsLoc(program, path'[j])
  <2>1. CASE path' = path
    BY <2>1, Zenon DEF Typed
  <2>2. CASE path' = Append(path, cur_loc)
    BY <2>2, EntryTyped, Zenon DEF Base
  <2>3. QED
    BY <1>1, <2>1, <2>2, Zenon
<1>5. ~fresh' /\ config' = config /\ program' = program
  BY <1>1, Zenon DEF Base, config, program
<1>6. QED
  BY <1>1, <1>3, <1>4, <1>5, Zenon DEF Typed

LEMMA PadTyped ==
    ASSUME Base, Typed, OperandsTyped, LandingPad
    PROVE  Typed'
<1> DEFINE b == config.loop_bound
           prev == path[Len(path) - 1].bb
<1>1. /\ ctl.at = "pad"
      /\ UNCHANGED <<scenario, stack, mem, path, backtrack_points, function_ptr_cache, fresh, yielded, excluded>>
  BY Zenon DEF LandingPad
<1>2. Alive(ctl) /\ b \in Nat \ {0} /\ TypedVm(varmap, b) /\ TypedVm(varmap, b - 1)
  BY <1>1, ExecAlive, BoundPositive, Zenon DEF Typed, TypedVars
<1>3. \/ Instr.op = "phi" /\ prev \in DOMAIN Instr.incoming
         /\ RecordBVResult(Instr.dest, OperandToBV(Instr.incoming[prev]))
      \/ \E e : UNCHANGED varmap /\ (ctl' = HandleErr(e) \/ ctl' = CatchErr(e))
      \/ \E k, bv : /\ DOMAIN bv = Inputs
                    /\ varmap' = AssignBvToName(varmap, k, bv, b)
                    /\ \/ Fits(varmap, k) /\ ctl' = Enter
                       \/ ctl' = CatchErr("LoopBoundExceeded")
  <2>1. CASE Instr.op = "phi" /\ ChoosePhi(Instr)
    BY <2>1, Zenon DEF ChoosePhi
  <2>2. CASE Instr.op = "landingpad"
    <3> DEFINE k  == Key(Instr.dest)
               bv == [i \in Inputs |-> [ptr |-> ctl.exc.ptr[i], type_index |-> ctl.exc.type_index[i]]]
    <3>1. DOMAIN bv = Inputs
      BY Zenon
    <3>2. Instr.op # "phi"
      BY <2>2, Zenon
    <3>3. /\ varmap' = AssignBvToName(varmap, k, bv, b)
          /\ (Fits(varmap, k) /\ ctl' = Enter) \/ ctl' = CatchErr("LoopBoundExceeded")
      BY <2>2, <3>2, Zenon DEF LandingPad
    <3> HIDE DEF k, bv
    <3>4. QED
      BY <3>1, <3>3, Zenon
  <2>3. CASE UNCHANGED varmap /\ ctl' = CatchErr("MalformedInstruction")
    BY <2>3, Zenon
  <2>4. QED
    BY <2>1, <2>2, <2>3, Zenon DEF LandingPad
<1>4. TypedVars(varmap', ctl', b)
  <2>1. CASE Instr.op = "phi" /\ prev \in DOMAIN Instr.incoming
             /\ RecordBVResult(Instr.dest, OperandToBV(Instr.incoming[prev]))
    <3>1. Defined(Instr.incoming[prev])
      BY <1>1, <2>1, Zenon DEF OperandsTyped
    <3>2. QED
      BY <1>2, <2>1, <3>1, RecordTyped, OperandTyped, Zenon
  <2>2. CASE \E e : UNCHANGED varmap /\ (ctl' = HandleErr(e) \/ ctl' = CatchErr(e))
    BY <1>2, <2>2, EndsPath, EndsTyped, Zenon
  <2>3. ASSUME NEW k, NEW bv, DOMAIN bv = Inputs, varmap' = AssignBvToName(varmap, k, bv, b),
               (Fits(varmap, k) /\ ctl' = Enter) \/ ctl' = CatchErr("LoopBoundExceeded")
        PROVE  TypedVars(varmap', ctl', b)
    <3>1. TypedVm(varmap', b) /\ (Fits(varmap, k) => TypedVm(varmap', b - 1))
      BY <1>2, <2>3, AssignTyped, Zenon DEF Fits
    <3>2. b \in Nat
      BY <1>2, Zenon
    <3>3. QED
      BY <2>3, <3>1, <3>2, EndsPath, EndsTyped, GoesOnTyped, TypedAnswers, Zenon
  <2>4. QED
    BY <1>3, <2>1, <2>2, <2>3, Zenon
<1>5. function_ptr_cache' \in [DOMAIN function_ptr_cache' -> Val] /\ ctl.at # "idle"
  BY <1>1, Zenon DEF Typed
<1>6. QED
  BY <1>1, <1>4, <1>5, MoveTyped, Zenon

\* A result comes back: to a caller that fails, or to one whose callsite is gone.
LEMMA CalleeEndsTyped ==
    ASSUME Base, Typed, CalleeFails \/ CalleeFinishedElsewhere \/ UnexpectedCallsite \/ FromCurLocEnds
    PROVE  Typed'
<1> DEFINE b == config.loop_bound
<1>1. /\ ctl.at = "return"
      /\ UNCHANGED <<scenario, stack, varmap, mem, path, backtrack_points, function_ptr_cache, fresh, yielded, excluded>>
  BY Zenon DEF CalleeFails, CalleeFinishedElsewhere, UnexpectedCallsite, FromCurLocEnds, ReturnsTo, state
<1>2. \/ Ends(ctl')
      \/ ctl' = ctl
      \/ ctl.res.tag = "Throw" /\ ctl' = Unwind(ctl.res.bv)
  BY EndsPath, Zenon DEF CalleeFails, CalleeFinishedElsewhere, UnexpectedCallsite, FromCurLocEnds
<1>3. TypedVars(varmap, ctl, b) /\ b \in Nat
  BY BoundPositive, Zenon DEF Typed
<1>4. TypedVars(varmap', ctl', b)
  <2>1. CASE Ends(ctl')
    <3>1. TypedVm(varmap', b)
      BY <1>1, <1>3, Zenon DEF TypedVars
    <3>2. QED
      BY <2>1, <3>1, EndsTyped, Zenon
  <2>2. CASE ctl' = ctl
    BY <1>1, <1>3, <2>2, Zenon
  <2>3. CASE ctl.res.tag = "Throw" /\ ctl' = Unwind(ctl.res.bv)
    <3>1. Alive(ctl) /\ DOMAIN ctl.res.bv = Inputs
      BY <1>1, <1>3, <2>3, Zenon DEF Alive, TypedVars, TypedCtl
    <3>2. TypedVm(varmap, b - 1)
      BY <1>3, <3>1, Zenon DEF TypedVars
    <3>3. TypedCtl(ctl')
      BY <2>3, <3>1, TypedAnswers, Zenon
    <3>4. QED
      BY <1>1, <1>3, <3>2, <3>3, GoesOnTyped, Zenon
  <2>4. QED
    BY <1>2, <2>1, <2>2, <2>3, Zenon
<1>5. function_ptr_cache' \in [DOMAIN function_ptr_cache' -> Val] /\ ctl.at # "idle"
  BY <1>1, Zenon DEF Typed
<1>6. QED
  BY <1>1, <1>4, <1>5, MoveTyped, Zenon

\* What `pop_callsite` restores, and what it leaves.
LEMMA PoppedTyped ==
    ASSUME Base, Typed, stack # <<>>
    PROVE  /\ Alive(ctl) => TypedVm(RestoredVarmap, config.loop_bound - 1)
           /\ PopCallsite => TypedStack(stack')
<1>1. IsSeq(stack) /\ Len(stack) \in Nat /\ Len(stack) > 0
  BY Popped, Zenon DEF Base, IsStack
<1>2. TypedInfo(Callsite.restore_info)
  <2>1. Len(stack) \in 1..Len(stack)
    BY <1>1, SMTT(30)
  <2>2. QED
    BY <2>1, Zenon DEF Callsite, Typed, TypedStack
<1>3. Alive(ctl) => TypedVm(RestoredVarmap, config.loop_bound - 1)
  BY <1>2, RestoreTyped, Zenon DEF RestoredVarmap, Typed, TypedVars
<1>4. ASSUME PopCallsite PROVE TypedStack(stack')
  <2>1. /\ Len(stack') = Len(stack) - 1
        /\ \A k \in 1..(Len(stack) - 1) : stack'[k] = stack[k]
    BY <1>1, <1>4, Popped, Zenon DEF PopCallsite
  <2>2. QED
    BY <1>1, <2>1, SMTT(30) DEF Typed, TypedStack
<1>5. QED
  BY <1>3, <1>4, Zenon

\* A step that pops a callsite.
LEMMA PopStepTyped ==
    ASSUME Base, Typed, ctl.at # "idle", stack # <<>>, PopCallsite,
           UNCHANGED <<scenario, mem, backtrack_points, function_ptr_cache, fresh, yielded, excluded>>,
           \A j \in 1..Len(path') : IsLoc(program, path'[j]),
           TypedVars(varmap', ctl', config.loop_bound)
    PROVE  Typed'
<1>1. ~fresh' /\ config' = config /\ program' = program /\ TypedStack(stack')
  BY PoppedTyped, Zenon DEF Base, config, program
<1>2. QED
  BY <1>1, Zenon DEF Typed

LEMMA CallReturnsTyped ==
    ASSUME Base, Typed, CallReturns
    PROVE  Typed'
<1> DEFINE b == config.loop_bound
           k == <<Inc(Frame.loc).func, InstrAt(Frame.loc).dest>>
<1>1. /\ ctl.at = "return" /\ ctl.res.tag \notin {"Err", "None"}
      /\ native # <<>> /\ stack # <<>> /\ Frame.kind = "call" /\ PopCallsite
      /\ path' = Append(path, Inc(Frame.loc))
      /\ UNCHANGED <<scenario, mem, backtrack_points, function_ptr_cache, fresh, yielded, excluded>>
  BY Zenon DEF CallReturns, ReturnsTo
<1>2. Alive(ctl) /\ b \in Nat \ {0} /\ TypedCtl(ctl) /\ TypedVm(RestoredVarmap, b - 1)
  BY <1>1, PoppedTyped, BoundPositive, Zenon DEF Alive, Typed, TypedVars
<1>3. \/ /\ ctl.res.tag = "Return"
         /\ varmap' = AssignBvToName(RestoredVarmap, k, ctl.res.bv, b)
         /\ ctl' = IF Fits(RestoredVarmap, k) THEN Exec ELSE InstrErr("LoopBoundExceeded")
      \/ varmap' = RestoredVarmap /\ (ctl' = Exec \/ ctl' = ctl)
  BY Zenon DEF CallReturns
<1>4. TypedVars(varmap', ctl', b)
  <2>1. CASE /\ ctl.res.tag = "Return"
             /\ varmap' = AssignBvToName(RestoredVarmap, k, ctl.res.bv, b)
             /\ ctl' = IF Fits(RestoredVarmap, k) THEN Exec ELSE InstrErr("LoopBoundExceeded")
    <3>1. DOMAIN ctl.res.bv = Inputs
      BY <1>1, <1>2, <2>1, Zenon DEF TypedCtl
    <3>2. TypedVm(varmap', b) /\ (Fits(RestoredVarmap, k) => TypedVm(varmap', b - 1))
      BY <1>2, <2>1, <3>1, AssignTyped, Zenon DEF Fits
    <3>3. b \in Nat
      BY <1>2, Zenon
    <3>4. QED
      BY <2>1, <3>2, <3>3, EndsPath, EndsTyped, GoesOnTyped, TypedAnswers, Zenon
  <2>2. CASE varmap' = RestoredVarmap /\ (ctl' = Exec \/ ctl' = ctl)
    BY <1>2, <2>2, GoesOnTyped, TypedAnswers, Zenon
  <2>3. QED
    BY <1>3, <2>1, <2>2, Zenon
<1>5. scenario \in Scenarios /\ IsLoc(program, Frame.loc) /\ InstrIn(program, Frame.loc).op = "call"
  BY <1>1, FramePopped, Zenon DEF Base, IsFrame
<1>6. IsLoc(program, Inc(Frame.loc))
  BY <1>5, NextInstr, Zenon DEF program
<1>7. \A j \in 1..Len(path') : IsLoc(program, path'[j])
  BY <1>1, <1>6, EntryTyped, Zenon
<1>8. ctl.at # "idle"
  BY <1>1, Zenon
<1>9. QED
  BY <1>1, <1>4, <1>7, <1>8, PopStepTyped, Zenon

LEMMA ReturnsTyped ==
    ASSUME Base, Typed, InvokeReturns \/ FromCurLocReturns
    PROVE  Typed'
<1> DEFINE b == config.loop_bound
<1>1. /\ ctl.at = "return" /\ ctl.res.tag \notin {"Err", "None"}
      /\ stack # <<>> /\ PopCallsite
      /\ UNCHANGED <<scenario, mem, path, backtrack_points, function_ptr_cache, fresh, yielded, excluded>>
  <2>1. CASE InvokeReturns
    BY <2>1, Zenon DEF InvokeReturns, ReturnsTo
  <2>2. CASE FromCurLocReturns
    <3>1. ctl.res.tag \in {"Return", "ReturnVoid"}
      BY <2>2, Zenon DEF FromCurLocReturns
    <3>2. ctl.res.tag \notin {"Err", "None"}
      BY <3>1, Zenon
    <3>3. QED
      BY <2>2, <3>2, Zenon DEF FromCurLocReturns, ReturnsTo
  <2>3. QED
    BY <2>1, <2>2, Zenon
<1>2. Alive(ctl) /\ b \in Nat \ {0} /\ TypedCtl(ctl) /\ TypedVm(RestoredVarmap, b - 1)
  BY <1>1, PoppedTyped, BoundPositive, Zenon DEF Alive, Typed, TypedVars
<1>3. ctl.res.tag = "Return" => DOMAIN ctl.res.bv = Inputs
  BY <1>1, <1>2, Zenon DEF TypedCtl
<1>4. b \in Nat
  BY <1>2, Zenon
<1>5. TypedVars(varmap', ctl', b)
  <2>1. CASE InvokeReturns
    <3>1. \/ ctl.res.tag = "Return" /\ \E ins, loc : AssignCallResult(ins, loc, RestoredVarmap, ctl.res.bv, FALSE)
          \/ \E ins, loc : ContinueAfter(ins, loc, RestoredVarmap, FALSE)
          \/ \E loc, bb : CatchAtExceptionLabel(RestoredVarmap, ctl.res.bv, loc, bb)
          \/ varmap' = RestoredVarmap /\ ctl' = ctl
      BY <2>1, Zenon DEF InvokeReturns
    <3>2. CASE ctl.res.tag = "Return" /\ \E ins, loc : AssignCallResult(ins, loc, RestoredVarmap, ctl.res.bv, FALSE)
      BY <1>2, <1>3, <3>2, ResultTyped, Zenon
    <3>3. CASE \E ins, loc : ContinueAfter(ins, loc, RestoredVarmap, FALSE)
      BY <1>2, <3>3, ContinueTyped, Zenon
    <3>4. CASE \E loc, bb : CatchAtExceptionLabel(RestoredVarmap, ctl.res.bv, loc, bb)
      BY <1>2, <3>4, CatchTyped, Zenon
    <3>5. CASE varmap' = RestoredVarmap /\ ctl' = ctl
      BY <1>2, <1>4, <3>5, GoesOnTyped, Zenon
    <3>6. QED
      BY <3>1, <3>2, <3>3, <3>4, <3>5, Zenon
  <2>2. CASE FromCurLocReturns
    <3> DEFINE k == <<Callsite.loc.func, Callsite.instr.dest>>
    <3>1. \/ varmap' = RestoredVarmap /\ ctl' = Enter
          \/ /\ ctl.res.tag = "Return"
             /\ varmap' = AssignBvToName(RestoredVarmap, k, ctl.res.bv, b)
             /\ ctl' = IF Fits(RestoredVarmap, k) THEN Enter ELSE Backtracking("dead")
      BY <2>2, Zenon DEF FromCurLocReturns
    <3>2. CASE varmap' = RestoredVarmap /\ ctl' = Enter
      BY <1>2, <1>4, <3>2, GoesOnTyped, TypedAnswers, Zenon
    <3>3. CASE /\ ctl.res.tag = "Return"
               /\ varmap' = AssignBvToName(RestoredVarmap, k, ctl.res.bv, b)
               /\ ctl' = IF Fits(RestoredVarmap, k) THEN Enter ELSE Backtracking("dead")
      <4>1. TypedVm(varmap', b) /\ (Fits(RestoredVarmap, k) => TypedVm(varmap', b - 1))
        BY <1>2, <1>3, <3>3, AssignTyped, Zenon DEF Fits
      <4>2. QED
        BY <1>4, <3>3, <4>1, EndsPath, EndsTyped, GoesOnTyped, TypedAnswers, Zenon
    <3>4. QED
      BY <3>1, <3>2, <3>3, Zenon
  <2>3. QED
    BY <2>1, <2>2, Zenon
<1>6. ctl.at # "idle" /\ \A j \in 1..Len(path') : IsLoc(program, path'[j])
  BY <1>1, Zenon DEF Typed
<1>7. QED
  BY <1>1, <1>5, <1>6, PopStepTyped, Zenon

LEMMA UnwindTyped ==
    ASSUME Base, Typed, UnwindCallsite
    PROVE  Typed'
<1> DEFINE b == config.loop_bound
<1>1. /\ ctl.at = "unwind"
      /\ UNCHANGED <<scenario, mem, path, backtrack_points, function_ptr_cache, fresh, yielded, excluded>>
  BY Zenon DEF UnwindCallsite
<1>2. Alive(ctl) /\ b \in Nat /\ TypedCtl(ctl) /\ TypedVm(varmap, b - 1) /\ DOMAIN ctl.ptr = Inputs
  BY <1>1, ExecAlive, BoundPositive, Zenon DEF Typed, TypedVars, TypedCtl
<1>3. ctl.at # "idle" /\ \A j \in 1..Len(path') : IsLoc(program, path'[j])
  BY <1>1, Zenon DEF Typed
<1>4. CASE ctl' = Returning(Throw(ctl.ptr)) /\ UNCHANGED <<stack, varmap>>
  <2>1. TypedVars(varmap', ctl', b)
    BY <1>2, <1>4, TypedAnswers, GoesOnTyped, Zenon
  <2>2. function_ptr_cache' \in [DOMAIN function_ptr_cache' -> Val]
    BY <1>1, Zenon DEF Typed
  <2>3. QED
    BY <1>1, <1>3, <1>4, <2>1, <2>2, MoveTyped, Zenon
<1>5. ASSUME stack # <<>>, PopCallsite,
             \/ varmap' = RestoredVarmap /\ ctl' = ctl
             \/ \E loc, bb : CatchAtExceptionLabel(RestoredVarmap, ctl.ptr, loc, bb)
      PROVE  Typed'
  <2>1. TypedVm(RestoredVarmap, b - 1)
    BY <1>2, <1>5, PoppedTyped, Zenon
  <2>2. TypedVars(varmap', ctl', b)
    BY <1>2, <1>5, <2>1, CatchTyped, GoesOnTyped, Zenon
  <2>3. QED
    BY <1>1, <1>3, <1>5, <2>2, PopStepTyped, Zenon
<1>6. QED
  BY <1>4, <1>5, Zenon DEF UnwindCallsite

LEMMA CalledTyped ==
    ASSUME Base, Typed, NextCalled \/ NextReturns \/ BacktrackFails \/ UNCHANGED vars
    PROVE  Typed'
<1> DEFINE b == config.loop_bound
<1>1. UNCHANGED <<scenario, stack, varmap, mem, path, backtrack_points, function_ptr_cache, excluded>>
  BY Zenon DEF NextCalled, NextReturns, BacktrackFails, vars, state
<1>2. b \in Nat /\ TypedVm(varmap, b) /\ config' = config /\ program' = program
  BY <1>1, BoundPositive, Zenon DEF Typed, TypedVars, config, program
<1>3. /\ TypedVars(varmap', ctl', b)
      /\ fresh' => TypedVm(varmap', b - 1)
      /\ yielded' \subseteq Inputs
  <2>1. CASE NextCalled
    <3>1. ~fresh' /\ yielded' = yielded
      BY <2>1, Zenon DEF NextCalled
    <3>2. \/ fresh /\ ctl' = Enter
          \/ \E why : ctl' = Backtracking(why)
      BY <2>1, Zenon DEF NextCalled
    <3>3. fresh => TypedVm(varmap, b - 1)
      BY Zenon DEF Typed
    <3>4. TypedVars(varmap, ctl', b)
      BY <1>2, <3>2, <3>3, EndsPath, EndsTyped, GoesOnTyped, TypedAnswers, Zenon
    <3>5. QED
      BY <1>1, <3>1, <3>4, Zenon DEF Typed
  <2>2. CASE NextReturns
    <3>1. ctl' = Idle(ctl.res) /\ fresh' = fresh /\ ctl.at = "return" /\ yielded' \subseteq yielded \cup Top(solver)
      BY <2>2, Zenon DEF NextReturns
    <3>2. Ends(ctl') /\ ~fresh'
      BY <3>1, Zenon DEF Ends, Alive, TypedCtl, Idle, Base
    <3>3. QED
      BY <1>1, <1>2, <3>1, <3>2, TopInputs, EndsTyped, Zenon DEF Typed
  <2>3. CASE BacktrackFails
    <3>1. ctl.at = "backtrack" /\ ctl' = Returning(NoPath) /\ UNCHANGED <<fresh, yielded>>
      BY <2>3, Zenon DEF BacktrackFails
    <3>2. ~fresh' /\ Ends(ctl')
      BY <3>1, EndsPath, Zenon DEF Base
    <3>3. QED
      BY <1>1, <1>2, <3>1, <3>2, EndsTyped, Zenon DEF Typed
  <2>4. CASE UNCHANGED vars
    BY <2>4, Zenon DEF vars, state, Typed
  <2>5. QED
    BY <2>1, <2>2, <2>3, <2>4, Zenon
<1>4. QED
  BY <1>1, <1>2, <1>3, Zenon DEF Typed

\* The state that a backtracking point restores is typed as it was saved.
LEMMA BacktrackTyped ==
    ASSUME Base, Typed, Backtrack
    PROVE  Typed'
<1> DEFINE n  == Len(backtrack_points)
           bp == backtrack_points[n]
           b  == config.loop_bound
<1>1. /\ ctl.at = "backtrack" /\ ctl' = Enter
      /\ UNCHANGED <<scenario, function_ptr_cache, fresh, yielded, excluded>>
      /\ stack' = bp.stack /\ varmap' = bp.varmap /\ mem' = bp.mem
  BY Zenon DEF Backtrack, RevertTo
<1>2. /\ n \in Nat /\ n > 0
      /\ IsPoint(program, Len(path), bp)
      /\ Len(backtrack_points') = n - 1
      /\ \A k \in 1..Len(backtrack_points') : backtrack_points'[k] = backtrack_points[k]
      /\ Len(path') = bp.path_len
      /\ \A j \in 1..Len(path') : path'[j] = path[j]
  BY Reverted, Zenon
<1>3. Len(path) \in Nat /\ bp.path_len \in 0..Len(path)
  BY <1>2, SeqShape, Zenon DEF Base, IsPoint
<1>4. \A k \in 1..n : TypedPoint(backtrack_points[k], b)
  BY Zenon DEF Typed
<1> HIDE DEF bp
<1>5. \A j \in 1..Len(path') : IsLoc(program, path'[j])
  <2>1. \A j \in 1..Len(path') : j \in 1..Len(path)
    BY <1>2, <1>3, SMTT(30)
  <2>2. QED
    BY <1>2, <2>1, Zenon DEF Typed
<1>6. \A k \in 1..Len(backtrack_points') : TypedPoint(backtrack_points'[k], b)
  BY <1>2, <1>4, SMTT(30)
<1>7. TypedPoint(bp, b)
  <2>1. n \in 1..n
    BY <1>2, SMTT(30)
  <2>2. QED
    BY <1>4, <2>1, Zenon DEF bp
<1>8. TypedVars(varmap', ctl', b) /\ mem' \in Memories /\ TypedStack(stack')
  BY <1>1, <1>7, BoundPositive, TypedAnswers, GoesOnTyped, Zenon DEF TypedPoint
<1>9. ~fresh' /\ config' = config /\ program' = program
  BY <1>1, Zenon DEF Base, config, program
<1>10. QED
  BY <1>1, <1>5, <1>6, <1>8, <1>9, Zenon DEF Typed

-----------------------------------------------------------------------------
(* The arguments of a call, by induction on their number.                    *)

\* Induction, for a property that is given as the set of numbers that have it.
Induction == \A T : 0 \in T /\ (\A n \in Nat : n \in T => n + 1 \in T) => Nat \subseteq T

\* The arguments are assigned one after the other.
LEMMA BoundInTurn ==
    ASSUME Induction, NEW vm, NEW f, NEW bvs, Len(bvs) \in Nat
    PROVE  LET B == Bound(vm, f, bvs)
           IN  /\ B[0] = vm
               /\ \A j \in 1..Len(bvs) :
                     B[j] = AssignBvToName(B[j-1], <<f, program[f].params[j]>>, bvs[j], config.loop_bound)
<1> DEFINE A(w, j) == AssignBvToName(w, <<f, program[f].params[j]>>, bvs[j], config.loop_bound)
           Is(g, n) == g = [j \in 0..n |-> IF j = 0 THEN vm ELSE A(g[j-1], j)]
           T == {n \in Nat : \E g : Is(g, n)}
<1> HIDE DEF A
<1>1. 0 \in T
  <2>1. Is([j \in 0..0 |-> vm], 0)
    BY SMTT(30)
  <2> HIDE DEF Is
  <2>2. QED
    BY <2>1, Zenon
<1>2. ASSUME NEW n \in Nat, n \in T PROVE n + 1 \in T
  <2>1. PICK g : Is(g, n)
    BY <1>2, Zenon
  <2> DEFINE h == [j \in 0..(n+1) |-> IF j <= n THEN g[j] ELSE A(g[n], j)]
  <2>2. \A j \in 0..n : g[j] = IF j = 0 THEN vm ELSE A(g[j-1], j)
    BY <2>1, Zenon
  <2>3. \A j \in 0..(n+1) : h[j] = IF j = 0 THEN vm ELSE A(h[j-1], j)
    <3> TAKE j \in 0..(n+1)
    <3>1. CASE j = 0
      BY <2>2, <3>1, SMTT(30)
    <3>2. CASE j \in 1..n
      <4>1. j - 1 \in 0..(n+1) /\ j - 1 <= n /\ j \in 0..n /\ j # 0
        BY <3>2, SMTT(30)
      <4>2. h[j] = g[j] /\ h[j-1] = g[j-1]
        BY <4>1, SMTT(30)
      <4>3. QED
        BY <2>2, <4>1, <4>2, Zenon
    <3>3. CASE j = n + 1
      <4>1. j - 1 = n /\ n \in 0..(n+1) /\ n <= n /\ ~(j <= n) /\ j # 0
        BY <3>3, SMTT(30)
      <4>2. h[j] = A(g[n], j) /\ h[n] = g[n]
        BY <4>1, Zenon
      <4>3. QED
        BY <4>1, <4>2, Zenon
    <3>4. QED
      BY <3>1, <3>2, <3>3, SMTT(30)
  <2>4. h = [j \in 0..(n+1) |-> h[j]]
    BY Zenon
  <2> HIDE DEF h
  <2>5. Is(h, n + 1)
    BY <2>3, <2>4, Zenon
  <2>6. QED
    BY <2>5, SMTT(30)
<1>3. Nat \subseteq T
  <2> HIDE DEF T
  <2>1. QED
    BY <1>1, <1>2, Zenon DEF Induction
<1>4. PICK g : Is(g, Len(bvs))
  BY <1>3, Zenon
<1> DEFINE B == Bound(vm, f, bvs)
<1>5. Is(B, Len(bvs))
  <2>1. B = CHOOSE x : Is(x, Len(bvs))
    BY Zenon DEF Bound, A
  <2> HIDE DEF B, Is
  <2>2. QED
    BY <1>4, <2>1, Zenon
<1> HIDE DEF B
<1>6. B[0] = vm /\ \A j \in 1..Len(bvs) : B[j] = A(B[j-1], j)
  <2>1. \A j \in 0..Len(bvs) : B[j] = IF j = 0 THEN vm ELSE A(B[j-1], j)
    BY <1>5, Zenon
  <2>2. QED
    BY <2>1, SMTT(30)
<1>7. QED
  BY <1>6, Zenon DEF A, B

\* After the arguments before j have fitted, the j-th may be the one that does not.
LEMMA BoundTyped ==
    ASSUME Induction, Base, NEW vm, TypedVm(vm, config.loop_bound - 1), NEW f, NEW bvs, Len(bvs) \in Nat,
           \A j \in 1..Len(bvs) : DOMAIN bvs[j] = Inputs,
           NEW n \in 0..Len(bvs),
           \A j \in 1..(n-1) : Fits(Bound(vm, f, bvs)[j-1], <<f, program[f].params[j]>>)
    PROVE  /\ TypedVm(Bound(vm, f, bvs)[n], config.loop_bound)
           /\ n > 0 => (Fits(Bound(vm, f, bvs)[n-1], <<f, program[f].params[n]>>) =>
                           TypedVm(Bound(vm, f, bvs)[n], config.loop_bound - 1))
           /\ n = 0 => TypedVm(Bound(vm, f, bvs)[n], config.loop_bound - 1)
<1> DEFINE B == Bound(vm, f, bvs)
           b == config.loop_bound
           K(j) == <<f, program[f].params[j]>>
           T == {j \in Nat : j < n \/ j = 0 => TypedVm(B[j], b - 1)}
<1>1. b \in Nat \ {0}
  BY BoundPositive, Zenon
<1>2. B[0] = vm /\ \A j \in 1..Len(bvs) : B[j] = AssignBvToName(B[j-1], K(j), bvs[j], b)
  BY BoundInTurn, SMTT(30)
<1>3. \A j \in 1..(n-1) : Fits(B[j-1], K(j))
  BY Zenon
<1> HIDE DEF B, b, K
<1>4. \A j \in 1..Len(bvs) : TypedVm(B[j-1], b - 1) =>
         TypedVm(B[j], b) /\ (Fits(B[j-1], K(j)) => TypedVm(B[j], b - 1))
  BY <1>1, <1>2, AssignTyped, Zenon DEF Fits, b
<1>5. 0 \in T
  BY <1>2, Zenon DEF b
<1>6. ASSUME NEW j \in Nat, j \in T PROVE j + 1 \in T
  <2>1. SUFFICES ASSUME j + 1 < n PROVE TypedVm(B[j+1], b - 1)
    BY SMTT(30)
  <2>2. j + 1 \in 1..Len(bvs) /\ j + 1 \in 1..(n-1) /\ (j + 1) - 1 = j /\ j < n
    BY <2>1, SMTT(30)
  <2>3. TypedVm(B[j], b - 1)
    BY <1>6, <2>2, Zenon
  <2>4. Fits(B[j], K(j+1))
    BY <1>3, <2>2, Zenon
  <2>5. QED
    BY <1>4, <2>2, <2>3, <2>4, Zenon
<1>7. Nat \subseteq T
  <2> HIDE DEF T
  <2>1. QED
    BY <1>5, <1>6, Zenon DEF Induction
<1>8. n = 0 => TypedVm(B[n], b - 1) /\ TypedVm(B[n], b)
  BY <1>1, <1>2, VmWeaker, Zenon DEF b
<1>9. n > 0 => TypedVm(B[n], b) /\ (Fits(B[n-1], K(n)) => TypedVm(B[n], b - 1))
  <2>1. SUFFICES ASSUME n > 0 PROVE TypedVm(B[n], b) /\ (Fits(B[n-1], K(n)) => TypedVm(B[n], b - 1))
    BY Zenon
  <2>2. n - 1 \in Nat /\ n - 1 < n /\ n \in 1..Len(bvs)
    BY <2>1, SMTT(30)
  <2>3. TypedVm(B[n-1], b - 1)
    BY <1>7, <2>2, Zenon
  <2>4. QED
    BY <1>4, <2>2, <2>3, Zenon
<1>10. n = 0 \/ n > 0
  BY SMTT(30)
<1>11. QED
  BY <1>8, <1>9, <1>10, Zenon DEF B, b, K

\* The variables that a callsite saves are bitvectors.
LEMMA EnteredTyped ==
    ASSUME Induction, Base, Typed, OperandsTyped, CallEntered
    PROVE  Typed'
<1> DEFINE b    == config.loop_bound
           f    == Callee(Instr)
           bvs  == ArgsToBVs(Instr)
           info == RestoreInfoFor(varmap, cur_loc.func)
           cs   == [loc |-> cur_loc, instr |-> Instr, restore_info |-> info]
           B    == Bound(varmap, f, bvs)
           Bad(j) == ~Fits(B[j-1], <<f, program[f].params[j]>>)
<1>1. /\ ctl.at = "exec" /\ Instr.op \in {"call", "invoke"}
      /\ CacheFunctionPtr(Instr.callee)
      /\ stack' = Append(stack, cs)
      /\ UNCHANGED <<scenario, mem, path, backtrack_points, fresh, yielded, excluded>>
  BY Zenon DEF CallEntered, AtCall, At
<1>2. \/ (\A j \in 1..Len(bvs) : ~Bad(j)) /\ varmap' = B[Len(bvs)] /\ ctl' = Enter
      \/ \E j \in 1..Len(bvs) :
            /\ \A l \in 1..(j-1) : ~Bad(l)
            /\ varmap' = B[j] /\ ctl' = CallErr(Instr, "LoopBoundExceeded")
  BY Zenon DEF CallEntered
<1>3. b \in Nat \ {0} /\ TypedVm(varmap, b) /\ TypedVm(varmap, b - 1)
  BY <1>1, ExecAlive, BoundPositive, Zenon DEF Typed, TypedVars
<1>4. Len(Instr.args) \in Nat
  BY OperandsFormed, InstrHere, Zenon DEF Base, program, HasOperands
<1>5. Len(bvs) = Len(Instr.args) /\ \A j \in 1..Len(Instr.args) : bvs[j] = OperandToBV(Instr.args[j])
  BY <1>4, FcnIsSeq, Zenon DEF ArgsToBVs
<1>6. Len(bvs) \in Nat /\ \A j \in 1..Len(bvs) : DOMAIN bvs[j] = Inputs
  <2>1. \A j \in 1..Len(Instr.args) : DOMAIN OperandToBV(Instr.args[j]) = Inputs
    BY <1>1, OperandTyped, Zenon DEF OperandsTyped
  <2> HIDE DEF bvs
  <2>2. QED
    BY <1>4, <1>5, <2>1, Zenon
<1>7. ASSUME NEW n \in 0..Len(bvs), \A j \in 1..(n-1) : ~Bad(j)
      PROVE  /\ TypedVm(B[n], b)
             /\ n = 0 \/ ~Bad(n) => TypedVm(B[n], b - 1)
  <2>1. \A j \in 1..(n-1) : Fits(Bound(varmap, f, bvs)[j-1], <<f, program[f].params[j]>>)
    BY <1>7, Zenon
  <2>2. n = 0 \/ n > 0
    BY SMTT(30)
  <2> HIDE DEF f, bvs
  <2>3. /\ TypedVm(Bound(varmap, f, bvs)[n], config.loop_bound)
        /\ n > 0 => (Fits(Bound(varmap, f, bvs)[n-1], <<f, program[f].params[n]>>) =>
                        TypedVm(Bound(varmap, f, bvs)[n], config.loop_bound - 1))
        /\ n = 0 => TypedVm(Bound(varmap, f, bvs)[n], config.loop_bound - 1)
    BY <1>3, <1>6, <2>1, BoundTyped, Zenon
  <2>4. QED
    BY <2>2, <2>3, Zenon
<1> HIDE DEF bvs, B, Bad
<1>8. TypedVars(varmap', ctl', b)
  <2>1. CASE (\A j \in 1..Len(bvs) : ~Bad(j)) /\ varmap' = B[Len(bvs)] /\ ctl' = Enter
    <3>1. /\ Len(bvs) \in 0..Len(bvs) /\ \A j \in 1..(Len(bvs)-1) : ~Bad(j)
          /\ Len(bvs) = 0 \/ ~Bad(Len(bvs))
      BY <1>6, <2>1, SMTT(30)
    <3>2. TypedVm(B[Len(bvs)], b - 1)
      BY <1>7, <3>1, Zenon
    <3>3. QED
      BY <1>3, <2>1, <3>2, GoesOnTyped, TypedAnswers, Zenon
  <2>2. ASSUME NEW j \in 1..Len(bvs), \A l \in 1..(j-1) : ~Bad(l),
               varmap' = B[j], ctl' = CallErr(Instr, "LoopBoundExceeded")
        PROVE  TypedVars(varmap', ctl', b)
    <3>1. j \in 0..Len(bvs)
      BY <1>6, SMTT(30)
    <3>2. TypedVm(varmap', b) /\ Ends(ctl')
      BY <1>7, <2>2, <3>1, EndsPath, Zenon
    <3>3. QED
      BY <3>2, EndsTyped, Zenon
  <2>3. QED
    BY <1>2, <2>1, <2>2, Zenon
<1>9. TypedStack(stack')
  <2>1. cs.restore_info = info /\ TypedInfo(info)
    BY <1>3, SavedInfoTyped, Zenon
  <2>2. IsSeq(stack) /\ Len(stack) \in Nat
    BY SeqShape, Zenon DEF Base, IsStack
  <2> HIDE DEF cs
  <2>3. /\ Len(stack') = Len(stack) + 1
        /\ \A k \in 1..Len(stack) : stack'[k] = stack[k]
        /\ stack'[Len(stack) + 1] = cs
    <3>1. /\ Len(Append(stack, cs)) = Len(stack) + 1
          /\ \A k \in 1..Len(stack) : Append(stack, cs)[k] = stack[k]
          /\ Append(stack, cs)[Len(stack) + 1] = cs
      BY <2>2, Appended, SMTT(30)
    <3>2. stack' = Append(stack, cs)
      BY <1>1, Zenon
    <3>3. QED
      BY <3>1, <3>2, Zenon
  <2>4. QED
    BY <2>1, <2>2, <2>3, SMTT(30) DEF Typed, TypedStack
<1>10. function_ptr_cache' \in [DOMAIN function_ptr_cache' -> Val]
  <2>1. Instr.callee.kind # "fn" => IsValue(Instr.callee)
    BY <1>1, Zenon DEF OperandsTyped
  <2>2. QED
    BY <1>1, <2>1, CacheTyped, Zenon
<1>11. ~fresh' /\ config' = config /\ program' = program
  BY <1>1, Zenon DEF Base, config, program
<1>12. QED
  BY <1>1, <1>8, <1>9, <1>10, <1>11, Zenon DEF Typed

LEMMA TypedStep ==
    ASSUME Induction, Base, Typed, OperandsTyped, HookTyped, [Next]_vars
    PROVE  Typed'
BY StraightTyped, HookedTyped, MemoryTyped, BranchTyped, EnterTyped, PadTyped, EnteredTyped, CalleeEndsTyped,
   CallReturnsTyped, ReturnsTyped, UnwindTyped, CalledTyped, BacktrackTyped, Zenon DEF Next, Step, Panicked

LEMMA TypedInit ==
    ASSUME Init
    PROVE  Typed
<1> DEFINE ps   == program[scenario.start].params
           keys == {<<scenario.start, ps[j]>> : j \in 1..Len(ps)}
           b    == config.loop_bound
<1>1. /\ stack = <<>> /\ path = <<>> /\ backtrack_points = <<>> /\ function_ptr_cache = <<>>
      /\ yielded = {} /\ excluded = {} /\ ctl = Idle(NoPath)
  BY Zenon DEF Init
<1>2. b \in Nat \ {0}
  BY BaseInit, BoundPositive, Zenon
<1>3. varmap = [active |-> [k \in keys |-> Unconstrained(k, 0)], version |-> [k \in keys |-> 0]]
  BY Zenon DEF Init
<1> HIDE DEF keys
<1>4. TypedVm(varmap, b - 1)
  BY <1>2, <1>3, UnconstrainedTyped, SMTT(30) DEF TypedVm
<1>5. TypedVars(varmap, ctl, b)
  <2>1. TypedCtl(ctl)
    BY <1>1, Zenon DEF TypedCtl, Idle
  <2>2. QED
    BY <1>2, <1>4, <2>1, GoesOnTyped, Zenon
<1>6. mem \in Memories
  <2>1. 0 \in Val
    BY ValuesAssumption, SMTT(30) DEF Val
  <2>2. \A i \in Inputs : \A s \in Sym : i[s] \in Val
    BY Zenon DEF Inputs
  <2>3. mem = [i \in Inputs |-> [a \in Val |-> IF <<"mem", a>> \in Sym THEN i[<<"mem", a>>] ELSE 0]]
    BY Zenon DEF Init
  <2>4. QED
    BY <2>1, <2>2, <2>3, Zenon DEF Memories
<1>7. /\ TypedStack(stack)
      /\ \A j \in 1..Len(path) : IsLoc(program, path[j])
      /\ \A k \in 1..Len(backtrack_points) : TypedPoint(backtrack_points[k], b)
  <2>1. Len(stack) = 0 /\ Len(path) = 0 /\ Len(backtrack_points) = 0
    BY <1>1, EmptyIsSeq, Zenon
  <2>2. \A j : ~(j \in 1..0)
    BY SMTT(30)
  <2>3. QED
    BY <2>1, <2>2, Zenon DEF TypedStack
<1>8. function_ptr_cache \in [DOMAIN function_ptr_cache -> Val]
  BY <1>1, SMTT(30)
<1>9. QED
  BY <1>1, <1>4, <1>5, <1>6, <1>7, <1>8, Zenon DEF Typed

\* What TypeOK says follows from what the steps keep.
LEMMA TypedIsOK ==
    ASSUME Base, Typed, OperandsTyped, HookTyped
    PROVE  TypeOK
<1>1. config.loop_bound \in Nat
  BY BoundPositive, Zenon
<1>2. ASSUME NEW vm, TypedVm(vm, config.loop_bound) PROVE IsVarMap(vm)
  BY <1>2, Zenon DEF TypedVm, IsVarMap
<1>3. IsVarMap(varmap)
  BY <1>2, Zenon DEF Typed, TypedVars
<1>4. ASSUME NEW j \in 1..Len(backtrack_points)
      PROVE  /\ backtrack_points[j].loc \in Locations
             /\ backtrack_points[j].constraint \subseteq Inputs
             /\ IsVarMap(backtrack_points[j].varmap)
  <2>1. IsPoint(program, Len(path), backtrack_points[j]) /\ TypedPoint(backtrack_points[j], config.loop_bound)
    BY Zenon DEF Base, ArePoints, Typed
  <2>2. QED
    BY <1>1, <1>2, <2>1, VmWeaker, Zenon DEF IsPoint, IsLoc, TypedPoint, Locations
<1>5. /\ cur_loc \in Locations /\ cur_loc.bb \in 1..Len(program[cur_loc.func].blocks)
      /\ cur_loc.instr \in 1..(Len(BB(cur_loc).instrs) + 1)
  BY Zenon DEF Base, IsLoc, Locations, BB, BlockIn
<1>6. \A j \in 1..Len(stack) : stack[j].loc \in Locations /\ InstrAt(stack[j].loc) = stack[j].instr
  BY InstrHere, Zenon DEF Base, IsStack, IsCallsite, IsLoc, Locations
<1>7. path \in Seq(Locations)
  <2>1. {path[k] : k \in 1..Len(path)} \subseteq Locations
    BY Zenon DEF Typed, IsLoc, Locations
  <2>2. path \in Seq({path[k] : k \in 1..Len(path)})
    BY Zenon DEF Base, IsSeq
  <2>3. QED
    BY <2>1, <2>2, SeqGrows, Zenon
<1>8. solver \in Seq(SUBSET Inputs) /\ Len(solver) > 0
  <2>1. Len(backtrack_points) \in Nat
    BY SeqShape, Zenon DEF Base, ArePoints
  <2>2. QED
    BY <2>1, SMTT(30) DEF Base
<1>9. QED
  BY <1>3, <1>4, <1>5, <1>6, <1>7, <1>8, Zenon DEF TypeOK, Base, Typed, Memories

-----------------------------------------------------------------------------
(* What holds of numbers.                                                    *)

INSTANCE WellFoundedInduction

\* Every set of numbers has a least one.
LEMMA LeastNat ==
    ASSUME NEW T, T \subseteq Nat, T # {}
    PROVE  \E m \in T : \A k \in T : m <= k
<1> DEFINE R == OpToRel(<, Nat)
<1>1. IsWellFoundedOn(R, Nat)
  BY NatLessThanWellFounded, Zenon
<1>2. \A j, k \in Nat : <<j, k>> \in R <=> j < k
  BY Zenon DEF OpToRel
<1> HIDE DEF R
<1>3. PICK m \in T : \A k \in T : ~(<<k, m>> \in R)
  BY <1>1, WFMin, Zenon
<1>4. \A k \in T : ~(k < m)
  BY <1>2, <1>3, Zenon
<1>5. QED
  BY <1>3, <1>4, SMTT(30)

LEMMA SetInduction == Induction
<1> SUFFICES ASSUME NEW T, 0 \in T, \A n \in Nat : n \in T => n + 1 \in T, ~(Nat \subseteq T)
             PROVE  FALSE
  BY Zenon DEF Induction
<1>2. PICK m \in Nat \ T : \A k \in Nat \ T : m <= k
  <2>1. Nat \ T \subseteq Nat /\ Nat \ T # {}
    BY Zenon
  <2>2. QED
    BY <2>1, LeastNat, Zenon
<1>3. m - 1 \in Nat /\ ~(m <= m - 1) /\ m = (m - 1) + 1
  BY <1>2, SMTT(30)
<1>4. m - 1 \in T
  BY <1>2, <1>3, Zenon
<1>5. QED
  BY <1>2, <1>3, <1>4, Zenon

-----------------------------------------------------------------------------
\* Whatever a program does, its state keeps its types, TypeOK: the values that
\* hooks, calls, returns, landing pads and backtracking points put into the
\* variables are bitvectors on all inputs, and no variable has a version past
\* the one that exceeds the loop bound.  The promises of LLVM about the next
\* instruction are assumed.
THEOREM EngineTyped == Spec /\ []OperandsTyped /\ []HookTyped => []TypeOK
<1>1. Init => Base /\ Typed
  BY BaseInit, TypedInit, Zenon
<1>2. Base /\ Typed /\ OperandsTyped /\ HookTyped /\ [Next]_vars => Base' /\ Typed'
  BY BaseStep, TypedStep, SetInduction, Zenon
<1>3. Base /\ Typed /\ OperandsTyped /\ HookTyped => TypeOK
  BY TypedIsOK, Zenon
<1>4. QED
  BY <1>1, <1>2, <1>3, PTL DEF Spec
=============================================================================
