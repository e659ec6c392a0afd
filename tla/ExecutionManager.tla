-------------------------- MODULE ExecutionManager --------------------------
(***************************************************************************)
(* The `ExecutionManager`: symbolic execution of a function, path by path. *)
(*                                                                         *)
(* A bitvector is the function from inputs (valuations of the symbolic     *)
(* variables) to values that it denotes; an address is a value, and 0 is   *)
(* the null pointer.  The engine is one thread of mutually recursive       *)
(* procedures; `native` is its call stack, of which only the frames that   *)
(* still have something to do after the call they wait for are kept:       *)
(*    call    symex_call, waiting for the callee to end                    *)
(*    invoke  symex_invoke, waiting for the callee to end                  *)
(*    from    symex_from_cur_loc, waiting for the current function to end  *)
(* and `ctl` says which procedure runs, and with which answer it returns.  *)
(***************************************************************************)
EXTENDS Solver, VarMap, FiniteSets

CONSTANTS Sym,       \* symbolic variables: <<function, name, version>> or <<"mem", address>>
          NumVals,   \* values are 0..NumVals-1
          Scenarios  \* records [program, funcs, config, start]

Val    == 0..(NumVals - 1)
Inputs == [Sym -> Val]

ASSUME ValuesAssumption == NumVals \in Nat \ {0} /\ IsFiniteSet(Inputs)

HookNames == {"assume", "throw", "abort", "stub"}

\* What LLVM promises of the number of operands of an instruction.
HasOperands(ins) ==
    /\ Len(ins.args) \in Nat
    /\ ins.op \in {"load", "resume"} => Len(ins.args) = 1
    /\ ins.op = "store" => Len(ins.args) = 2
    /\ ins.op = "ret" => ins.args = <<>> \/ Len(ins.args) = 1

\* What it promises of a block of a function with these labels, and of a
\* program.  Two cases of a switch have different values.  (The loop bound is
\* the `Config`'s; VarMap::new cannot work with 0.)
WellFormedBlock(block, labels) ==
    LET t == block.term
    IN  /\ Len(block.instrs) \in Nat
        /\ \A n \in 1..Len(block.instrs) :
              /\ block.instrs[n].op \in {"data", "load", "store", "phi", "landingpad", "call"}
              /\ HasOperands(block.instrs[n])
        /\ HasOperands(t)
        /\ t.op \in {"ret", "resume", "unreachable", "br", "condbr", "switch", "invoke"}
        /\ t.op = "br" => t.dest \in labels
        /\ t.op = "condbr" => t.true_dest \in labels /\ t.false_dest \in labels
        /\ t.op = "invoke" => t.return_label \in labels /\ t.exception_label \in labels
        /\ t.op = "switch" =>
              /\ Len(t.dests) \in Nat
              /\ t.default_dest \in labels
              /\ \A j \in 1..Len(t.dests) : t.dests[j].bb \in labels
              /\ \A j, k \in 1..Len(t.dests) : j # k => t.dests[j].val # t.dests[k].val

WellFormed(s) ==
    /\ s.start \in DOMAIN s.program
    /\ \A f \in DOMAIN s.program :
          /\ Len(s.program[f].blocks) \in Nat \ {0}
          /\ \A b \in 1..Len(s.program[f].blocks) :
                WellFormedBlock(s.program[f].blocks[b], 1..Len(s.program[f].blocks))
    /\ \A f \in DOMAIN s.config.hooks : s.config.hooks[f] \in HookNames
    /\ s.config.default_hook \in HookNames \cup {"none"}
    /\ s.config.loop_bound \in Nat \ {0}

ASSUME ScenariosAssumption == \A s \in Scenarios : WellFormed(s)

VARIABLES scenario,         \* the program, its function addresses, the `Config`, the top-level function
          cur_loc,          \* `State.cur_loc`
          stack,            \* `State.stack`: the callers of the current function
          varmap,           \* `State.varmap`
          mem,              \* `State.mem`: for each input, a function from addresses to values
          path,             \* `State.path`
          solver,           \* `State.solver`, see module Solver
          backtrack_points, \* `State.backtrack_points`
          function_ptr_cache, \* `State.function_ptr_cache`
          fresh,            \* `ExecutionManager.fresh`
          native,           \* the engine's own call stack
          ctl,              \* the procedure that runs
          yielded,          \* history: the inputs reported by `next()`
          excluded          \* history: the inputs ruled out by `llvm.assume`

state == <<cur_loc, stack, varmap, mem, path, solver, backtrack_points,
           function_ptr_cache>>
vars  == <<scenario, state, fresh, native, ctl, yielded, excluded>>

program == scenario.program
funcs   == scenario.funcs   \* `addr_to_function`, in module GlobalAllocations
config  == scenario.config

\* `ReturnValue`, the answer Ok(None), and errors.
Return(bv)  == [tag |-> "Return", bv |-> bv]
ReturnVoid  == [tag |-> "ReturnVoid"]
Throw(bv)   == [tag |-> "Throw", bv |-> bv]
Abort       == [tag |-> "Abort"]
NoPath      == [tag |-> "None"]
Err(e)      == [tag |-> "Err", err |-> e]

\* The engine waits for a call of `next()`, having answered r.
Idle(r)      == [at |-> "idle", res |-> r]
\* It is about to record a path entry and then symex from cur_loc.
Enter        == [at |-> "enter"]
\* It is at the instruction or terminator at cur_loc.
Exec         == [at |-> "exec"]
\* It is in catch_with_type_index, before the landing pad.
Catch(exc)   == [at |-> "catch", exc |-> exc]
\* It pops callsites to find one that catches ptr.
Unwind(ptr)  == [at |-> "unwind", ptr |-> ptr]
\* It is in backtrack_and_continue: called by next(), for a dead path, or
\* once more ("none") after having found no path.
Backtracking(why) == [at |-> "backtrack", why |-> why]
\* It returns r to the last native frame.
Returning(r) == [at |-> "return", res |-> r]
Panic        == [at |-> "panic"]

\* Basic blocks are numbered from 1; in a block, the terminator comes after
\* the last instruction.
BB(loc)      == program[loc.func].blocks[loc.bb]
AtTerminator == cur_loc.instr > Len(BB(cur_loc).instrs)
InstrAt(loc) ==
    IF loc.instr > Len(BB(loc).instrs) THEN BB(loc).term ELSE BB(loc).instrs[loc.instr]
Instr        == InstrAt(cur_loc)
Start(f)     == [func |-> f, bb |-> 1, instr |-> 1]
StartOfBB(loc, bb) == [loc EXCEPT !.bb = bb, !.instr = 1]
Inc(loc)     == [loc EXCEPT !.instr = @ + 1]

Key(n) == <<cur_loc.func, n>>

\* Mutant: versions share one symbolic variable.
UnconstrainedReused(k, version) == [i \in Inputs |-> i[<<k[1], k[2], 0>>]]

\* A new unconstrained bitvector: the given version of the variable k.
Unconstrained(k, version) == [i \in Inputs |-> i[<<k[1], k[2], version>>]]

\* `new_bv_with_name`.
NewBvWithName(vm, k) ==
    AssignBvToName(vm, k, Unconstrained(k, NewVersionNum(vm, k)), config.loop_bound)

Fits(vm, k) == FitsLoopBound(vm, k, config.loop_bound)

\* `operand_to_bv`: a constant or a variable of the current function.
OperandToBV(op) ==
    IF op.kind = "const" THEN [i \in Inputs |-> op.val] ELSE varmap.active[Key(op.name)]

ArgsToBVs(ins) == [j \in 1..Len(ins.args) |-> OperandToBV(ins.args[j])]

\* The constraint that a bitvector is not zero, and its negation.
NonZero(bv) == {i \in Inputs : bv[i] # 0}
IsZero(bv)  == {i \in Inputs : bv[i] = 0}

Init ==
    /\ scenario \in Scenarios
    /\ cur_loc = Start(scenario.start)
    /\ stack = <<>>
    /\ LET ps   == program[scenario.start].params
           keys == {<<scenario.start, ps[j]>> : j \in 1..Len(ps)}
       IN  varmap = [active |-> [k \in keys |-> Unconstrained(k, 0)],
                     version |-> [k \in keys |-> 0]]
    /\ mem = [i \in Inputs |-> [a \in Val |-> IF <<"mem", a>> \in Sym THEN i[<<"mem", a>>] ELSE 0]]
    /\ path = <<>>
    /\ solver = <<Inputs>>
    /\ backtrack_points = <<>>
    /\ function_ptr_cache = <<>>
    /\ fresh = TRUE
    /\ native = <<>>
    /\ ctl = Idle(NoPath)
    /\ yielded = {}
    /\ excluded = {}
-----------------------------------------------------------------------------
\* Mutant: every error is squashed.
AllErrorsSquashed(e) == Backtracking("dead")

\* The error e ends an instruction.  Unsat may be squashed: try another path.
InstrErr(e) ==
    IF e = "Unsat" /\ config.squash_unsats THEN Backtracking("dead") ELSE Returning(Err(e))

\* The error e ends an instruction before a landing pad.
CatchErr(e) ==
    IF e \in {"Unsat", "LoopBoundExceeded"} THEN Backtracking("dead") ELSE Returning(Err(e))

\* The error e of an instruction, wherever it is executed.
HandleErr(e) == IF ctl.at = "pad" THEN CatchErr(e) ELSE InstrErr(e)

\* `record_bv_result`, after which the block goes on.
RecordBVResult(n, bv) ==
    /\ varmap' = AssignBvToName(varmap, Key(n), bv, config.loop_bound)
    /\ \/ Fits(varmap, Key(n)) /\ cur_loc' = Inc(cur_loc) /\ UNCHANGED ctl
       \/ ~Fits(varmap, Key(n)) /\ ctl' = HandleErr("LoopBoundExceeded") /\ UNCHANGED cur_loc

\* `save_backtracking_point_at_location`, for each alternative in order.
SaveBacktrackingPoints(alts) ==
    backtrack_points' = backtrack_points \o
        [j \in 1..Len(alts) |-> [loc        |-> alts[j].loc,
                                 stack      |-> stack,
                                 constraint |-> alts[j].constraint,
                                 varmap     |-> varmap,
                                 mem        |-> mem,
                                 path_len   |-> Len(path)]]

PushTimes(s, n) == s \o [j \in 1..n |-> Top(s)]

\* An alternative: enter the block bb of the current function, under c.
Alt(bb, c) == [loc |-> StartOfBB(cur_loc, bb), constraint |-> c]

\* Keep the alternatives for later and enter bb under the constraint c.
Fork(bb, c, alts) ==
    /\ SaveBacktrackingPoints(alts)
    /\ solver' = AssertIn(PushTimes(solver, Len(alts)), c)
    /\ cur_loc' = StartOfBB(cur_loc, bb)
    /\ ctl' = Enter
    /\ UNCHANGED <<stack, varmap, mem, path, native>>

\* Mutant: the exception label is entered like any block.
EnterExceptionLabel(vm, ptr, loc, bb) ==
    varmap' = vm /\ cur_loc' = StartOfBB(loc, bb) /\ ctl' = Enter

\* `catch_at_exception_label`, for a catching block bb of the function at loc.
CatchAtExceptionLabel(vm, ptr, loc, bb) ==
    LET k == <<loc.func, "type_index">>
    IN  /\ varmap' = NewBvWithName(vm, k)
        /\ \/ /\ Fits(vm, k)
              /\ cur_loc' = StartOfBB(loc, bb)
              /\ ctl' = Catch([ptr |-> ptr, type_index |-> Unconstrained(k, NewVersionNum(vm, k))])
           \/ ~Fits(vm, k) /\ cur_loc' = loc /\ ctl' = Returning(Err("LoopBoundExceeded"))
-----------------------------------------------------------------------------
\* `next()`.
NextCalled ==
    /\ ctl.at = "idle"
    /\ fresh' = FALSE
    /\ ctl' = IF fresh THEN Enter
              ELSE IF ctl.res = NoPath THEN Backtracking("none")
              ELSE Backtracking("next")
    /\ UNCHANGED <<scenario, state, native, yielded, excluded>>

\* `next()` answers.
NextReturns ==
    /\ ctl.at = "return"
    /\ native = <<>>
    /\ ctl' = Idle(ctl.res)
    /\ yielded' = IF ctl.res = NoPath THEN yielded ELSE yielded \cup Top(solver)
    /\ UNCHANGED <<scenario, state, fresh, native, excluded>>

\* Mutants: the memory, the callstack or the path is not restored.
RevertKeepingMem(bp) ==
    /\ cur_loc' = bp.loc /\ varmap' = bp.varmap /\ stack' = bp.stack
    /\ path' = SubSeq(path, 1, bp.path_len)
    /\ UNCHANGED mem
RevertKeepingStack(bp) ==
    /\ cur_loc' = bp.loc /\ varmap' = bp.varmap /\ mem' = bp.mem
    /\ path' = SubSeq(path, 1, bp.path_len)
    /\ UNCHANGED stack
RevertKeepingPath(bp) ==
    /\ cur_loc' = bp.loc /\ varmap' = bp.varmap /\ mem' = bp.mem /\ stack' = bp.stack
    /\ UNCHANGED path

\* What `revert_to_backtracking_point` takes from the backtracking point.
RevertTo(bp) ==
    /\ varmap' = bp.varmap
    /\ mem' = bp.mem
    /\ stack' = bp.stack
    /\ path' = SubSeq(path, 1, bp.path_len)
    /\ cur_loc' = bp.loc

\* `revert_to_backtracking_point`, then symex_from_cur_loc.
Backtrack ==
    LET n  == Len(backtrack_points)
        bp == backtrack_points[n]
    IN  /\ ctl.at = "backtrack"
        /\ n > 0
        /\ backtrack_points' = SubSeq(backtrack_points, 1, n - 1)
        /\ solver' = AssertIn(Pop(solver), bp.constraint)
        /\ RevertTo(bp)
        /\ native' = Append(native, [kind |-> "from"])
        /\ ctl' = Enter
        /\ UNCHANGED <<scenario, function_ptr_cache, fresh, yielded, excluded>>

\* Mutant: that no path remains is an error.
BacktrackErrs ==
    /\ ctl.at = "backtrack"
    /\ Len(backtrack_points) = 0
    /\ ctl' = Returning(Err("Unsat"))
    /\ UNCHANGED <<scenario, state, fresh, native, yielded, excluded>>

\* No backtracking points remain.
BacktrackFails ==
    /\ ctl.at = "backtrack"
    /\ Len(backtrack_points) = 0
    /\ ctl' = Returning(NoPath)
    /\ UNCHANGED <<scenario, state, fresh, native, yielded, excluded>>

\* symex_from_cur_loc_through_end_of_function begins: `record_path_entry`.
EnterBlock ==
    /\ ctl.at = "enter"
    /\ path' = Append(path, cur_loc)
    /\ ctl' = Exec
    /\ UNCHANGED <<scenario, cur_loc, stack, varmap, mem, solver, backtrack_points,
                   function_ptr_cache, fresh, native, yielded, excluded>>

\* The engine is at an instruction or terminator op, whose callbacks are fine.
At(op) ==
    /\ ctl.at = "exec"
    /\ cur_loc \notin config.failing_callbacks
    /\ Instr.op = op

\* An instruction or terminator callback returns an error.
CallbackFails ==
    /\ ctl.at = "exec"
    /\ cur_loc \in config.failing_callbacks
    /\ ctl' = Returning(Err("Callback"))
    /\ UNCHANGED <<scenario, state, fresh, native, yielded, excluded>>

\* What a data instruction computes from the values of its operands.
Apply(fn, a) ==
    CASE fn = "add"    -> (a[1] + a[2]) % NumVals
      [] fn = "eq"     -> IF a[1] = a[2] THEN 1 ELSE 0
      [] fn = "select" -> IF a[1] # 0 THEN a[2] ELSE a[3]
      [] fn \in {"ptr", "type_index"} -> a[1][fn]

\* symex_binop, symex_icmp, symex_select, symex_extractvalue.
DataOp ==
    /\ At("data")
    /\ LET bvs == ArgsToBVs(Instr)
       IN  RecordBVResult(Instr.dest,
               [i \in Inputs |-> Apply(Instr.fn, [j \in 1..Len(bvs) |-> bvs[j][i]])])
    /\ UNCHANGED <<scenario, stack, mem, path, solver, backtrack_points, function_ptr_cache,
                   fresh, native, yielded, excluded>>

\* The null check of `Memory::read` and `Memory::write`.
NullDetected(addr) ==
    /\ config.null_pointer_checking # "None"
    /\ SatWithExtraConstraint(solver, IsZero(addr))

\* `State::read` or `State::write` meets a possibly null address: in split
\* mode, the same instruction is tried again later with a non-null address.
NullDereference(addr) ==
    /\ NullDetected(addr)
    /\ LET split == config.null_pointer_checking = "SplitPath"
           alts  == IF split THEN <<[loc |-> cur_loc, constraint |-> NonZero(addr)]>> ELSE <<>>
       IN  SaveBacktrackingPoints(alts) /\ solver' = PushTimes(solver, Len(alts))
    /\ ctl' = InstrErr("NullPointerDereference")
    /\ UNCHANGED <<cur_loc, stack, varmap, mem, path>>

\* symex_load.
Load ==
    /\ At("load")
    /\ LET addr == OperandToBV(Instr.args[1])
       IN  \/ NullDereference(addr)
           \/ /\ ~NullDetected(addr)
              /\ RecordBVResult(Instr.dest, [i \in Inputs |-> mem[i][addr[i]]])
              /\ UNCHANGED <<stack, mem, path, solver, backtrack_points>>
    /\ UNCHANGED <<scenario, function_ptr_cache, fresh, native, yielded, excluded>>

\* symex_store.
Store ==
    /\ At("store")
    /\ LET addr == OperandToBV(Instr.args[1])
           val  == OperandToBV(Instr.args[2])
       IN  \/ NullDereference(addr)
           \/ /\ ~NullDetected(addr)
              /\ mem' = [i \in Inputs |-> [mem[i] EXCEPT ![addr[i]] = val[i]]]
              /\ cur_loc' = Inc(cur_loc)
              /\ UNCHANGED <<ctl, stack, varmap, path, solver, backtrack_points>>
    /\ UNCHANGED <<scenario, function_ptr_cache, fresh, native, yielded, excluded>>

\* symex_phi: the value for the block before the last path entry.  (The entry
\* block has no phi, so there is one.)
ChoosePhi(phi) ==
    LET prev == path[Len(path) - 1].bb
    IN  \/ /\ prev \in DOMAIN phi.incoming
           /\ RecordBVResult(phi.dest, OperandToBV(phi.incoming[prev]))
        \/ /\ prev \notin DOMAIN phi.incoming
           /\ ctl' = HandleErr("OtherError")
           /\ UNCHANGED <<cur_loc, varmap>>

Phi ==
    /\ At("phi")
    /\ ChoosePhi(Instr)
    /\ UNCHANGED <<scenario, stack, mem, path, solver, backtrack_points, function_ptr_cache,
                   fresh, native, yielded, excluded>>

\* A landing pad that was not reached by an exception, an unsupported
\* instruction or terminator, or `unreachable`.
Unsupported ==
    /\ \/ At("landingpad") /\ ctl' = Returning(Err("UnsupportedInstruction"))
       \/ At("unreachable") /\ ctl' = Returning(Err("UnreachableInstruction"))
    /\ UNCHANGED <<scenario, state, fresh, native, yielded, excluded>>
-----------------------------------------------------------------------------
\* No further call is entered.
AtMaxCallstackDepth == Len(stack) >= config.max_callstack_depth

\* resolve_function finds a hook for f.
Hooked(f) == f \in DOMAIN config.hooks

\* The first n+1 possible values of bv in the order in which solver_utils asks for
\* them (0, 1, 2, and then others).
PossibleSolutions(bv, n) ==
    LET all == {bv[i] : i \in Top(solver)}
    IN  {v \in all : Cardinality({w \in all : w < v}) <= n}

\* Mutant: the address found last time is taken again without asking the solver.
CachedAddrUnchecked(bv) ==
    {function_ptr_cache[l] : l \in DOMAIN function_ptr_cache \cap {cur_loc}}

\* The address that was found last time at this location, if the constraints
\* still imply it.
CachedAddr(bv) ==
    {function_ptr_cache[l] : l \in DOMAIN function_ptr_cache \cap {cur_loc}}
        \cap {v \in Val : \A i \in Top(solver) : bv[i] = v}

\* interpret_as_function_ptr with n = 1: the addresses that the pointer may have.
FunctionPtrAddrs(bv) ==
    IF \E v \in Val : \A i \in Inputs : bv[i] = v THEN {bv[i] : i \in Inputs}
    ELSE IF CachedAddr(bv) # {} THEN CachedAddr(bv)
    ELSE PossibleSolutions(bv, 1)

\* resolve_function: the name of the function called, or an error.
ResolveFunction(callee) ==
    IF callee.kind = "fn" THEN [name |-> callee.name]
    ELSE LET addrs     == FunctionPtrAddrs(OperandToBV(callee))
             callables == {funcs[a] : a \in addrs \cap DOMAIN funcs}
         IN  IF \E a \in addrs : a \notin DOMAIN funcs THEN [err |-> "FailedToResolveFunctionPointer"]
             ELSE IF addrs = {} THEN [err |-> "Unsat"]
             ELSE IF Cardinality(callables) > 1 THEN [err |-> "MultipleTargets"]
             ELSE [name |-> CHOOSE f \in callables : TRUE]

Resolves(ins) == "name" \in DOMAIN ResolveFunction(ins.callee)
Callee(ins)   == ResolveFunction(ins.callee).name

\* The one address found is remembered.
CacheFunctionPtr(callee) ==
    function_ptr_cache' =
        LET addrs == FunctionPtrAddrs(OperandToBV(callee))
        IN  IF callee.kind = "fn" \/ Cardinality(addrs) # 1 THEN function_ptr_cache
            ELSE Insert(function_ptr_cache, cur_loc, CHOOSE a \in addrs : TRUE)

\* f is neither hooked nor defined, and there is a default hook.
UsesDefaultHook(f) ==
    ~Hooked(f) /\ ~AtMaxCallstackDepth /\ f \notin DOMAIN program /\ config.default_hook # "none"

\* What a hook answers, and the varmap and the constraint it leaves.
HookOutcome(res) == [res |-> res, varmap |-> varmap, asserts |-> Inputs]

\* symex_assume.
AssumeHook(cond) ==
    [HookOutcome(ReturnVoid) EXCEPT
        !.asserts = IF config.trust_llvm_assumes THEN NonZero(cond) ELSE Inputs]

\* cxa_throw.
ThrowHook(ptr) == HookOutcome(Throw(ptr))

\* abort_hook.
AbortHook == HookOutcome(Abort)

\* generic_stub_hook.
StubHook(ins) ==
    LET k == Key("generic_stub_hook_retval")
    IN  IF ins.dest = "void" THEN HookOutcome(ReturnVoid)
        ELSE [HookOutcome(IF Fits(varmap, k) THEN Return(Unconstrained(k, NewVersionNum(varmap, k)))
                          ELSE Err("LoopBoundExceeded"))
              EXCEPT !.varmap = NewBvWithName(varmap, k)]

CallHook(h, ins) ==
    CASE h = "assume" -> AssumeHook(ArgsToBVs(ins)[1])
      [] h = "throw"  -> ThrowHook(ArgsToBVs(ins)[1])
      [] h = "abort"  -> AbortHook
      [] h = "stub"   -> StubHook(ins)

\* symex_hook: the hook must answer with a value if and only if one is needed.
SymexHook(h, ins) ==
    LET out == CallHook(h, ins)
    IN  IF \/ out.res.tag = "Return" /\ ins.dest = "void"
           \/ out.res.tag = "ReturnVoid" /\ ins.dest # "void"
        THEN [out EXCEPT !.res = Err("HookReturnValueMismatch")]
        ELSE out

\* The engine goes on after the call or invoke at loc, with varmap vm.
\* (Except that an invoke with the default hook answers Ok(None).)
ContinueAfter(ins, loc, vm, default) ==
    /\ varmap' = vm
    /\ \/ ins.op = "call" /\ cur_loc' = Inc(loc) /\ ctl' = Exec
       \/ /\ ins.op = "invoke" /\ ~default
          /\ cur_loc' = StartOfBB(loc, ins.return_label) /\ ctl' = Enter
       \/ /\ ins.op = "invoke" /\ default
          /\ cur_loc' = loc /\ ctl' = Returning(NoPath)

\* An error of a call or invoke: only instructions squash Unsat.
CallErr(ins, e) == IF ins.op = "call" THEN InstrErr(e) ELSE Returning(Err(e))

\* The call or invoke at loc returned bv.
AssignCallResult(ins, loc, vm, bv, default) ==
    LET k   == <<loc.func, ins.dest>>
        vm1 == AssignBvToName(vm, k, bv, config.loop_bound)
    IN  \/ Fits(vm, k) /\ ContinueAfter(ins, loc, vm1, default)
        \/ /\ ~Fits(vm, k)
           /\ varmap' = vm1
           /\ ctl' = CallErr(ins, "LoopBoundExceeded")
           /\ cur_loc' = loc

AtCall == At("call") \/ At("invoke")

\* The function pointer has no known target, several, or none at all.
CallUnresolved ==
    /\ AtCall
    /\ ~Resolves(Instr)
    /\ CacheFunctionPtr(Instr.callee)
    /\ ctl' = CallErr(Instr, ResolveFunction(Instr.callee).err)
    /\ UNCHANGED <<scenario, cur_loc, stack, varmap, mem, path, solver, backtrack_points, fresh,
                   native, yielded, excluded>>

\* symex_call or symex_invoke of a hooked function, or with the default hook.
CallHooked ==
    LET ins == Instr
        f   == Callee(ins)
        out == SymexHook(IF Hooked(f) THEN config.hooks[f] ELSE config.default_hook, ins)
    IN  /\ AtCall
        /\ Resolves(ins) /\ (Hooked(f) \/ UsesDefaultHook(f))
        /\ CacheFunctionPtr(ins.callee)
        /\ solver' = AssertIn(solver, out.asserts)
        /\ excluded' = excluded \cup (Top(solver) \ out.asserts)
        /\ \/ out.res.tag = "Return" /\ AssignCallResult(ins, cur_loc, out.varmap, out.res.bv, ~Hooked(f))
           \/ out.res.tag = "ReturnVoid" /\ ContinueAfter(ins, cur_loc, out.varmap, ~Hooked(f))
           \/ /\ out.res.tag = "Throw"
              /\ \/ /\ ins.op = "call"
                    /\ ctl' = Returning(out.res) /\ varmap' = out.varmap /\ UNCHANGED cur_loc
                 \/ /\ ins.op = "invoke"
                    /\ CatchAtExceptionLabel(out.varmap, out.res.bv, cur_loc, ins.exception_label)
           \/ /\ out.res.tag = "Abort"
              /\ ctl' = Returning(out.res) /\ varmap' = out.varmap /\ UNCHANGED cur_loc
           \/ /\ out.res.tag = "Err"
              /\ ctl' = CallErr(ins, out.res.err) /\ varmap' = out.varmap /\ UNCHANGED cur_loc
        /\ UNCHANGED <<scenario, stack, mem, path, backtrack_points, fresh, native, yielded>>

\* The call is ignored: the callstack is as deep as allowed.
CallIgnored ==
    LET ins == Instr
        k   == Key(Callee(ins) \o "_retval")
    IN  /\ AtCall
        /\ Resolves(ins) /\ ~Hooked(Callee(ins))
        /\ CacheFunctionPtr(ins.callee)
        /\ AtMaxCallstackDepth
        /\ \/ ins.dest = "void" /\ ContinueAfter(ins, cur_loc, varmap, FALSE)
           \/ /\ ins.dest # "void" /\ Fits(varmap, k)
              /\ AssignCallResult(ins, cur_loc, NewBvWithName(varmap, k),
                                  Unconstrained(k, NewVersionNum(varmap, k)), FALSE)
           \/ /\ ins.dest # "void" /\ ~Fits(varmap, k)
              /\ varmap' = NewBvWithName(varmap, k)
              /\ ctl' = CallErr(ins, "LoopBoundExceeded")
              /\ UNCHANGED cur_loc
        /\ UNCHANGED <<scenario, stack, mem, path, solver, backtrack_points, fresh, native,
                       yielded, excluded>>

\* The callee is not known.
CallUnknown ==
    /\ AtCall
    /\ Resolves(Instr) /\ ~Hooked(Callee(Instr)) /\ ~AtMaxCallstackDepth
    /\ Callee(Instr) \notin DOMAIN program
    /\ config.default_hook = "none"
    /\ ctl' = CallErr(Instr, "FunctionNotFound")
    /\ UNCHANGED <<scenario, state, fresh, native, yielded, excluded>>

\* The varmap once the first j arguments are assigned to the parameters of f.
Bound(vm, f, bvs) ==
    LET after[j \in 0..Len(bvs)] ==
            IF j = 0 THEN vm
            ELSE AssignBvToName(after[j-1], <<f, program[f].params[j]>>, bvs[j], config.loop_bound)
    IN  after

\* The function is entered: push the callsite, then assign the parameters, of
\* which the j-th may exceed the loop bound.
CallEntered ==
    LET ins   == Instr
        f     == Callee(ins)
        bvs   == ArgsToBVs(ins)
        bound == Bound(varmap, f, bvs)
        Bad(j) == ~Fits(bound[j-1], <<f, program[f].params[j]>>)
    IN  /\ AtCall
        /\ Resolves(ins) /\ ~Hooked(f) /\ ~AtMaxCallstackDepth
        /\ CacheFunctionPtr(ins.callee)
        /\ f \in DOMAIN program
        /\ Len(bvs) = Len(program[f].params)
        /\ stack' = Append(stack, [loc |-> cur_loc, instr |-> ins,
                                   restore_info |-> RestoreInfoFor(varmap, cur_loc.func)])
        /\ cur_loc' = Start(f)
        /\ \/ /\ \A j \in 1..Len(bvs) : ~Bad(j)
              /\ varmap' = bound[Len(bvs)]
              /\ native' = Append(native, [kind |-> ins.op, loc |-> cur_loc])
              /\ ctl' = Enter
           \/ \E j \in 1..Len(bvs) :
              /\ Bad(j) /\ \A l \in 1..(j-1) : ~Bad(l)
              /\ varmap' = bound[j]
              /\ ctl' = CallErr(ins, "LoopBoundExceeded")
              /\ UNCHANGED native
        /\ UNCHANGED <<scenario, mem, path, solver, backtrack_points, fresh, yielded, excluded>>

\* The number of arguments does not match that of the parameters, as for most
\* calls of variadic functions.
CallMalformed ==
    /\ AtCall
    /\ Resolves(Instr) /\ ~Hooked(Callee(Instr)) /\ ~AtMaxCallstackDepth
    /\ CacheFunctionPtr(Instr.callee)
    /\ Callee(Instr) \in DOMAIN program
    /\ Len(Instr.args) # Len(program[Callee(Instr)].params)
    /\ ctl' = CallErr(Instr, IF program[Callee(Instr)].is_var_arg THEN "UnsupportedInstruction"
                             ELSE "MalformedInstruction")
    /\ UNCHANGED <<scenario, cur_loc, stack, varmap, mem, path, solver, backtrack_points, fresh,
                   native, yielded, excluded>>
-----------------------------------------------------------------------------
Frame    == native[Len(native)]

PopFrame == native' = SubSeq(native, 1, Len(native) - 1)

\* The top of the callstack, and the varmap once it is popped (`pop_callsite`).
Callsite       == stack[Len(stack)]

\* Mutant: the callsite is only looked at.
CallsiteKept == UNCHANGED stack

PopCallsite    == stack' = SubSeq(stack, 1, Len(stack) - 1)
RestoredVarmap == RestoreFnVars(varmap, Callsite.restore_info)

\* A result comes back to a frame of the given kind.
ReturnsTo(kinds) == ctl.at = "return" /\ native # <<>> /\ Frame.kind \in kinds

\* The callee failed, or has no possible path (which is Unsat to the caller).
CalleeFails ==
    /\ ReturnsTo({"call", "invoke"})
    /\ \/ ctl.res.tag = "Err" /\ ctl' = CallErr(InstrAt(Frame.loc), ctl.res.err)
       \/ /\ ctl.res = NoPath
          /\ ctl' = IF Frame.kind = "call" /\ config.squash_unsats THEN Backtracking("none")
                    ELSE Returning(Err("Unsat"))
    /\ PopFrame
    /\ UNCHANGED <<scenario, state, fresh, yielded, excluded>>

\* No callsite to pop: the path was finished elsewhere, after backtracking.
CalleeFinishedElsewhere ==
    /\ ReturnsTo({"call", "invoke"})
    /\ ctl.res.tag \notin {"Err", "None"}
    /\ stack = <<>>
    /\ PopFrame
    /\ UNCHANGED <<scenario, state, fresh, ctl, yielded, excluded>>

\* Mutant: the location compared is the one after the call.
CallsiteAfterExpected == Callsite.loc = Inc(Frame.loc) /\ Callsite.instr.op = Frame.kind

\* The callsite popped is the one that was pushed.
CallsiteExpected == Callsite.loc = Frame.loc /\ Callsite.instr.op = Frame.kind

UnexpectedCallsite ==
    /\ ReturnsTo({"call", "invoke"})
    /\ ctl.res.tag \notin {"Err", "None"}
    /\ stack # <<>>
    /\ ~CallsiteExpected
    /\ ctl' = Panic
    /\ UNCHANGED <<scenario, state, fresh, native, yielded, excluded>>

\* The callee of a symex_call ends: the caller goes on after the call, or
\* rethrows, or aborts.
CallReturns ==
    LET next == Inc(Frame.loc)
        ins  == InstrAt(Frame.loc)
        k    == <<next.func, ins.dest>>
        vm   == AssignBvToName(RestoredVarmap, k, ctl.res.bv, config.loop_bound)
    IN  /\ ReturnsTo({"call"})
        /\ ctl.res.tag \notin {"Err", "None"}
        /\ stack # <<>> /\ CallsiteExpected
        /\ PopCallsite /\ PopFrame
        /\ cur_loc' = next
        /\ path' = Append(path, next)
        /\ \/ /\ ctl.res.tag = "Return"
              /\ varmap' = vm
              /\ ctl' = IF Fits(RestoredVarmap, k) THEN Exec ELSE InstrErr("LoopBoundExceeded")
           \/ ctl.res.tag = "ReturnVoid" /\ varmap' = RestoredVarmap /\ ctl' = Exec
           \/ ctl.res.tag \in {"Throw", "Abort"} /\ varmap' = RestoredVarmap /\ UNCHANGED ctl
        /\ UNCHANGED <<scenario, mem, solver, backtrack_points, function_ptr_cache, fresh,
                       yielded, excluded>>

\* The callee of a symex_invoke ends: go on at the return label or, with an
\* exception, at the exception label.
InvokeReturns ==
    LET loc == Frame.loc
        ins == InstrAt(loc)
    IN  /\ ReturnsTo({"invoke"})
        /\ ctl.res.tag \notin {"Err", "None"}
        /\ stack # <<>> /\ CallsiteExpected
        /\ PopCallsite /\ PopFrame
        /\ \/ ctl.res.tag = "Return" /\ AssignCallResult(ins, loc, RestoredVarmap, ctl.res.bv, FALSE)
           \/ ctl.res.tag = "ReturnVoid" /\ ContinueAfter(ins, loc, RestoredVarmap, FALSE)
           \/ /\ ctl.res.tag = "Throw"
              /\ CatchAtExceptionLabel(RestoredVarmap, ctl.res.bv, loc, ins.exception_label)
           \/ /\ ctl.res.tag = "Abort"
              /\ varmap' = RestoredVarmap /\ cur_loc' = loc /\ UNCHANGED ctl
        /\ UNCHANGED <<scenario, mem, path, solver, backtrack_points, function_ptr_cache, fresh,
                       yielded, excluded>>

\* symex_from_cur_loc gets an answer that ends it: an error, an abort, or a
\* result of the top-level function.  Without a path, it backtracks again.
FromCurLocEnds ==
    /\ ReturnsTo({"from"})
    /\ \/ ctl.res.tag \in {"Err", "Abort"} /\ UNCHANGED ctl
       \/ ctl.res.tag \in {"Return", "ReturnVoid"} /\ stack = <<>> /\ UNCHANGED ctl
       \/ ctl.res.tag = "Throw" /\ ctl' = Unwind(ctl.res.bv)
       \/ ctl.res = NoPath /\ ctl' = Backtracking("none")
    /\ PopFrame
    /\ UNCHANGED <<scenario, state, fresh, yielded, excluded>>

\* symex_from_cur_loc returns to the caller, using the saved callstack, and
\* starts again there.  A failed assignment makes the path dead.
FromCurLocReturns ==
    LET loc == Callsite.loc
        ins == Callsite.instr
        k   == <<loc.func, ins.dest>>
        ok  == ctl.res.tag = "ReturnVoid" \/ Fits(RestoredVarmap, k)
    IN  /\ ReturnsTo({"from"})
        /\ ctl.res.tag \in {"Return", "ReturnVoid"}
        /\ stack # <<>>
        /\ PopCallsite
        /\ varmap' = IF ctl.res.tag = "ReturnVoid" THEN RestoredVarmap
                     ELSE AssignBvToName(RestoredVarmap, k, ctl.res.bv, config.loop_bound)
        /\ cur_loc' = IF ~ok THEN loc
                      ELSE IF ins.op = "call" THEN Inc(loc) ELSE StartOfBB(loc, ins.return_label)
        /\ ctl' = IF ok THEN Enter ELSE Backtracking("dead")
        /\ IF ok THEN UNCHANGED native ELSE PopFrame
        /\ UNCHANGED <<scenario, mem, path, solver, backtrack_points, function_ptr_cache, fresh,
                       yielded, excluded>>

\* symex_from_cur_loc looks for an invoke that catches the exception.
UnwindCallsite ==
    LET ins == Callsite.instr
    IN  /\ ctl.at = "unwind"
        /\ \/ stack = <<>> /\ ctl' = Returning(Throw(ctl.ptr)) /\ UNCHANGED <<stack, varmap,
                                                                              cur_loc>>
           \/ /\ stack # <<>> /\ ins.op = "call"
              /\ PopCallsite /\ varmap' = RestoredVarmap
              /\ UNCHANGED <<ctl, cur_loc>>
           \/ /\ stack # <<>> /\ ins.op = "invoke"
              /\ PopCallsite
              /\ CatchAtExceptionLabel(RestoredVarmap, ctl.ptr, Callsite.loc, ins.exception_label)
        /\ UNCHANGED <<scenario, mem, path, solver, backtrack_points, function_ptr_cache, fresh,
                       native, yielded, excluded>>

\* catch_with_type_index: phi instructions, then the landing pad.  The path
\* entry is recorded at the first instruction.
CatchEnter ==
    /\ ctl.at = "catch"
    /\ path' = IF AtTerminator THEN path ELSE Append(path, cur_loc)
    /\ ctl' = [ctl EXCEPT !.at = "pad"]
    /\ UNCHANGED <<scenario, cur_loc, stack, varmap, mem, solver, backtrack_points,
                   function_ptr_cache, fresh, native, yielded, excluded>>

LandingPad ==
    /\ ctl.at = "pad"
    /\ \/ Instr.op = "phi" /\ ChoosePhi(Instr)
       \/ /\ Instr.op = "landingpad"
          /\ LET k  == Key(Instr.dest)
                 bv == [i \in Inputs |-> [ptr |-> ctl.exc.ptr[i], type_index |-> ctl.exc.type_index[i]]]
             IN  /\ varmap' = AssignBvToName(varmap, k, bv, config.loop_bound)
                 /\ \/ Fits(varmap, k) /\ cur_loc' = Inc(cur_loc) /\ ctl' = Enter
                    \/ ~Fits(varmap, k) /\ ctl' = CatchErr("LoopBoundExceeded") /\ UNCHANGED cur_loc
       \/ /\ Instr.op \notin {"phi", "landingpad"}
          /\ ctl' = CatchErr("MalformedInstruction")
          /\ UNCHANGED <<cur_loc, varmap>>
    /\ UNCHANGED <<scenario, stack, mem, path, solver, backtrack_points, function_ptr_cache,
                   fresh, native, yielded, excluded>>
-----------------------------------------------------------------------------
\* symex_return: the function ends.
Ret ==
    /\ At("ret")
    /\ \/ Instr.args = <<>> /\ ctl' = Returning(ReturnVoid)
       \/ Instr.args # <<>> /\ ctl' = Returning(Return(OperandToBV(Instr.args[1])))
    /\ UNCHANGED <<scenario, state, fresh, native, yielded, excluded>>

\* symex_resume: the function ends with the exception that it had caught.
Resume ==
    /\ At("resume")
    /\ ctl' = Returning(Throw([i \in Inputs |-> OperandToBV(Instr.args[1])[i].ptr]))
    /\ UNCHANGED <<scenario, state, fresh, native, yielded, excluded>>

\* symex_br.
Br ==
    /\ At("br")
    /\ Fork(Instr.dest, Inputs, <<>>)
    /\ UNCHANGED <<scenario, function_ptr_cache, fresh, yielded, excluded>>

\* symex_condbr: the true branch first, the false branch kept for later.
CondBr ==
    LET bvcond == OperandToBV(Instr.args[1])
        true_feasible  == SatWithExtraConstraint(solver, NonZero(bvcond))
        false_feasible == SatWithExtraConstraint(solver, IsZero(bvcond))
    IN  /\ At("condbr")
        /\ \/ /\ true_feasible /\ false_feasible
              /\ Fork(Instr.true_dest, NonZero(bvcond), <<Alt(Instr.false_dest, IsZero(bvcond))>>)
           \/ /\ true_feasible /\ ~false_feasible
              /\ Fork(Instr.true_dest, NonZero(bvcond), <<>>)
           \/ /\ ~true_feasible /\ false_feasible
              /\ Fork(Instr.false_dest, IsZero(bvcond), <<>>)
           \/ /\ ~true_feasible /\ ~false_feasible
              /\ ctl' = Backtracking("dead")
              /\ UNCHANGED <<state, native>>
        /\ UNCHANGED <<scenario, function_ptr_cache, fresh, yielded, excluded>>

\* Mutant: the default is taken for every value.
DefaultForAll(switchval, dests) == Inputs

\* The constraint of one destination of a switch, and that of its default.
CaseConstraint(switchval, d) == {i \in Inputs : switchval[i] = d.val}
DefaultConstraint(switchval, dests) ==
    {i \in Inputs : \A j \in 1..Len(dests) : switchval[i] # dests[j].val}

\* The cases of a switch that are feasible, by their positions.
FeasibleCases(switchval, dests) ==
    {j \in 1..Len(dests) : SatWithExtraConstraint(solver, CaseConstraint(switchval, dests[j]))}

\* order lists the elements of P from the least to the greatest.
Lists(order, P) ==
    /\ {order[j] : j \in DOMAIN order} = P
    /\ \A j, k \in DOMAIN order : j < k => order[j] < order[k]

\* The ways on from a switch: the feasible cases in order, then the default.
SwitchAlts(switchval, ins, order) ==
    LET default == DefaultConstraint(switchval, ins.dests)
    IN  [j \in 1..Len(order) |-> Alt(ins.dests[order[j]].bb, CaseConstraint(switchval, ins.dests[order[j]]))]
        \o IF SatWithExtraConstraint(solver, default) THEN <<Alt(ins.default_dest, default)>> ELSE <<>>

\* symex_switch: the first feasible case, the others and the default kept for
\* later.  Without a feasible case, the default, with no constraint.
Switch ==
    LET switchval == OperandToBV(Instr.args[1])
        feasible  == FeasibleCases(switchval, Instr.dests)
    IN  /\ At("switch")
        /\ \/ feasible = {} /\ Fork(Instr.default_dest, Inputs, <<>>)
           \/ \E n \in 1..Len(Instr.dests) : \E order \in [1..n -> feasible] :
                 LET alts == SwitchAlts(switchval, Instr, order)
                 IN  Lists(order, feasible) /\ Fork(alts[1].loc.bb, alts[1].constraint, Tail(alts))
        /\ UNCHANGED <<scenario, function_ptr_cache, fresh, yielded, excluded>>
-----------------------------------------------------------------------------
\* What `next()` does between being called and answering.
Step ==
    \/ NextReturns \/ Backtrack \/ BacktrackFails \/ EnterBlock \/ CallbackFails
    \/ DataOp \/ Load \/ Store \/ Phi \/ Unsupported
    \/ CallUnresolved \/ CallHooked \/ CallIgnored \/ CallUnknown \/ CallEntered \/ CallMalformed
    \/ CalleeFails \/ CalleeFinishedElsewhere \/ UnexpectedCallsite \/ CallReturns \/ InvokeReturns
    \/ FromCurLocEnds \/ FromCurLocReturns \/ UnwindCallsite \/ CatchEnter \/ LandingPad
    \/ Ret \/ Resume \/ Br \/ CondBr \/ Switch

\* A panic ends the thread.
Panicked ==
    /\ ctl.at = "panic"
    /\ UNCHANGED vars

Next == NextCalled \/ Step \/ Panicked

\* The engine is one thread that runs until it answers, for a consumer that
\* asks for paths as long as it likes.
Spec == Init /\ [][Next]_vars /\ WF_vars(Step)

\* A consumer that asks for all of them.
ConsumedSpec == Spec /\ WF_vars(NextCalled)
-----------------------------------------------------------------------------
Locations == [func : DOMAIN program, bb : Nat, instr : Nat]

\* The operand is a constant or a variable that has been assigned, and, for an
\* address or what is stored in memory, a value on every input.
Defined(op) == op.kind = "const" \/ Key(op.name) \in DOMAIN varmap.active
IsValue(op) == Defined(op) /\ \A i \in Inputs : OperandToBV(op)[i] \in Val

\* What LLVM's dominance and typing rules promise of the instruction that is
\* executed next.
OperandsTyped ==
    ctl.at \in {"exec", "pad"} =>
        /\ \A j \in 1..Len(Instr.args) : Defined(Instr.args[j])
        /\ Instr.op \in {"load", "store"} => \A j \in 1..Len(Instr.args) : IsValue(Instr.args[j])
        /\ Instr.op \in {"call", "invoke"} /\ Instr.callee.kind # "fn" => IsValue(Instr.callee)
        /\ Instr.op = "phi" =>
              \A bb \in DOMAIN Instr.incoming \cap {path[Len(path) - 1].bb} : Defined(Instr.incoming[bb])

\* What the signature of a function promises when a hook is called for it:
\* llvm.assume and cxa_throw have the argument that their hooks look at.
HookTyped ==
    ctl.at = "exec" /\ Instr.op \in {"call", "invoke"} /\ Resolves(Instr) =>
        LET f == Callee(Instr)
            h == IF Hooked(f) THEN config.hooks[f] ELSE config.default_hook
        IN  (Hooked(f) \/ UsesDefaultHook(f)) /\ h \in {"assume", "throw"} => Len(Instr.args) > 0

IsVarMap(vm) ==
    /\ DOMAIN vm.active \subseteq DOMAIN vm.version
    /\ \A k \in DOMAIN vm.active : DOMAIN vm.active[k] = Inputs
    /\ \A k \in DOMAIN vm.version : vm.version[k] \in 0..config.loop_bound

\* The types of the engine's state: locations are in the program, every
\* bitvector is defined on all inputs, no version number goes past the one
\* that exceeds the loop bound.
TypeOK ==
    /\ scenario \in Scenarios
    /\ OperandsTyped
    /\ HookTyped
    /\ cur_loc \in Locations /\ cur_loc.bb \in 1..Len(program[cur_loc.func].blocks)
    /\ cur_loc.instr \in 1..(Len(BB(cur_loc).instrs) + 1)
    /\ \A j \in 1..Len(stack) : stack[j].loc \in Locations /\ InstrAt(stack[j].loc) = stack[j].instr
    /\ IsVarMap(varmap)
    /\ mem \in [Inputs -> [Val -> Val]]
    /\ path \in Seq(Locations)
    /\ solver \in Seq(SUBSET Inputs) /\ Len(solver) > 0
    /\ \A j \in 1..Len(backtrack_points) :
          /\ backtrack_points[j].loc \in Locations
          /\ backtrack_points[j].constraint \subseteq Inputs
          /\ IsVarMap(backtrack_points[j].varmap)
    /\ function_ptr_cache \in [DOMAIN function_ptr_cache -> Val]
    /\ fresh \in BOOLEAN
    /\ yielded \subseteq Inputs /\ excluded \subseteq Inputs

\* The panics of the engine are unreachable: symex_call and symex_invoke pop
\* the callsite they pushed, whatever was explored, abandoned and resumed
\* in between.
NoPanic == ctl.at # "panic"

Answered == ctl.at = "idle" /\ ~fresh

\* A path that runs to its end leaves no callsite behind, on both routes back
\* to the top level: through native returns and through the saved callstack.
CallstackUnwound ==
    Answered /\ ctl.res.tag \in {"Return", "ReturnVoid", "Throw"} => stack = <<>>

\* The two steps that leave callsites of symex_from_cur_loc to frames below it:
\* an exception is caught above the first of them, or a path is aborted.
CatchesBelow == UnwindCallsite /\ ctl'.at = "catch" /\ stack' # <<>>
AbortsBelow  == FromCurLocEnds /\ ctl.res.tag = "Abort" /\ stack # <<>>

\* None means that every input was reported on some path, or ruled out by an
\* assumption of the program.
ExhaustiveAtNone == Answered /\ ctl.res = NoPath => yielded \cup excluded = Inputs

\* `next()` never reports an input that an earlier path covered.
ReportedOnce ==
    ctl.at = "return" /\ native = <<>> /\ ctl.res # NoPath => Top(solver) \cap yielded = {}

\* Every path reported is possible: some input takes it.
ReportedPossible == Answered /\ ctl.res # NoPath => Sat(solver)

\* With `squash_unsats`, Unsat is not reported to the consumer.
UnsatSquashed == Answered /\ config.squash_unsats => ctl.res # Err("Unsat")

\* Loops and recursion end at their bounds, so that every call of `next()`
\* comes to an end, and a consumer that goes on asking gets to None, and to
\* None again whenever it asks later.
EventuallyExhausted == []<>(Answered /\ ctl.res = NoPath)
=============================================================================
