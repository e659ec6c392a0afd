------------------------- MODULE ExecutionSoundness -------------------------
(***************************************************************************)
(* What the answers of the ExecutionManager mean for the program: every    *)
(* concrete execution that a path stands for behaves as the path says.     *)
(*                                                                         *)
(* The reference is an interpreter for one concrete input, with one        *)
(* environment per activation, no solver and no backtracking.  Calls       *)
(* beyond the depth limit, hooks, the loop bound and the null checks act   *)
(* as the `Config` documents.                                              *)
(***************************************************************************)
EXTENDS ExecutionManager

CONSTANT MaxSteps  \* bound: the longest concrete run

\* A machine: the activation at loc, with environment env, came from block
\* prev; frames are the suspended activations; ver counts the assignments to
\* each variable of each function; trace holds the places where a segment
\* began; rethrown says whether an exception passed through a plain call; out
\* is the outcome, or Running.
Running == [tag |-> "Running"]
Continue(m, loc) == [m EXCEPT !.loc = loc, !.trace = Append(@, loc)]
Jump(m, bb) ==
    [Continue(m, StartOfBB(m.loc, bb)) EXCEPT !.prev = m.loc.bb]
Stop(m, out) == [m EXCEPT !.out = out]

\* Count an assignment to variable n of function f.
Version(m, f, n) == IF <<f, n>> \in DOMAIN m.ver THEN m.ver[<<f, n>>] + 1 ELSE 0
Count(m, f, n) ==
    LET v == Version(m, f, n) IN
    IF v >= config.loop_bound THEN Stop(m, Err("LoopBoundExceeded"))
    ELSE [m EXCEPT !.ver = Insert(@, <<f, n>>, v)]

Set(m, n, v) ==
    LET c == Count(m, m.loc.func, n) IN
    IF c.out # Running THEN c ELSE [c EXCEPT !.env = Insert(@, n, v)]

Eval(m, op) == IF op.kind = "const" THEN op.val ELSE m.env[op.name]

\* Leave the activation for the caller's, which goes on in machine m1.
Caller(m) ==
    LET fr == m.frames[Len(m.frames)] IN
    [m EXCEPT !.frames = SubSeq(@, 1, Len(@) - 1), !.loc = fr.loc, !.env = fr.env]

After(m, ins) ==
    IF ins.op = "call" THEN [m EXCEPT !.loc = Inc(@)] ELSE Jump(m, ins.return_label)

ReturnFrom(m, out) ==
    IF m.frames = <<>> THEN Stop(m, out)
    ELSE LET c   == Caller(m)
             ins == InstrAt(c.loc)
             a   == IF out.tag = "Return" THEN Set(c, ins.dest, out.val) ELSE c
         IN  IF a.out # Running THEN a
             ELSE IF ins.op = "call" THEN Continue(a, Inc(a.loc)) ELSE Jump(a, ins.return_label)

RECURSIVE Pads(_, _)
\* Run the phis and the landing pad at the start of a catching block.
Pads(m, exc) ==
    LET ins == InstrAt(m.loc) IN
    IF m.out # Running THEN m
    ELSE IF ins.op = "phi"
    THEN Pads([Set(m, ins.dest, Eval(m, ins.incoming[m.prev])) EXCEPT !.loc = Inc(@)], exc)
    ELSE IF ins.op # "landingpad" THEN Stop(m, Err("MalformedInstruction"))
    ELSE LET s == Set(m, ins.dest, exc)
         IN  IF s.out # Running THEN s ELSE Continue(s, Inc(s.loc))

CatchIn(m, ins, ptr, i) ==
    LET f == m.loc.func
        c == Count(m, f, "type_index")
    IN  IF c.out # Running THEN c
        ELSE Pads(Jump(c, ins.exception_label),
                  [ptr |-> ptr, type_index |-> i[<<f, "type_index", Version(m, f, "type_index")>>]])

RECURSIVE Raise(_, _, _)
Raise(m, ptr, i) ==
    IF m.frames = <<>> THEN Stop(m, [tag |-> "Throw", val |-> ptr])
    ELSE LET c == Caller(m)
             ins == InstrAt(c.loc)
         IN  IF ins.op = "call" THEN Raise([c EXCEPT !.rethrown = TRUE], ptr, i)
             ELSE CatchIn(c, ins, ptr, i)

\* A new unknown value for variable n, then assigned to the result of ins.
Havoc(m, ins, n, i) ==
    LET f == m.loc.func
        c == Count(m, f, n)
    IN  IF ins.dest = "void" THEN After(m, ins)
        ELSE IF c.out # Running THEN c
        ELSE LET s == Set(c, ins.dest, i[<<f, n, Version(m, f, n)>>])
             IN  IF s.out # Running THEN s ELSE After(s, ins)

Hook(m, h, ins, args, i) ==
    CASE h = "abort" -> Stop(m, Abort)
      [] h = "throw" -> IF ins.op = "call" THEN Raise(m, args[1], i)
                        ELSE CatchIn(m, ins, args[1], i)
      [] h = "stub"  -> Havoc(m, ins, "generic_stub_hook_retval", i)
      [] h = "assume" /\ config.trust_llvm_assumes /\ args[1] = 0 -> Stop(m, [tag |-> "Excluded"])
      [] OTHER -> IF ins.dest = "void" THEN After(m, ins)
                  ELSE Stop(m, Err("HookReturnValueMismatch"))

RECURSIVE SetAll(_, _, _, _)
SetAll(m, ns, vs, j) ==
    IF j > Len(ns) \/ m.out # Running THEN m ELSE SetAll(Set(m, ns[j], vs[j]), ns, vs, j + 1)

CallIns(m, ins, i) ==
    LET ptr  == Eval(m, ins.callee)
        f    == IF ins.callee.kind = "fn" THEN ins.callee.name ELSE funcs[ptr]
        args == [j \in 1..Len(ins.args) |-> Eval(m, ins.args[j])]
    IN  IF ins.callee.kind # "fn" /\ ptr \notin DOMAIN funcs
        THEN Stop(m, Err("FailedToResolveFunctionPointer"))
        ELSE IF f \in DOMAIN config.hooks THEN Hook(m, config.hooks[f], ins, args, i)
        ELSE IF Len(m.frames) >= config.max_callstack_depth THEN Havoc(m, ins, f \o "_retval", i)
        ELSE IF f \in DOMAIN program
        THEN IF Len(args) # Len(program[f].params)
             THEN Stop(m, Err(IF program[f].is_var_arg THEN "UnsupportedInstruction" ELSE "MalformedInstruction"))
             ELSE LET e == [m EXCEPT !.frames = Append(@, [loc |-> m.loc, env |-> m.env]),
                                     !.loc = Start(f), !.env = <<>>]
                      s == SetAll(e, program[f].params, args, 1)
                  IN  IF s.out # Running THEN s ELSE Continue(s, Start(f))
        ELSE IF config.default_hook = "none" THEN Stop(m, Err("FunctionNotFound"))
        ELSE Hook(m, config.default_hook, ins, args, i)

NullAt(addr) == addr = 0 /\ config.null_pointer_checking # "None"

Execute(m, i) ==
    LET ins == InstrAt(m.loc)
        arg == [j \in 1..Len(ins.args) |-> Eval(m, ins.args[j])]
        Result(v) == LET s == Set(m, ins.dest, v) IN
                     IF s.out # Running THEN s ELSE [s EXCEPT !.loc = Inc(@)]
    IN  CASE m.loc \in config.failing_callbacks -> Stop(m, Err("Callback"))
          [] ins.op = "data"  -> Result(Apply(ins.fn, arg))
          [] ins.op = "phi"   -> Result(Eval(m, ins.incoming[m.prev]))
          [] ins.op \in {"load", "store"} /\ NullAt(arg[1]) -> Stop(m, Err("NullPointerDereference"))
          [] ins.op = "load"  -> Result(m.mem[arg[1]])
          [] ins.op = "store" -> [m EXCEPT !.mem[arg[1]] = arg[2], !.loc = Inc(@)]
          [] ins.op \in {"call", "invoke"} -> CallIns(m, ins, i)
          [] ins.op = "landingpad"  -> Stop(m, Err("UnsupportedInstruction"))
          [] ins.op = "unreachable" -> Stop(m, Err("UnreachableInstruction"))
          [] ins.op = "ret" -> ReturnFrom(m, IF arg = <<>> THEN ReturnVoid ELSE [tag |-> "Return", val |-> arg[1]])
          [] ins.op = "resume" -> Raise(m, arg[1].ptr, i)
          [] ins.op = "br"     -> Jump(m, ins.dest)
          [] ins.op = "condbr" -> Jump(m, IF arg[1] # 0 THEN ins.true_dest ELSE ins.false_dest)
          [] ins.op = "switch" ->
               LET hits == {j \in 1..Len(ins.dests) : ins.dests[j].val = arg[1]}
               IN  Jump(m, IF hits = {} THEN ins.default_dest ELSE ins.dests[CHOOSE j \in hits : TRUE].bb)

RECURSIVE RunFor(_, _, _)
RunFor(m, i, steps) ==
    IF m.out # Running \/ steps = 0 THEN m ELSE RunFor(Execute(m, i), i, steps - 1)

\* The final machine on input i: its outcome out, and the trace of segments.
Run(i) ==
    LET f  == scenario.start
        ps == program[f].params
    IN  RunFor([loc |-> Start(f), prev |-> 0, frames |-> <<>>, out |-> Running,
                env |-> [n \in {ps[j] : j \in 1..Len(ps)} |-> i[<<f, n, 0>>]],
                ver |-> [k \in {<<f, ps[j]>> : j \in 1..Len(ps)} |-> 0],
                mem |-> [a \in Val |-> IF <<"mem", a>> \in Sym THEN i[<<"mem", a>>] ELSE 0],
                trace |-> <<Start(f)>>, rethrown |-> FALSE], i, MaxSteps)
-----------------------------------------------------------------------------
\* A result describes every input on its path: the value is the one that the
\* function returns or throws, with the caller's variables restored after
\* calls and memory as it was when a backtracking point was saved.
ResultSound ==
    Answered /\ ctl.res.tag \in {"Return", "ReturnVoid", "Throw", "Abort"} =>
        \A i \in Top(solver) :
            LET out == Run(i).out IN
            /\ out.tag = ctl.res.tag
            /\ ctl.res.tag \in {"Return", "Throw"} => out.val = ctl.res.bv[i]

\* An error describes every input on its path, except that a path ends with
\* NullPointerDereference or FailedToResolveFunctionPointer as soon as one of
\* its inputs meets it, and that a call through a pointer is given up only if
\* two inputs have different targets there.
ErrorSound ==
    Answered /\ ctl.res.tag = "Err" =>
        LET Meets(i) == Run(i).out = ctl.res
            ptr      == OperandToBV(Instr.callee)
        IN  CASE ctl.res.err \in {"NullPointerDereference", "FailedToResolveFunctionPointer"} ->
                     \E i \in Top(solver) : Meets(i)
              [] ctl.res.err = "MultipleTargets" ->
                     \E i, j \in Top(solver) : funcs[ptr[i]] # funcs[ptr[j]]
              [] OTHER -> \A i \in Top(solver) : Meets(i)

\* The path log is what every input on the path executes, in order: the
\* blocks entered, and the places where they are resumed after a call.
PathFaithful ==
    Answered /\ ctl.res.tag \in {"Return", "ReturnVoid", "Throw"} =>
        \A i \in Top(solver) : Run(i).trace = path

\* The same where exceptions are thrown and caught, for the inputs whose
\* exception meets no plain call on its way: after such a call the log also
\* holds the place after it, which the program does not reach.
CaughtPathFaithful ==
    Answered /\ ctl.res.tag \in {"Return", "ReturnVoid", "Throw"} =>
        \A i \in Top(solver) : LET m == Run(i) IN m.rethrown \/ m.trace = path
=============================================================================
