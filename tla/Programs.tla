------------------------------ MODULE Programs ------------------------------
(***************************************************************************)
(* Notation for the small programs that the model-checking modules feed to *)
(* ExecutionManager.                                                       *)
(***************************************************************************)
EXTENDS Naturals, Sequences

Const(v) == [kind |-> "const", val |-> v]
Var(n)   == [kind |-> "var", name |-> n]

Data(dest, fn, args)     == [op |-> "data", dest |-> dest, fn |-> fn, args |-> args]
LoadFrom(dest, addr)     == [op |-> "load", dest |-> dest, args |-> <<addr>>]
StoreTo(addr, val)       == [op |-> "store", args |-> <<addr, val>>]
PhiOf(dest, incoming)    == [op |-> "phi", dest |-> dest, incoming |-> incoming, args |-> <<>>]
Named(f)                 == [kind |-> "fn", name |-> f]
Call(dest, f, args)      == [op |-> "call", dest |-> dest, callee |-> Named(f), args |-> args]
CallPtr(dest, ptr, args) == [op |-> "call", dest |-> dest, callee |-> ptr, args |-> args]
Pad(dest)                == [op |-> "landingpad", dest |-> dest, args |-> <<>>]

RetVal(v)            == [op |-> "ret", args |-> <<v>>]
RetVoid              == [op |-> "ret", args |-> <<>>]
Goto(bb)             == [op |-> "br", dest |-> bb, args |-> <<>>]
If(cond, bb1, bb2)   == [op |-> "condbr", args |-> <<cond>>, true_dest |-> bb1, false_dest |-> bb2]
Case(v, bb)          == [val |-> v, bb |-> bb]
SwitchOn(v, dests, bb) == [op |-> "switch", args |-> <<v>>, dests |-> dests, default_dest |-> bb]
Invoke(dest, f, args, bb1, bb2) ==
    [op |-> "invoke", dest |-> dest, callee |-> Named(f), args |-> args,
     return_label |-> bb1, exception_label |-> bb2]
ResumeWith(v)        == [op |-> "resume", args |-> <<v>>]
Unreachable          == [op |-> "unreachable", args |-> <<>>]

Block(instrs, term) == [instrs |-> instrs, term |-> term]
Fn(params, blocks)  == [params |-> params, blocks |-> blocks, is_var_arg |-> FALSE]
Variadic(fn)        == [fn EXCEPT !.is_var_arg = TRUE]

\* The hooks that a program may call by these names.
Hooks == [assume |-> "assume", abort |-> "abort", throw |-> "throw", stub |-> "stub"]

Config == [loop_bound |-> 3, squash_unsats |-> TRUE, max_callstack_depth |-> 9,
           null_pointer_checking |-> "None", trust_llvm_assumes |-> TRUE,
           hooks |-> Hooks, default_hook |-> "none", failing_callbacks |-> {}]

Scenario(fns, conf) ==
    [program |-> fns, funcs |-> [a \in {} |-> ""], config |-> conf, start |-> "main"]
=============================================================================
