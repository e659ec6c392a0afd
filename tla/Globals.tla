------------------------------ MODULE Globals ------------------------------
(***************************************************************************)
(* A path that uses globals: references, stores and loads, calls by name   *)
(* and through pointers, and the contents of the global variables.         *)
(*                                                                         *)
(* A global is initialised when a path first refers to it: const_to_bv of  *)
(* the reference evaluates the initializer, which may refer to other       *)
(* globals in turn, and writes it to memory.  The flag that says that this *)
(* was done is part of `global_allocations`, the contents are part of      *)
(* `mem`; a backtracking point saves `mem` and the location.               *)
(***************************************************************************)
EXTENDS Linking

CONSTANTS Unsupported,  \* an element of an initializer that const_to_bv has no rule for
          Stored,       \* the values that programs store into globals
          MaxDepth      \* bound: the depth of the callstack

ASSUME StoredAssumption ==
    /\ Stored \subseteq Seq(Nat) \ {<<>>}
    /\ \A p \in Projects : p.stores \subseteq Stored
    /\ \A p \in Projects : \A a \in DOMAIN p.defs :
          /\ p.defs[a].module \in Modules
          /\ Len(p.defs[a].init) \in Nat
          /\ DOMAIN p.defs[a].init = 1..Len(p.defs[a].init)

VARIABLES cur_module,        \* `State.cur_loc.module`
          callstack,         \* the modules of `State.stack`
          mem,               \* what the memory of each global variable holds
          initialized,       \* the addresses of the globals whose flag is set
          evaluating,        \* the activations of const_to_bv, the outermost first
          storing,           \* what the current instruction stores, or Nothing
          backtrack_points,  \* `State.backtrack_points`
          failed,            \* an error has ended the current path
          ptr,               \* the last pointer that the path computed
          called,            \* history: what the call in the last step resolved to
          referenced,        \* history: the globals this path has referred to
          stored             \* history: what this path last stored in each global

control == <<cur_module, callstack, ptr, called>>
operand == <<evaluating, storing>>
history == <<referenced, stored>>
vars    == <<env, control, mem, initialized, operand, backtrack_points, failed, history>>

\* Contents are sequences of pointers and other values.
Uninitialized == <<>>
Nothing       == <<>>
NoCall        == [by |-> "nothing"]

Init ==
    /\ LinkInit
    /\ cur_module \in Modules
    /\ callstack = <<>>
    /\ mem = [a \in Vars |-> Uninitialized]
    /\ initialized = {}
    /\ evaluating = <<>>
    /\ storing = Nothing
    /\ backtrack_points = <<>>
    /\ failed = FALSE
    /\ ptr = NoAddr
    /\ called = NoCall
    /\ referenced = {}
    /\ stored = [a \in Vars |-> Nothing]

\* One step of State::new.
New ==
    /\ AllocateDefinition \/ \E h \in AllHooks(fh) : AllocateHook(h)
    /\ UNCHANGED <<control, mem, initialized, operand, backtrack_points, failed, history>>

\* State::new is over and a path is being executed, at the start of an
\* instruction.
Running == Created /\ ~failed /\ evaluating = <<>>
-----------------------------------------------------------------------------
\* The address that the name n stands for in the module m, through aliases.
Meaning(n, m) == GetGlobalAllocation(ga, Unaliased(ga, project.aliases, n, m), m)

\* An activation of const_to_bv for the operand of an instruction, then of is
\* NoAddr, or for the initializer of the global at the address of.  It has the
\* constants to evaluate, the values of the first ones, and whether they were
\* all Ok.
Activation(of, consts) == [of |-> of, consts |-> consts, vals |-> <<>>, ok |-> TRUE]

Innermost == evaluating[Len(evaluating)]
Complete  == Len(Innermost.vals) = Len(Innermost.consts)

\* Mutant: the first element ends up last.
ConcatReversed(vals, v) == <<v>> \o vals

\* The value of an aggregate, one element at a time: b.concat(&a).
Concat(vals, v) == Append(vals, v)

\* The innermost of the activations s has the value of its next constant.
\* Every element is evaluated, and the answer is an error if one of them was.
WithValue(s, v, ok) == [s EXCEPT ![Len(s)].vals = Concat(@, v), ![Len(s)].ok = @ /\ ok]

\* Mutant: the flag only prevents an infinite loop.
NotBeingInitialized(a) == a \in Vars /\ \A k \in DOMAIN evaluating : evaluating[k].of # a

\* A global variable whose flag is not set.
NeedsInitializer(a) == a \in Vars \ initialized

\* const_to_bv of the next constant, a reference.  Its name is resolved in the
\* module of the current location, in the initializer of another module's
\* variable too.  The flag of a variable that it refers to is set before the
\* initializer is evaluated.
EvaluateConstant ==
    /\ evaluating # <<>>
    /\ ~Complete
    /\ LET a == Meaning(Innermost.consts[Len(Innermost.vals) + 1], cur_module)
       IN  IF NeedsInitializer(a)
           THEN /\ initialized' = initialized \cup {a}
                /\ evaluating' = Append(evaluating, Activation(a, defs[a].init))
           ELSE /\ evaluating' = WithValue(evaluating, a, a # NoAddr)
                /\ UNCHANGED initialized
    /\ UNCHANGED <<env, control, mem, storing, backtrack_points, failed, history>>

\* The value of an initializer is written, and const_to_bv returns.
WriteInitializer ==
    /\ Len(evaluating) > 1
    /\ Complete
    /\ mem' = IF Innermost.ok THEN [mem EXCEPT ![Innermost.of] = Innermost.vals] ELSE mem
    /\ evaluating' = WithValue(SubSeq(evaluating, 1, Len(evaluating) - 1), Innermost.of, Innermost.ok)
    /\ UNCHANGED <<env, control, initialized, storing, backtrack_points, failed, history>>

\* An instruction refers to the name n, to compute its address or to store v in
\* the variable of that name.
EvaluateOperand(n, v) ==
    /\ Running
    /\ v # Nothing => Meaning(n, cur_module) \in Vars \cup {NoAddr}
    /\ evaluating' = <<Activation(NoAddr, <<n>>)>>
    /\ storing' = v
    /\ called' = NoCall
    /\ UNCHANGED <<env, cur_module, callstack, ptr, mem, initialized, backtrack_points, failed, history>>

\* The rest of the instruction, once its operand has been evaluated.  An error
\* ends the path.
Execute ==
    LET ok == Innermost.ok
        a  == Innermost.vals[1]
    IN  /\ Len(evaluating) = 1
        /\ Complete
        /\ failed' = ~ok
        /\ ptr' = IF ok /\ storing = Nothing THEN a ELSE ptr
        /\ mem' = IF ok /\ storing # Nothing THEN [mem EXCEPT ![a] = storing] ELSE mem
        /\ stored' = IF ok /\ storing # Nothing THEN [stored EXCEPT ![a] = storing] ELSE stored
        /\ referenced' = IF ok THEN referenced \cup ({a} \cap Vars) ELSE referenced
        /\ evaluating' = <<>>
        /\ storing' = Nothing
        /\ UNCHANGED <<env, cur_module, callstack, called, initialized, backtrack_points>>

\* A load of the k-th pointer that the variable at ptr holds.
LoadPointer(k) ==
    /\ Running
    /\ ptr \in Vars
    /\ mem[ptr] \notin Stored \cup {Uninitialized}
    /\ k \in DOMAIN mem[ptr]
    /\ ptr' = mem[ptr][k]
    /\ called' = NoCall
    /\ UNCHANGED <<env, cur_module, callstack, mem, initialized, operand, backtrack_points, failed, history>>
-----------------------------------------------------------------------------
\* `get_pointer_to_function_hook`, from the code of a hook.
GetPointerToHook(n) ==
    /\ Running
    /\ GetHookFor(fh, n) \in DOMAIN ga.allocated_hooks
    /\ ptr' = ga.allocated_hooks[GetHookFor(fh, n)]
    /\ called' = NoCall
    /\ UNCHANGED <<env, cur_module, callstack, mem, initialized, operand, backtrack_points, failed, history>>

\* The code of a hook, or the consumer, changes the hooks.
Configure ==
    /\ Running
    /\ HooksChange
    /\ called' = NoCall
    /\ UNCHANGED <<cur_module, callstack, ptr, mem, initialized, operand, backtrack_points, failed, history>>

\* symex_call after the resolution r: run the hook, enter the function, or
\* answer with an error.
EnterCall(by, r) ==
    LET hook == IF r.hook = NoHook /\ r.target = NoAddr THEN fh.default ELSE r.hook
    IN  /\ r.target \in Vars \cup {NoAddr} \/ Len(callstack) < MaxDepth
        /\ called' = [by |-> by, ptr |-> ptr, module |-> cur_module, hook |-> hook, target |-> r.target]
        /\ panicked' = (r.target \in Vars)
        /\ failed' = (r.target = NoAddr /\ hook = NoHook)
        /\ IF r.target \in 1..Len(defs) \ Vars
           THEN /\ callstack' = Append(callstack, cur_module)
                /\ cur_module' = defs[r.target].module
           ELSE UNCHANGED <<cur_module, callstack>>
        /\ UNCHANGED <<project, fh, ga, next_addr, ptr, mem, initialized, operand, backtrack_points, history>>

\* A call of a function by its name.
CallName(n) == Running /\ EnterCall("name", ResolveName(n, cur_module))

\* A call through the pointer.  An address at which there is no function is an
\* error, with or without a default hook.
CallPointer ==
    /\ Running
    /\ ptr # NoAddr
    /\ IF GetFuncForAddress(ga, ptr, cur_module) = NoCallable
       THEN /\ failed' = TRUE
            /\ called' = NoCall
            /\ UNCHANGED <<env, cur_module, callstack, ptr, mem, initialized, operand, backtrack_points, history>>
       ELSE EnterCall("pointer", ResolvePointer(ptr, cur_module))

\* A call of inline assembly: its hook, or an error.
CallInlineAsm ==
    /\ Running
    /\ failed' = (fh.inline_asm = NoHook)
    /\ called' = [by |-> "asm", ptr |-> ptr, module |-> cur_module, hook |-> fh.inline_asm, target |-> NoAddr]
    /\ UNCHANGED <<env, cur_module, callstack, ptr, mem, initialized, operand, backtrack_points, history>>

\* The called function returns.
Return ==
    /\ Running
    /\ callstack # <<>>
    /\ cur_module' = callstack[Len(callstack)]
    /\ callstack' = SubSeq(callstack, 1, Len(callstack) - 1)
    /\ called' = NoCall
    /\ UNCHANGED <<env, ptr, mem, initialized, operand, backtrack_points, failed, history>>
-----------------------------------------------------------------------------
\* `save_backtracking_point`.  The pointer is a local variable.
SaveBacktrackingPoint ==
    /\ Running
    /\ Len(backtrack_points) < project.points
    /\ backtrack_points' =
           Append(backtrack_points,
                  [cur_module |-> cur_module, callstack |-> callstack, ptr |-> ptr, mem |-> mem,
                   referenced |-> referenced, stored |-> stored])
    /\ called' = NoCall
    /\ UNCHANGED <<env, cur_module, callstack, ptr, mem, initialized, operand, failed, history>>

\* `revert_to_backtracking_point`, at the end of the path or after its error.
RevertToBacktrackingPoint ==
    LET bp == backtrack_points[Len(backtrack_points)]
    IN  /\ ~panicked
        /\ evaluating = <<>>
        /\ backtrack_points # <<>>
        /\ backtrack_points' = SubSeq(backtrack_points, 1, Len(backtrack_points) - 1)
        /\ cur_module' = bp.cur_module
        /\ callstack' = bp.callstack
        /\ ptr' = bp.ptr
        /\ mem' = bp.mem
        /\ referenced' = bp.referenced
        /\ stored' = bp.stored
        /\ failed' = FALSE
        /\ called' = NoCall
        /\ UNCHANGED <<env, initialized, operand>>

Next ==
    \/ New
    \/ \E n \in Names, v \in project.stores \cup {Nothing} : EvaluateOperand(n, v)
    \/ EvaluateConstant
    \/ WriteInitializer
    \/ Execute
    \/ \E n \in Names : GetPointerToHook(n) \/ CallName(n)
    \/ \E k \in 1..2 : LoadPointer(k)
    \/ Configure
    \/ CallPointer
    \/ CallInlineAsm
    \/ Return
    \/ SaveBacktrackingPoint
    \/ RevertToBacktrackingPoint

Spec == Init /\ [][Next]_vars
-----------------------------------------------------------------------------
\* A call through a pointer that comes from another module, by way of a global
\* variable or of a local one, enters the function at that address; except
\* that a private function of the calling module takes the place of a public
\* one with the same name.
PointerCallsEnter ==
    called.by = "pointer" /\ called.target # NoAddr =>
        \/ called.target = called.ptr
        \/ /\ defs[called.target].linkage = "private"
           /\ defs[called.target].module = called.module
           /\ defs[called.target].name = defs[called.ptr].name

IsInitial(a) == mem[a] \notin Stored \cup {Uninitialized}

\* The pointers in an initialised global are those that its initializer stands
\* for in the module that defines it, even if another module's code referred
\* to it first; except for names that the modules resolve differently.
ContentsMeant ==
    \A a \in Vars : IsInitial(a) =>
        \A k \in DOMAIN defs[a].init :
            \/ mem[a][k] = Meaning(defs[a].init[k], defs[a].module)
            \/ \E m \in Modules : Meaning(defs[a].init[k], m) # Meaning(defs[a].init[k], defs[a].module)

\* Lazy initialisation never undoes a store: a global that the path has stored
\* to still holds that value, whichever globals and initializers that refer to
\* it are referred to later, and whatever other paths did in between.
StoresSurvive == \A a \in Vars : stored[a] # Nothing => mem[a] = stored[a]

\* What the comments on lazy initialisation say: a global that the current
\* path has referred to has been initialised.
ReferencedInitialized == ~failed => \A a \in referenced : mem[a] # Uninitialized

\* What the comment on the parameter of get_global_allocation says: a name is
\* resolved in the module in which it appeared, here that of the initializer.
InitializerModule ==
    \A a \in Vars : IsInitial(a) =>
        \A k \in DOMAIN defs[a].init : mem[a][k] = Meaning(defs[a].init[k], defs[a].module)

\* What the comment in resolve_function says: calls by name would work the same
\* through the pointer, had they no case of their own.
NamesAgreeWithPointers ==
    Running =>
        \A n \in Names :
            ResolveName(n, cur_module) =
            IF Meaning(n, cur_module) # NoAddr THEN ResolvePointer(Meaning(n, cur_module), cur_module)
            ELSE [hook |-> NoHook, target |-> NoAddr]
=============================================================================
