------------------------- MODULE GlobalAllocations -------------------------
(***************************************************************************)
(* `GlobalAllocations`: which name means which address in which module,    *)
(* and which function is at which address.                                 *)
(*                                                                         *)
(* A definition is a record with its module, name, kind ("var" or "fn")    *)
(* and linkage: "private" (Private, Internal), "external", "weak" (the     *)
(* seven linkages that the code treats as weak), "appending" or "other"    *)
(* (the ones that the code does not know).                                 *)
(***************************************************************************)
EXTENDS Maps, Sequences, Naturals

NoAddr == 0

\* `Callable`: the engine goes on with the name of the function that it found
\* at an address, or with the hook itself.
LLVMFunction(name) == [kind |-> "function", name |-> name]
FunctionHook(id)   == [kind |-> "hook", id |-> id]
NoCallable         == [kind |-> "none"]

\* `GlobalAllocations::new`.
NewAllocations ==
    [allocated_globals                |-> <<>>,
     module_private_allocated_globals |-> <<>>,
     addr_to_function                 |-> <<>>,
     module_private_addr_to_function  |-> <<>>,
     allocated_hooks                  |-> <<>>]

\* Mutant: a weak definition replaces what is there.
AllocationOfReplacing(ga, d) ==
    IF d.linkage = "private" THEN "ModulePrivate" ELSE "Public"

\* What becomes of the definition d: the result of `allocate_global`, or the
\* panic about two definitions that exclude each other, or about a linkage
\* that is not implemented.
AllocationOf(ga, d) ==
    CASE d.linkage = "private" ->
           IF <<d.module, d.name>> \in DOMAIN ga.module_private_allocated_globals
           THEN "panic" ELSE "ModulePrivate"
      [] d.linkage = "external" ->
           IF d.name \in DOMAIN ga.allocated_globals /\ ga.allocated_globals[d.name].strong
           THEN "panic" ELSE "Public"
      [] d.linkage = "weak" ->
           IF d.name \in DOMAIN ga.allocated_globals THEN "NoAllocate" ELSE "Public"
      [] d.linkage = "appending" -> "NoAllocate"
      [] d.linkage = "other" -> "panic"

\* `allocate_global` of the definition d at the address a.
AllocateGlobal(ga, d, a) ==
    CASE AllocationOf(ga, d) = "ModulePrivate" ->
           [ga EXCEPT !.module_private_allocated_globals = Insert(@, <<d.module, d.name>>, a)]
      [] AllocationOf(ga, d) = "Public" ->
           [ga EXCEPT !.allocated_globals =
                Insert(@, d.name, [strong |-> d.linkage = "external", addr |-> a])]
      [] OTHER -> ga

\* `allocate_function`: also the reverse map.
AllocateFunction(ga, d, a) ==
    LET al == AllocateGlobal(ga, d, a)
    IN  CASE AllocationOf(ga, d) = "ModulePrivate" ->
               [al EXCEPT !.module_private_addr_to_function =
                    Insert(@, <<d.module, a>>, LLVMFunction(d.name))]
          [] AllocationOf(ga, d) = "Public" ->
               [al EXCEPT !.addr_to_function = Insert(@, a, LLVMFunction(d.name))]
          [] OTHER -> al

\* `allocate_function_hook`.
AllocateFunctionHook(ga, id, a) ==
    [ga EXCEPT !.allocated_hooks = Insert(@, id, a),
               !.addr_to_function = Insert(@, a, FunctionHook(id))]

\* `get_global_allocation`: a private definition of the module, then a public one.
GetGlobalAllocation(ga, name, module) ==
    IF <<module, name>> \in DOMAIN ga.module_private_allocated_globals
    THEN ga.module_private_allocated_globals[<<module, name>>]
    ELSE IF name \in DOMAIN ga.allocated_globals THEN ga.allocated_globals[name].addr ELSE NoAddr

\* The name that n stands for in the module: a name without an allocation is
\* looked up among the module's aliases.
Unaliased(ga, aliases, n, module) ==
    LET AliasesOf(x) == {al \in aliases : al.module = module /\ al.name = x}
        unaliased[x \in {n} \cup {al.aliasee : al \in aliases}] ==
            IF GetGlobalAllocation(ga, x, module) # NoAddr \/ AliasesOf(x) = {} THEN x
            ELSE unaliased[(CHOOSE al \in AliasesOf(x) : TRUE).aliasee]
    IN  unaliased[n]

\* Mutant: only public functions can be found by address.
PublicFuncForAddress(ga, a, module) ==
    IF a \in DOMAIN ga.addr_to_function THEN ga.addr_to_function[a] ELSE NoCallable

\* `get_func_for_address`.
GetFuncForAddress(ga, a, module) ==
    IF a \in DOMAIN ga.addr_to_function THEN ga.addr_to_function[a]
    ELSE IF <<module, a>> \in DOMAIN ga.module_private_addr_to_function
    THEN ga.module_private_addr_to_function[<<module, a>>] ELSE NoCallable
=============================================================================
