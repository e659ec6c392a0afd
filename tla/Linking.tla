------------------------------ MODULE Linking ------------------------------
(***************************************************************************)
(* Names, addresses and hooks: how State::new allocates the definitions of *)
(* a project, and what a name or an address means to a call afterwards.    *)
(*                                                                         *)
(* The addresses are the positions in the order of allocation.             *)
(***************************************************************************)
EXTENDS GlobalAllocations, FunctionHooks

CONSTANTS Projects,    \* the projects to choose from: records with defs (the
                       \* definitions, variables before functions, in the
                       \* order of the modules), aliases, and hooked (the
                       \* function hooks that the configuration starts with),
                       \* declared (names declared only), hookable (names that
                       \* hooks are added for), stores (the values stored) and
                       \* points (a bound on the backtracking points at once)
          Modules,     \* the modules
          Intrinsics,  \* the names that have one of the prefixes of the built-in hooks
          MaxHooks     \* bound: the number of hooks ever added

ASSUME ProjectsAssumption ==
    \A p \in Projects :
        /\ Len(p.defs) \in Nat
        /\ DOMAIN p.defs = 1..Len(p.defs)
        /\ \A a \in DOMAIN p.defs :
              /\ p.defs[a].kind \in {"var", "fn"}
              /\ p.defs[a].linkage \in {"private", "external", "weak", "appending", "other"}

VARIABLES project,    \* the `Project`
          fh,         \* `config.function_hooks`
          ga,         \* `State.global_allocations`, without the flags
          next_addr,  \* the address that `alloc` gives out next
          panicked    \* State::new or a call has panicked

env == <<project, fh, ga, next_addr, panicked>>

defs == project.defs

Vars == {a \in 1..Len(defs) : defs[a].kind = "var"}

LinkInit ==
    /\ project \in Projects
    /\ fh = project.hooked
    /\ ga = NewAllocations
    /\ next_addr = 1
    /\ panicked = FALSE

\* One round of the loops of State::new over the global variables and over the
\* functions.
AllocateDefinition ==
    LET d == defs[next_addr]
    IN  /\ ~panicked
        /\ next_addr <= Len(defs)
        /\ panicked' = (AllocationOf(ga, d) = "panic")
        /\ ga' = IF panicked' THEN ga
                 ELSE IF d.kind = "var" THEN AllocateGlobal(ga, d, next_addr)
                 ELSE AllocateFunction(ga, d, next_addr)
        /\ next_addr' = next_addr + 1
        /\ UNCHANGED <<project, fh>>

Unallocated == AllHooks(project.hooked) \ DOMAIN ga.allocated_hooks

\* One round of the loop over the hooks, which come in any order.
AllocateHook(h) ==
    /\ ~panicked
    /\ next_addr > Len(defs)
    /\ h \in Unallocated
    /\ ga' = AllocateFunctionHook(ga, h, next_addr)
    /\ next_addr' = next_addr + 1
    /\ UNCHANGED <<project, fh, panicked>>

\* State::new is over.
Created == ~panicked /\ next_addr > Len(defs) /\ Unallocated = {}

\* The configuration belongs to the State and may change while it is used.
ChangeHooks(new) ==
    /\ Created
    /\ new.cur_id <= MaxHooks + 1
    /\ fh' = new
    /\ UNCHANGED <<project, ga, next_addr, panicked>>

HooksChange ==
    \/ \E map \in {"hooks", "rust", "cpp"}, n \in project.hookable :
           ChangeHooks(Add(fh, map, n)) \/ ChangeHooks(Remove(fh, map, n))
    \/ \E slot \in {"inline_asm", "default"} :
           project.hookable # {} /\ (ChangeHooks(AddSpecial(fh, slot)) \/ ChangeHooks(RemoveSpecial(fh, slot)))

\* A call that panics: its name is that of a variable, see module Globals.
CallPanics == Created /\ panicked' = TRUE /\ UNCHANGED <<project, fh, ga, next_addr>>

LinkNext ==
    \/ AllocateDefinition
    \/ \E h \in AllHooks(fh) : AllocateHook(h)
    \/ HooksChange
    \/ CallPanics

LinkSpec == LinkInit /\ [][LinkNext]_env
-----------------------------------------------------------------------------
\* A built-in hook, of `State.intrinsic_hooks`.
IntrinsicHook == 1000

\* The hook for the name n: one of the configuration, or a built-in one.
HookFor(n) ==
    IF GetHookFor(fh, n) # NoHook THEN GetHookFor(fh, n)
    ELSE IF n \in Intrinsics THEN IntrinsicHook ELSE NoHook

\* What a call of the function named n does in the module m: a hook for the
\* name, or the definition that prevails there.
ResolveName(n, m) ==
    [hook |-> HookFor(n), target |-> IF HookFor(n) # NoHook THEN NoAddr ELSE GetGlobalAllocation(ga, n, m)]

\* Mutant: the name found at the address is taken for that of a public function.
ResolvePublic(a, m) ==
    LET c == GetFuncForAddress(ga, a, m)
    IN  IF c.kind = "function" /\ c.name \in DOMAIN ga.allocated_globals
        THEN [hook |-> HookFor(c.name), target |-> IF HookFor(c.name) # NoHook THEN NoAddr ELSE ga.allocated_globals[c.name].addr]
        ELSE [hook |-> NoHook, target |-> NoAddr]

\* The same for a call through a pointer with the value a: what is found at
\* the address, which is a hook or the name of a function.
ResolvePointer(a, m) ==
    LET c == GetFuncForAddress(ga, a, m)
    IN  CASE c.kind = "hook" -> [hook |-> c.id, target |-> NoAddr]
          [] c.kind = "function" -> ResolveName(c.name, m)
          [] c.kind = "none" -> [hook |-> NoHook, target |-> NoAddr]
-----------------------------------------------------------------------------
Names == {defs[a].name : a \in DOMAIN defs} \cup {al.name : al \in project.aliases} \cup project.declared

Allocated == ~panicked /\ next_addr > Len(defs)

\* The definitions of the name n with the given linkage, by their addresses.
Definitions(n, linkage) == {a \in DOMAIN defs : defs[a].name = n /\ defs[a].linkage = linkage}

\* "Two strong definitions is an error; one strong and one weak definition,
\* the strong definition wins", and a module's private definition comes before
\* both, whatever the order of the modules in the Project.
StrongPrevails ==
    Allocated =>
        \A m \in Modules, n \in Names :
            LET a       == GetGlobalAllocation(ga, n, m)
                private == {d \in Definitions(n, "private") : defs[d].module = m}
                strong  == Definitions(n, "external")
            IN  IF private # {} THEN private = {a}
                ELSE IF strong # {} THEN strong = {a}
                ELSE a \in Definitions(n, "weak") \/ (a = NoAddr /\ Definitions(n, "weak") = {})

\* A function that is called through a pointer that the same module made for
\* its name is the one that a call by name enters, whether it is hooked or
\* not; and the address of a hook leads to that hook.
PointersAgreeWithNames ==
    Allocated =>
        /\ \A m \in Modules, n \in Names :
               LET a == GetGlobalAllocation(ga, n, m)
               IN  a \in DOMAIN defs \ Vars => ResolvePointer(a, m) = ResolveName(n, m)
        /\ \A h \in DOMAIN ga.allocated_hooks, m \in Modules :
               ResolvePointer(ga.allocated_hooks[h], m) = [hook |-> h, target |-> NoAddr]
=============================================================================
