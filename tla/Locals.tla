------------------------------- MODULE Locals -------------------------------
(***************************************************************************)
(* The local variables of a `State` along one path: a VarMap shared by all *)
(* activations of all functions, and a callstack whose frames remember the *)
(* caller's versions.  `env` and the env of a frame are history: what the  *)
(* variables of that activation should stand for.                          *)
(***************************************************************************)
EXTENDS VarMap, Sequences

CONSTANTS Funcs,      \* function names
          Names,      \* variable names
          BVs,        \* bitvectors
          LoopBound,  \* `Config.loop_bound`
          MaxDepth,   \* bound: the deepest callstack
          MaxNamed    \* bound: the number of named bitvectors created

ASSUME LoopBoundAssumption == LoopBound \in Nat \ {0}
ASSUME MaxAssumption == MaxDepth \in Nat /\ MaxNamed \in Nat

VARIABLES func,    \* the current function
          varmap,  \* `State.varmap`
          stack,   \* `State.stack`
          env,     \* history: the variables of the current activation
          named,   \* history: the named bitvectors created, as <<func, name, version>>
          ended    \* the loop bound was exceeded, which ends the path

local_vars == <<func, varmap, stack, env, named, ended>>

Empty == [k \in {} |-> 0]

LocalsInit ==
    /\ func \in Funcs
    /\ varmap = [active |-> Empty, version |-> Empty]
    /\ stack = <<>>
    /\ env = Empty
    /\ named = <<>>
    /\ ended = FALSE

\* `assign_bv_to_name`, of a variable of the current function.
Assign(n, bv) ==
    LET ok == FitsLoopBound(varmap, <<func, n>>, LoopBound)
    IN  /\ ~ended
        /\ varmap' = AssignBvToName(varmap, <<func, n>>, bv, LoopBound)
        /\ env' = IF ok THEN Insert(env, n, bv) ELSE env
        /\ ended' = ~ok
        /\ UNCHANGED <<func, stack, named>>

\* `new_bv_with_name`: the new bitvector bv takes the next version of the name.
NewBv(n, bv) ==
    LET k == <<func, n>>
    IN  /\ Len(named) < MaxNamed
        /\ ~ended
        /\ varmap' = AssignBvToName(varmap, k, bv, LoopBound)
        /\ ended' = ~FitsLoopBound(varmap, k, LoopBound)
        /\ env' = IF ended' THEN env ELSE Insert(env, n, bv)
        /\ named' = IF ended' THEN named ELSE Append(named, <<func, n, NewVersionNum(varmap, k)>>)
        /\ UNCHANGED <<func, stack>>

\* `overwrite_latest_version_of_bv`, of a variable that has a version.
Overwrite(n, bv) ==
    /\ ~ended
    /\ n \in DOMAIN env
    /\ varmap' = OverwriteLatestVersion(varmap, <<func, n>>, bv)
    /\ env' = Insert(env, n, bv)
    /\ UNCHANGED <<func, stack, named, ended>>

\* `push_callsite` or `push_invokesite`, on entering f.
PushCallsite(f) ==
    /\ ~ended
    /\ Len(stack) < MaxDepth
    /\ stack' = Append(stack, [func |-> func, restore_info |-> RestoreInfoFor(varmap, func), env |-> env])
    /\ func' = f
    /\ env' = Empty
    /\ UNCHANGED <<varmap, named, ended>>

\* `pop_callsite`, on going back to the caller.
PopCallsite ==
    LET frame == stack[Len(stack)]
    IN  /\ ~ended
        /\ stack # <<>>
        /\ stack' = SubSeq(stack, 1, Len(stack) - 1)
        /\ varmap' = RestoreFnVars(varmap, frame.restore_info)
        /\ func' = frame.func
        /\ env' = frame.env
        /\ UNCHANGED <<named, ended>>

LocalsNext ==
    \/ \E n \in Names, bv \in BVs : Assign(n, bv) \/ NewBv(n, bv) \/ Overwrite(n, bv)
    \/ \E f \in Funcs : PushCallsite(f)
    \/ PopCallsite

LocalsSpec == LocalsInit /\ [][LocalsNext]_local_vars
-----------------------------------------------------------------------------
Keys == Funcs \X Names

\* The maps with keys in D and values in R.
MapsOf(D, R) == UNION {[S -> R] : S \in SUBSET D}

Frame == [func : Funcs, restore_info : MapsOf(Keys, BVs), env : MapsOf(Names, BVs)]

\* The types of the variables and of the callstack; no version number goes
\* past the one that exceeds the loop bound.
LocalsTyped ==
    /\ func \in Funcs
    /\ varmap = [active |-> varmap.active, version |-> varmap.version]
    /\ varmap.active \in MapsOf(Keys, BVs)
    /\ varmap.version \in MapsOf(Keys, 0..LoopBound)
    /\ stack \in Seq(Frame)
    /\ env \in MapsOf(Names, BVs)
    /\ named \in Seq(Funcs \X Names \X Nat)
    /\ ended \in BOOLEAN

\* However deep the recursion went and whatever it assigned, a lookup in the
\* current activation finds the value that this activation last assigned.
LocalsVisible ==
    \A n \in DOMAIN env :
        <<func, n>> \in DOMAIN varmap.active /\ varmap.active[<<func, n>>] = env[n]

\* Restoring never meets a variable that the map does not have, which would
\* be the panic "Malformed RestoreInfo".
RestorePossible ==
    \A j \in 1..Len(stack) : DOMAIN stack[j].restore_info \subseteq DOMAIN varmap.active

\* No two bitvectors created along the path have the same versioned name, and
\* no name has more versions than the loop bound.
NamesUnique ==
    /\ \A i, j \in 1..Len(named) : named[i] = named[j] => i = j
    /\ \A j \in 1..Len(named) : named[j][3] < LoopBound
=============================================================================
