------------------------------- MODULE VarMap -------------------------------
(***************************************************************************)
(* `VarMap`: the bitvector that each local variable currently stands for,  *)
(* and how many versions of it have been created along the current path.   *)
(* A key is a pair <<function name, variable name>>; both maps are partial *)
(* functions on keys (`DoubleKeyedMap`).                                   *)
(***************************************************************************)
EXTENDS Naturals, Maps

\* Mutants: the version is not advanced; one version too many, or too few;
\* nothing is restored; only what is restored is kept.
VersionNotAdvanced(vm, k) == IF k \in DOMAIN vm.version THEN vm.version[k] ELSE 0
FitsOneMore(vm, k, loop_bound) ==
    k \in DOMAIN vm.version => vm.version[k] + 1 <= loop_bound
FitsOneLess(vm, k, loop_bound) ==
    IF k \in DOMAIN vm.version THEN vm.version[k] + 2 < loop_bound ELSE loop_bound > 1
NothingRestored(vm, rinfo) == vm
RestoreReplaces(vm, rinfo) == [vm EXCEPT !.active = rinfo]

\* The version number that the next assignment to k takes: 0 for the first.
NewVersionNum(vm, k) == IF k \in DOMAIN vm.version THEN vm.version[k] + 1 ELSE 0

\* At most loop_bound versions, numbered from 0, of every variable.
FitsLoopBound(vm, k, loop_bound) == NewVersionNum(vm, k) <= loop_bound - 1

\* `assign_bv_to_name`.  The version is counted even when it exceeds the
\* bound, in which case the answer is LoopBoundExceeded and bv is dropped.
AssignBvToName(vm, k, bv, loop_bound) ==
    [active  |-> IF FitsLoopBound(vm, k, loop_bound)
                 THEN Insert(vm.active, k, bv) ELSE vm.active,
     version |-> Insert(vm.version, k, NewVersionNum(vm, k))]

\* `overwrite_latest_version_of_bv`, of a variable that has a version.
OverwriteLatestVersion(vm, k, bv) == [vm EXCEPT !.active[k] = bv]

\* `get_restore_info_for_fn`: the variables of function f as they are now.
RestoreInfoFor(vm, f) == [k \in {x \in DOMAIN vm.active : x[1] = f} |-> vm.active[k]]

\* `restore_fn_vars`: make those versions active again.
RestoreFnVars(vm, rinfo) ==
    [vm EXCEPT !.active =
        [k \in DOMAIN vm.active |-> IF k \in DOMAIN rinfo THEN rinfo[k] ELSE vm.active[k]]]

=============================================================================
