------------------------ MODULE ExecutionRefinement ------------------------
(***************************************************************************)
(* The `ExecutionManager` explores paths the way PathExploration says: the *)
(* program data, the callstacks and the engine's own recursion only decide *)
(* which of its steps comes next.                                          *)
(***************************************************************************)
EXTENDS ExecutionManager

\* Where the consumer stands.  Having found no path is final, even while
\* symex_call and symex_from_cur_loc pass it on and try once more.
Mode ==
    IF fresh THEN "fresh"
    ELSE IF ctl.at = "idle" THEN IF ctl.res.tag = "None" THEN "done" ELSE "yielded"
    ELSE IF ctl.at = "return" /\ ctl.res.tag = "None" THEN "done"
    ELSE IF ctl.at = "backtrack" /\ ctl.why = "none" THEN "done"
    ELSE IF ctl.at = "backtrack" /\ ctl.why = "next" THEN "yielded"
    ELSE "running"

Points ==
    [k \in 1..Len(backtrack_points) |->
        [constraint |-> backtrack_points[k].constraint,
         path_len   |-> backtrack_points[k].path_len]]

\* What a backtracking point stands for, read off the state as it is now.
SavedNow ==
    [k \in 1..Len(backtrack_points) |->
        [region |-> solver[k], path |-> SubSeq(path, 1, backtrack_points[k].path_len)]]

\* Every place where a path entry may begin.
Entries ==
    UNION {UNION {UNION {
        {[func |-> f, bb |-> b, instr |-> n] : n \in 1..(Len(s.program[f].blocks[b].instrs) + 1)}
        : b \in 1..Len(s.program[f].blocks)} : f \in DOMAIN s.program} : s \in Scenarios}

\* At most one way per input, as the ways exclude each other.
Ways == UNION {[1..n -> SUBSET Inputs] : n \in 1..Cardinality(Inputs)}

Exploration == INSTANCE PathExploration WITH
    Blocks <- Entries,
    Switches <- Ways,
    PathLens <- Nat,
    backtrack_points <- Points,
    mode <- Mode,
    saved <- SavedNow

\* Every step of the engine is a step of the exploration or changes nothing
\* that it sees: a fork keeps every feasible alternative, a path is dropped
\* only when it is impossible, and None is answered only when nothing is left.
ExplorationSpec == Exploration!Spec
-----------------------------------------------------------------------------
(* The steps that the exploration does not have.                             *)

\* A loop bound met in a landing pad, or on the return to a caller after
\* backtracking, drops a path that is still possible.
DropsAtBound ==
    (LandingPad \/ FromCurLocReturns) /\ Sat(solver) /\ ctl'.at = "backtrack"

\* An invoke handled by the default hook answers that there is no path.
InvokeGivesUp == CallHooked /\ ctl'.at = "return" /\ ctl'.res.tag = "None"

\* That a callee has no path left is answered to the consumer as an error.
NoneBecomesUnsat == CalleeFails /\ ctl.res.tag = "None" /\ ctl'.at = "return"

\* In split mode, a null pointer is reported for a path that also goes on.
SplitsAtNull == (Load \/ Store) /\ backtrack_points' # backtrack_points

Departs == DropsAtBound \/ InvokeGivesUp \/ NoneBecomesUnsat \/ SplitsAtNull
=============================================================================
