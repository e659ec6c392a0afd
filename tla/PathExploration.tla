--------------------------- MODULE PathExploration ---------------------------
(***************************************************************************)
(* How paths are explored: depth-first search over a stack of backtracking *)
(* points kept in step with the assertion levels of the solver (the        *)
(* backtracking half of `State`, and the forks of symex_condbr and         *)
(* symex_switch that feed it).                                             *)
(*                                                                         *)
(* Program data is left out; a path is the set of inputs that satisfy the  *)
(* constraints collected along it, and the log of the blocks it entered.   *)
(***************************************************************************)
EXTENDS Solver, FiniteSets

CONSTANTS Inputs,    \* the valuations of the symbolic variables
          Blocks,    \* the entries of a path
          Switches,  \* the ways in which a switch may divide the inputs
          PathLens   \* bound: the lengths at which a path may grow further

ASSUME SwitchesAssumption == Switches \subseteq Seq(SUBSET Inputs)

VARIABLES solver,           \* the assertion levels, see module Solver
          backtrack_points, \* `State.backtrack_points`
          path,             \* `State.path`
          mode,             \* where the caller of `next()` stands
          yielded,          \* history: the inputs reported on some path
          excluded,         \* history: the inputs ruled out by assumptions
          saved             \* history: what each backtracking point stands for

vars == <<solver, backtrack_points, path, mode, yielded, excluded, saved>>

\* fresh: `next()` was never called.  running: inside `next()`.
\* yielded: `next()` has answered Some(_).  done: it has answered None.
Modes == {"fresh", "running", "yielded", "done"}

BacktrackPoint == [constraint : SUBSET Inputs, path_len : Nat]

\* The inputs that reach the k-th backtracking point once it is resumed.
Region(k) == solver[k] \cap backtrack_points[k].constraint

Pending == UNION {Region(k) : k \in 1..Len(backtrack_points)}

\* The inputs whose path has not been reported yet.
Remaining == (IF mode \in {"fresh", "running"} THEN Top(solver) ELSE {}) \cup Pending

Init ==
    /\ solver = <<Inputs>>
    /\ backtrack_points = <<>>
    /\ path = <<>>
    /\ mode = "fresh"
    /\ yielded = {}
    /\ excluded = {}
    /\ saved = <<>>
-----------------------------------------------------------------------------
\* The first call of `next()`.
Start ==
    /\ mode = "fresh"
    /\ mode' = "running"
    /\ UNCHANGED <<solver, backtrack_points, path, yielded, excluded, saved>>

\* `record_path_entry`, on entering a block.
RecordPathEntry(b) ==
    /\ mode = "running"
    /\ Len(path) \in PathLens
    /\ path' = Append(path, b)
    /\ UNCHANGED <<solver, backtrack_points, mode, yielded, excluded, saved>>

\* The program assumes c, or the consumer does before it asks for the first
\* path.  Nothing checks that c is still possible.
Assume(c) ==
    /\ mode \in {"fresh", "running"}
    /\ solver' = AssertIn(solver, c)
    /\ excluded' = excluded \cup (Top(solver) \ c)
    /\ UNCHANGED <<backtrack_points, path, mode, yielded, saved>>

\* The consumer asserts c through `mut_state()`, at the end of a path or after
\* the last one.
AssertFinal(c) ==
    /\ mode \in {"yielded", "done"}
    /\ solver' = AssertIn(solver, c)
    /\ UNCHANGED <<backtrack_points, path, mode, yielded, excluded, saved>>

\* Mutant: the last entry of the path is not kept with the backtracking point.
ForkForgettingEntry(c, cs) ==
    LET n == Len(solver)
        m == Len(cs)
    IN  /\ solver' = [k \in 1..(n + m) |->
                         IF k < n + m THEN solver[IF k < n THEN k ELSE n] ELSE Top(solver) \cap c]
        /\ backtrack_points' = backtrack_points \o
               [j \in 1..m |-> [constraint |-> cs[j], path_len |-> Len(path) - 1]]
        /\ saved' = saved \o
               [j \in 1..m |-> [region |-> Top(solver), path |-> path]]
        /\ UNCHANGED <<path, mode, yielded, excluded>>

\* `save_backtracking_point` for each element of cs, in order, after which
\* the current path goes on under the constraint c.
Fork(c, cs) ==
    LET n == Len(solver)
        m == Len(cs)
    IN  /\ solver' = [k \in 1..(n + m) |->
                         IF k < n THEN solver[k]
                         ELSE IF k < n + m THEN Top(solver)
                         ELSE Top(solver) \cap c]
        /\ backtrack_points' = backtrack_points \o
               [j \in 1..m |-> [constraint |-> cs[j], path_len |-> Len(path)]]
        /\ saved' = saved \o
               [j \in 1..m |-> [region |-> Top(solver), path |-> path]]
        /\ UNCHANGED <<path, mode, yielded, excluded>>

\* `symex_condbr`: true first, false later, when both are possible.
CondBr(c) ==
    LET true_feasible  == SatWithExtraConstraint(solver, c)
        false_feasible == SatWithExtraConstraint(solver, Inputs \ c)
    IN  /\ mode = "running"
        /\ \/ true_feasible /\ false_feasible /\ Fork(c, <<Inputs \ c>>)
           \/ true_feasible /\ ~false_feasible /\ Fork(c, <<>>)
           \/ ~true_feasible /\ false_feasible /\ Fork(Inputs \ c, <<>>)

\* Mutant: the default does not exclude the cases.
WaysOverlapping(cs) ==
    /\ \A j \in 1..Len(cs) : SatWithExtraConstraint(solver, cs[j])
    /\ \A i \in Top(solver) : \E j \in 1..Len(cs) : i \in cs[j]

\* The ways a switch can go on: the feasible cases (which exclude each other)
\* in the order of the instruction, then the default if it is feasible.
SwitchWays(cs) ==
    /\ \A j \in 1..Len(cs) : SatWithExtraConstraint(solver, cs[j])
    /\ \A j, k \in 1..Len(cs) : j # k => cs[j] \cap cs[k] = {}
    /\ \A i \in Top(solver) : \E j \in 1..Len(cs) : i \in cs[j]

\* `symex_switch` with at least one feasible case: follow the first one.
Switch(cs) ==
    /\ mode = "running"
    /\ Len(cs) > 0
    /\ SwitchWays(cs)
    /\ Fork(cs[1], Tail(cs))

\* The path ends, and `next()` answers Some(_).
Yield ==
    /\ mode = "running"
    /\ mode' = "yielded"
    /\ yielded' = yielded \cup Top(solver)
    /\ UNCHANGED <<solver, backtrack_points, path, excluded, saved>>

\* Mutant: a path is given up while it is still possible.
MayGiveUp == mode \in {"yielded", "running"}

\* When `backtrack_and_continue` is called: by `next()`, or when the current
\* path turns out to be impossible.
MayBacktrack == mode = "yielded" \/ (mode = "running" /\ ~Sat(solver))

\* `revert_to_backtracking_point`, answering true.
Backtrack ==
    LET n  == Len(backtrack_points)
        bp == backtrack_points[n]
    IN  /\ MayBacktrack
        /\ n > 0
        /\ solver' = AssertIn(Pop(solver), bp.constraint)
        /\ path' = SubSeq(path, 1, bp.path_len)
        /\ backtrack_points' = SubSeq(backtrack_points, 1, n - 1)
        /\ saved' = SubSeq(saved, 1, n - 1)
        /\ mode' = "running"
        /\ UNCHANGED <<yielded, excluded>>

\* `revert_to_backtracking_point`, answering false: `next()` answers None.
Exhaust ==
    /\ MayBacktrack
    /\ Len(backtrack_points) = 0
    /\ mode' = "done"
    /\ UNCHANGED <<solver, backtrack_points, path, yielded, excluded, saved>>

\* A call of `next()` after None: there is still nothing to revert to.
NextAfterNone ==
    /\ mode = "done"
    /\ Len(backtrack_points) = 0
    /\ UNCHANGED vars

Next ==
    \/ Start
    \/ \E b \in Blocks : RecordPathEntry(b)
    \/ \E c \in SUBSET Inputs : Assume(c) \/ AssertFinal(c) \/ CondBr(c)
    \/ \E cs \in Switches : Switch(cs)
    \/ Yield
    \/ Backtrack
    \/ Exhaust
    \/ NextAfterNone

Spec == Init /\ [][Next]_vars
-----------------------------------------------------------------------------
\* The types of the exploration: regions, backtracking points, the path log.
TypeOK ==
    /\ solver \in Seq(SUBSET Inputs)
    /\ backtrack_points \in Seq(BacktrackPoint)
    /\ path \in Seq(Blocks)
    /\ mode \in Modes
    /\ yielded \subseteq Inputs
    /\ excluded \subseteq Inputs
    /\ saved \in Seq([region : SUBSET Inputs, path : Seq(Blocks)])

\* One assertion level per backtracking point, and each level only adds
\* constraints: save pushes exactly once, revert pops exactly once.
LevelsMatch ==
    /\ Len(solver) = Len(backtrack_points) + 1
    /\ Len(saved) = Len(backtrack_points)
    /\ \A j, k \in 1..Len(solver) : j <= k => solver[k] \subseteq solver[j]

\* No input is on two paths: what the pending backtracking points stand for
\* never overlaps, with each other or with the path being explored.
PathsDisjoint ==
    /\ \A j, k \in 1..Len(backtrack_points) : j # k => Region(j) \cap Region(k) = {}
    /\ \A k \in 1..Len(backtrack_points) : Region(k) \cap Top(solver) = {}

\* No input is lost or reported twice: it has been reported, or excluded by an
\* assumption, or is still on the current path or a pending one.
InputsAccountedFor ==
    /\ yielded \cup excluded \cup Remaining = Inputs
    /\ yielded \cap Remaining = {}
    /\ excluded \cap Remaining = {}
    /\ yielded \cap excluded = {}

\* Only possible paths are kept for later: a backtracking point is saved only
\* after the solver found its constraint satisfiable.
PendingFeasible ==
    \A k \in 1..Len(backtrack_points) : Region(k) # {}

\* A backtracking point still stands for what was saved: truncating the path
\* and popping the solver go back to the path and constraints of that time.
SavedIntact ==
    /\ \A k \in 1..Len(backtrack_points) :
          /\ solver[k] = saved[k].region
          /\ backtrack_points[k].path_len <= Len(path)
          /\ SubSeq(path, 1, backtrack_points[k].path_len) = saved[k].path
    /\ \A j, k \in 1..Len(backtrack_points) :
          j <= k => backtrack_points[j].path_len <= backtrack_points[k].path_len

\* Reverting brings back the saved path and the saved constraints, and adds
\* the constraint of the backtracking point, whatever was explored, and
\* asserted by the consumer of a path, in between.
RevertRestores ==
    [][Len(backtrack_points') < Len(backtrack_points) =>
          LET n == Len(backtrack_points) IN
          /\ path' = saved[n].path
          /\ Top(solver') = saved[n].region \cap backtrack_points[n].constraint]_vars

\* The exploration implements the iterator promised to the consumer.
Iterator == INSTANCE PathIterator WITH
    remaining <- Remaining,
    done <- (mode = "done")

IteratorSpec == Iterator!Spec
=============================================================================
