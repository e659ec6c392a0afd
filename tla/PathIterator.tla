---------------------------- MODULE PathIterator ----------------------------
(***************************************************************************)
(* What an ExecutionManager promises to its consumer.                      *)
(*                                                                         *)
(* It is an iterator over the possible paths through a function; a path is *)
(* represented by the set of inputs that drive the function down it.       *)
(* Every call of `next()` takes some of the inputs that no earlier path    *)
(* covered.  It answers None only when no input is left: every input has   *)
(* been reported on exactly one path, or was ruled out by an assumption    *)
(* made by the program.                                                    *)
(***************************************************************************)

CONSTANT Inputs      \* the valuations of the function's parameters

VARIABLES remaining, \* the inputs not yet accounted for
          yielded,   \* the inputs reported on some path
          excluded,  \* the inputs ruled out by an assumption of the program
          done       \* `next()` has answered None

vars == <<remaining, yielded, excluded, done>>

Init ==
    /\ remaining = Inputs
    /\ yielded = {}
    /\ excluded = {}
    /\ done = FALSE

\* A call of `next()` reports the path that the inputs S take.
YieldPath(S) ==
    /\ remaining' = remaining \ S
    /\ yielded' = yielded \cup S
    /\ UNCHANGED <<excluded, done>>

\* The program assumes something that the inputs S do not satisfy.
Exclude(S) ==
    /\ remaining' = remaining \ S
    /\ excluded' = excluded \cup S
    /\ UNCHANGED <<yielded, done>>

\* `next()` answers None.
Finish ==
    /\ remaining = {}
    /\ done' = TRUE
    /\ UNCHANGED <<remaining, yielded, excluded>>

Next ==
    \/ \E S \in SUBSET remaining : YieldPath(S) \/ Exclude(S)
    \/ Finish

Spec == Init /\ [][Next]_vars

=============================================================================
