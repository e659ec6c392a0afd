------------------------- MODULE MCPathExploration -------------------------
(* Every way to fork over three inputs, with switches of up to three ways,   *)
(* for functions that return, throw and abort, and fail on some input.       *)
EXTENDS Library

MCSwitches == UNION {[1..n -> SUBSET Inputs] : n \in 1..3}
MCFunctions ==
    { <<Return(0), Return(1), Return(0)>>,
      <<Return(1), Throw(1), Throw(2)>>,
      <<Return(2), Abort, Return(0)>>,
      <<Throw(0), Abort, Return(3)>>,
      <<LoopBound, Return(1), Return(0)>>,
      <<Error, Return(0), Return(1)>> }
MCNonNull == {1, 2}
MCConsumers ==
    {[kind |-> "any"], [kind |-> "find_zero"]} \cup
    [kind : {"values"}, n : {0, 1, 3}, thrown_size : {"none", "return width", "other width"}]
=============================================================================
