----------------------------- MODULE MCPrograms -----------------------------
(***************************************************************************)
(* Programs without exceptions, in two families.                           *)
(***************************************************************************)
EXTENDS ExecutionSoundness, ExecutionRefinement, Programs

MCSym == {<<"main", "x", 0>>}
-----------------------------------------------------------------------------
(* One function with branches, switches, a loop, memory, assumptions,        *)
(* phis, aborts and errors, under every relevant configuration.              *)

Terms1 == {If(Var("x"), 2, 3), If(Var("a"), 2, 3),
           SwitchOn(Var("x"), <<Case(0, 2), Case(1, 3)>>, 4),
           SwitchOn(Var("x"), <<Case(0, 3), Case(1, 2), Case(2, 3)>>, 4)}

Blocks2 == {Block(<<Data("b", "add", <<Var("a"), Var("x")>>)>>, If(Var("b"), 4, 2)),
            Block(<<Data("b", "add", <<Var("a"), Const(1)>>)>>, If(Var("x"), 2, 4)),
            Block(<<StoreTo(Var("a"), Var("x")), LoadFrom("b", Var("x"))>>, RetVal(Var("b"))),
            Block(<<LoadFrom("b", Var("x"))>>, If(Var("b"), 2, 4)),
            Block(<<LoadFrom("b", Const(1)), StoreTo(Const(1), Const(1))>>, If(Var("b"), 4, 2)),
            Block(<<>>, Unreachable)}

Blocks3 == {Block(<<Call("void", "assume", <<Var("x")>>)>>, If(Var("x"), 2, 4)),
            Block(<<Call("void", "assume", <<Const(0)>>)>>, If(Var("x"), 2, 4)),
            Block(<<Call("void", "assume", <<Const(0)>>), CallPtr("void", Var("x"), <<>>)>>, Goto(4)),
            Block(<<Data("c", "eq", <<Var("x"), Const(1)>>)>>, SwitchOn(Var("c"), <<Case(1, 2)>>, 4)),
            Block(<<Data("c", "select", <<Var("a"), Var("x"), Const(2)>>), StoreTo(Var("c"), Var("a"))>>,
                  SwitchOn(Var("x"), <<Case(1, 4)>>, 2)),
            Block(<<Call("void", "abort", <<>>)>>, Goto(4)),
            Block(<<>>, Goto(4))}

Block4 == Block(<<PhiOf("p", [b \in 1..3 |-> IF b = 1 THEN Const(1) ELSE IF b = 2 THEN Var("x") ELSE Var("a")])>>,
                RetVal(Var("p")))

Mains == {[main |-> Fn(<<"x">>,
              <<Block(<<Data("a", "add", <<Var("x"), Const(1)>>)>>, t), b2, b3, Block4>>)]
              : t \in Terms1, b2 \in Blocks2, b3 \in Blocks3}

BranchConfigs == {[Config EXCEPT !.loop_bound = n, !.squash_unsats = s, !.null_pointer_checking = c]
              : n \in {2, 3}, s \in BOOLEAN, c \in {"None", "Simple"}}
           \cup {[Config EXCEPT !.trust_llvm_assumes = FALSE],
                 [Config EXCEPT !.failing_callbacks = {[func |-> "main", bb |-> 4, instr |-> 2]}]}

Branches == {Scenario(p, c) : p \in Mains, c \in BranchConfigs}
-----------------------------------------------------------------------------
(* Calls: branches inside callees, in their callers and after they return,   *)
(* recursion, memory shared between them, and paths that die inside a callee. *)

\* On one branch f(p) adds 1 to p; on the other it does one of these.
Others == {Block(<<Call("q", "g", <<Var("p")>>)>>, RetVal(Var("q"))),
          Block(<<Call("q", "f", <<Const(1)>>), Data("s", "add", <<Var("q"), Var("p")>>)>>, RetVal(Var("s"))),
          Block(<<Call("void", "assume", <<Var("p")>>), CallPtr("q", Var("p"), <<Var("p")>>)>>, RetVal(Var("q"))),
          Block(<<Call("void", "assume", <<Var("p")>>)>>, If(Var("p"), 2, 2)),
          Block(<<Call("void", "assume", <<Const(0)>>), CallPtr("q", Var("p"), <<>>)>>, RetVal(Const(1))),
          Block(<<Call("void", "g", <<>>)>>, RetVal(Const(1))),
          Block(<<Call("void", "v", <<>>)>>, RetVal(Const(1))),
          Block(<<Call("void", "h", <<>>)>>, RetVal(Const(1)))}

F(b, other) ==
    Fn(<<"p">>, <<Block(<<>>, If(Var("p"), IF other = 0 THEN 2 ELSE 3, IF other = 0 THEN 3 ELSE 2)),
                  Block(<<Data("q", "add", <<Var("p"), Const(1)>>)>>, RetVal(Var("q"))), b>>)

\* g(p) tells three values apart and writes to memory on one branch.
G == Fn(<<"p">>,
        <<Block(<<LoadFrom("m", Const(1))>>, SwitchOn(Var("m"), <<Case(0, 2), Case(1, 3)>>, 3)),
          Block(<<StoreTo(Const(1), Const(2))>>, RetVal(Var("p"))),
          Block(<<>>, RetVal(Var("m")))>>)

Firsts == {<<Call("r", "f", <<Var("x")>>)>>,
           <<Call("r", "f", <<Var("x")>>), Call("t", "f", <<Var("r")>>)>>,
           <<Call("r", "f", <<Var("x")>>), StoreTo(Const(1), Var("r"))>>,
           <<Call("t", "f", <<Var("x")>>), Call("r", "g", <<Var("t")>>), Call("void", "v", <<Var("r")>>)>>}

\* v(w, ..) is called for its effects: it adds a path without returning a value.
V == Variadic(Fn(<<"w">>, <<Block(<<>>, If(Var("w"), 2, 3)),
                            Block(<<StoreTo(Const(1), Var("w"))>>, RetVoid), Block(<<>>, RetVoid)>>))

Main(first, b2) ==
    Fn(<<"x">>, <<Block(first, If(Var("r"), 2, 3)), b2,
                  Block(<<LoadFrom("m", Const(1))>>, RetVal(Var("m")))>>)

Seconds == {Block(<<Call("u", "f", <<Var("r")>>), Data("v", "add", <<Var("u"), Var("x")>>)>>, RetVal(Var("v"))),
            Block(<<Call("u", "g", <<Var("x")>>)>>, SwitchOn(Var("u"), <<Case(0, 3), Case(2, 4)>>, 4)),
            Block(<<Call("u", "g", <<Var("x")>>)>>, If(Var("u"), 2, 3))}

Exit == Block(<<Call("w", "g", <<Var("u")>>)>>, RetVal(Var("w")))

Programs1 == {[main |-> [Main(first, b2) EXCEPT !.blocks = Append(@, Exit)],
               f |-> F(b, other), g |-> G, v |-> V]
                  : first \in Firsts, b2 \in Seconds, b \in Others, other \in 0..1}

CallConfigs == {[Config EXCEPT !.loop_bound = n, !.squash_unsats = s] : n \in {2, 3}, s \in BOOLEAN}

\* The same call through a pointer, on paths where it has one target, another
\* one, two or none.
Pointers == {[main |-> Fn(<<"x">>, <<Block(<<>>, term), b2,
                                     Block(<<LoadFrom("m", Const(1))>>, RetVal(Var("m")))>>),
              f |-> F(b, 0), g |-> G]
                 : term \in {SwitchOn(Var("x"), <<Case(2, 2), Case(1, 2)>>, 3),
                             SwitchOn(Var("x"), <<Case(1, 2), Case(2, 2)>>, 2), If(Var("x"), 2, 3)},
                   b2 \in {Block(<<CallPtr("r", Var("x"), <<Var("x")>>)>>, If(Var("r"), 3, 3)),
                          Block(<<CallPtr("r", Var("x"), <<Var("x")>>)>>, If(Var("r"), 2, 3)),
                          Block(<<Call("r", "f", <<Var("x")>>)>>, If(Var("r"), 2, 3))},
                   b \in {Block(<<CallPtr("q", Const(1), <<Var("p")>>)>>, RetVal(Var("q"))),
                         Block(<<CallPtr("q", Var("p"), <<Const(0)>>)>>, RetVal(Var("q")))}}

Calls ==
    {[Scenario(p, c) EXCEPT !.funcs = [a \in {1, 2} |-> IF a = 1 THEN "g" ELSE "f"]]
        : p \in Programs1 \cup Pointers, c \in CallConfigs}
-----------------------------------------------------------------------------
MCScenarios == Branches \cup Calls
=============================================================================
