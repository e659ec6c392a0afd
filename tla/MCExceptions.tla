---------------------------- MODULE MCExceptions ----------------------------
(***************************************************************************)
(* Programs with exceptions, and programs with calls whose result is       *)
(* unknown or that a path dies in.                                         *)
(***************************************************************************)
EXTENDS ExecutionSoundness, Programs

MCSym == {<<"main", "x", 0>>, <<"main", "type_index", 0>>,
          <<"main", "f_retval", 0>>, <<"main", "generic_stub_hook_retval", 0>>,
          <<"f", "f_retval", 0>>, <<"f", "generic_stub_hook_retval", 0>>,
          <<"f", "generic_stub_hook_retval", 1>>}
-----------------------------------------------------------------------------
(* Exceptions thrown by hooks and by callees at any depth, rethrown through  *)
(* plain calls, caught by the invokes of the top-level function, resumed.    *)

\* f(p) branches, and throws on neither, one or both sides.
Sides == {Block(<<Call("void", "throw", <<Var("p")>>)>>, RetVal(Const(0))),
          Block(<<Call("void", "throw", <<Const(1)>>)>>, RetVal(Const(1))),
          Block(<<Data("q", "add", <<Var("p"), Const(1)>>)>>, RetVal(Var("q"))),
          Block(<<Call("void", "abort", <<>>)>>, RetVal(Const(1)))}
Rethrows == {Block(<<Call("q", "g", <<Var("p")>>)>>, RetVal(Var("q")))}

F(b2, b3) == Fn(<<"p">>, <<Block(<<>>, If(Var("p"), 2, 3)), b2, b3>>)
G == Fn(<<"p">>, <<Block(<<LoadFrom("m", Const(1)), Data("c", "eq", <<Var("m"), Var("p")>>)>>, If(Var("c"), 2, 3)),
                   Block(<<Call("void", "throw", <<Var("m")>>)>>, Unreachable),
                   Block(<<StoreTo(Const(1), Const(1))>>, RetVal(Var("m")))>>)

\* How main calls f, and what it does on a return (bb 2) and a catch (bb 3).
Invokes == {Block(<<>>, Invoke("r", "f", <<Var("x")>>, 2, 3)),
            Block(<<StoreTo(Const(1), Var("x"))>>, Invoke("r", "f", <<Const(0)>>, 2, 3))}
Plain   == Block(<<Call("r", "f", <<Var("x")>>)>>, Goto(2))
Hooked0 == {Block(<<>>, Invoke("void", "stub", <<>>, 4, 3)),
            Block(<<>>, Invoke("void", "throw", <<Var("x")>>, 4, 3)),
            Block(<<>>, Invoke("void", "abort", <<>>, 4, 3)),
            Block(<<>>, Invoke("r", "assume", <<Const(1)>>, 4, 3))}

Afters == {Block(<<>>, RetVal(Var("r"))),
           Block(<<Call("s", "f", <<Var("r")>>)>>, RetVal(Var("s"))),
           Block(<<>>, Invoke("s", "f", <<Var("r")>>, 5, 3))}

Catches == {Block(<<Pad("e"), Data("t", "ptr", <<Var("e")>>)>>, If(Var("t"), 4, 6)),
            Block(<<Pad("e"), Data("t", "type_index", <<Var("e")>>)>>, If(Var("t"), 4, 6)),
            Block(<<Data("t", "add", <<Const(0), Const(1)>>), Pad("e")>>, Goto(4))}

Main(b1, b2, b3) ==
    Fn(<<"x">>, <<b1, b2, b3,
                  Block(<<LoadFrom("m", Const(1))>>, RetVal(Var("m"))),
                  Block(<<>>, RetVal(Var("s"))),
                  Block(<<>>, ResumeWith(Var("e")))>>)

Throws  == {F(b2, b3) : b2 \in Sides, b3 \in Sides}
Nested  == {F(b, r) : b \in Sides, r \in Rethrows} \cup {F(r, b) : b \in Sides, r \in Rethrows}

Mains(b1s, afters, fs) ==
    {[main |-> Main(b1, a, c), f |-> f, g |-> G]
        : b1 \in b1s, a \in afters, c \in Catches, f \in fs}

\* A landing pad after a phi, for an exception thrown in the invoke's own block.
PadAfterPhi ==
    {[main |-> Fn(<<"x">>,
        <<Block(<<>>, If(Var("x"), 2, 3)),
          Block(<<>>, Invoke("void", "throw", <<Const(1)>>, 4, 4)),
          Block(<<>>, Invoke("void", "throw", <<Const(0)>>, 4, 4)),
          Block(<<PhiOf("p", [b \in 2..3 |-> Const(b - 2)]), Pad("e"), Data("t", "ptr", <<Var("e")>>),
                  Data("c", "add", <<Var("t"), Var("p")>>)>>, RetVal(Var("c")))>>)],
     [main |-> Fn(<<"x">>, <<Block(<<>>, Goto(2)), Block(<<Pad("e")>>, RetVal(Var("x")))>>)]}

Direct == Mains(Invokes, {Block(<<>>, RetVal(Var("r"))), Block(<<>>, Invoke("s", "f", <<Var("r")>>, 5, 3))}, Throws)
          \cup Mains(Hooked0, {Block(<<>>, RetVal(Var("x")))}, {F(b, b) : b \in Sides})
          \cup PadAfterPhi

Exceptions == {Scenario(p, Config) : p \in Direct \cup Mains(Invokes \cup {Plain}, Afters, Nested)}
-----------------------------------------------------------------------------
(* Calls whose result is unknown: ignored at the maximum callstack depth, or *)
(* replaced by a stub or the default hook; recursion cut by that depth; and  *)
(* calls in which a path dies, so that another one goes on inside the call.  *)

\* f(p) recurs, calls a stub or calls a function that is not defined.
Inner == {Call("q", "f", <<Var("p")>>), Call("q", "stub", <<>>), Call("q", "undefined", <<>>)}
Unsure(c) == Fn(<<"p">>, <<Block(<<>>, If(Var("p"), 2, 3)),
                      Block(<<c, StoreTo(Const(1), Var("q"))>>, RetVal(Var("q"))),
                      Block(<<LoadFrom("m", Const(1))>>, RetVal(Var("m")))>>)

Outer == {Call("r", "f", <<Var("x")>>), Call("r", "stub", <<>>), Call("r", "undefined", <<>>)}

\* On its second branch main calls again.
Asking(c) == Fn(<<"x">>, <<Block(<<c>>, If(Var("r"), 2, 3)),
                         Block(<<Call("s", "f", <<Var("r")>>)>>, RetVal(Var("s"))),
                         Block(<<Call("void", "stub", <<>>), Call("s", "stub", <<>>)>>, RetVal(Var("s")))>>)
Invoking == Fn(<<"x">>, <<Block(<<>>, Invoke("r", "f", <<Var("x")>>, 2, 3)),
                          Block(<<Data("s", "add", <<Var("r"), Var("x")>>)>>, If(Var("s"), 3, 3)),
                          Block(<<>>, RetVal(Var("r")))>>)

\* The bounds under which a path needs no unknown that is not in MCSym.
Bounds(c, d) ==
    {<<n, k>> \in (1..2) \X (0..2) :
        /\ c.callee.name = "undefined" => k >= 1
        /\ d.callee.name = "undefined" => k >= 2
        /\ c.callee.name = "f" /\ k = 0 => n = 1
        /\ c.callee.name \in {"stub", "undefined"} => n = 1
        /\ d.callee.name = "f" => n = 1 \/ k = 2}

Conf(b, s) == [Config EXCEPT !.loop_bound = b[1], !.max_callstack_depth = b[2],
                             !.default_hook = "stub", !.squash_unsats = s]

Unknown ==
    UNION {{Scenario([main |-> Asking(c), f |-> Unsure(d)], Conf(b, s)) : b \in Bounds(c, d), s \in BOOLEAN}
              : c \in Outer, d \in Inner}
    \cup {Scenario([main |-> Invoking, f |-> Unsure(d)], Conf(b, TRUE)) : d \in Inner, b \in {<<1, 0>>, <<2, 2>>}}

Dead(n) == <<Call("void", "assume", <<Const(0)>>), CallPtr("void", Var(n), <<>>)>>

\* A path dies in the callee g of f, after f or g branched; the next path ends
\* in one of these ways.
Ends == {Block(<<Call("void", "abort", <<>>)>>, RetVal(Var("p"))),
         Block(<<Call("void", "throw", <<Var("p")>>)>>, RetVal(Var("p"))),
         Block(<<>>, RetVal(Var("p"))),
         Block(<<>>, Unreachable)}

Branching(params, b2, b3) == Fn(params, <<Block(<<>>, If(Var(params[1]), 2, 3)), b2, b3>>)

Dying ==
    {Scenario([main |-> Fn(<<"x">>, <<Block(<<Call("r", "f", <<Var("x")>>),
                                              Data("s", "add", <<Var("r"), Const(1)>>)>>, RetVal(Var("s")))>>),
               f |-> Branching(<<"p">>, Block(<<Call("q", "g", <<Var("p")>>), Data("u", "add", <<Var("q"), Const(1)>>)>>,
                                        RetVal(Var("u"))), e1),
               g |-> g], [Config EXCEPT !.squash_unsats = s])
        : e1 \in Ends, s \in BOOLEAN,
          g \in {Fn(<<"p">>, <<Block(Dead("p"), RetVal(Var("p")))>>)} \cup
                {Branching(<<"p">>, Block(Dead("p"), RetVal(Var("p"))), e2) : e2 \in Ends} \cup
                {Fn(<<"p">>, <<Block(<<LoadFrom("m", Var("p")), Data("c", "add", <<Var("m"), Var("p")>>)>>, If(Var("c"), 2, 2)),
                               Block(Dead("p"), e2.term)>>) : e2 \in Ends}}

Unknowns == Unknown \cup Dying
-----------------------------------------------------------------------------
MCScenarios == Exceptions \cup Unknowns
-----------------------------------------------------------------------------
(* Programs on which the engine does not do what its documentation says, one *)
(* for each disagreement.                                                    *)

DivergenceSym == {<<"main", "x", 0>>, <<"main", "type_index", 0>>, <<"f", "type_index", 0>>}

\* An exception caught by f, after backtracking; main goes on after f.
MCCaughtBelow ==
    {Scenario([main |-> Fn(<<"x">>, <<Block(<<Call("r", "f", <<Var("x")>>),
                                              Data("s", "add", <<Var("r"), Const(1)>>)>>, RetVal(Var("s")))>>),
               f |-> Fn(<<"p">>, <<Block(<<>>, Invoke("q", "g", <<Var("p")>>, 2, 3)),
                                   Block(<<>>, RetVal(Var("q"))),
                                   Block(<<Pad("e")>>, RetVal(Const(1)))>>),
               g |-> Branching(<<"p">>, Block(<<>>, RetVal(Const(0))),
                               Block(<<Call("void", "throw", <<Const(1)>>)>>, Unreachable))], Config)}

\* A phi at the return label of an invoke.
MCPhiAfterInvoke ==
    {Scenario([main |-> Fn(<<"x">>, <<Block(<<>>, Invoke("r", "f", <<Var("x")>>, 2, 2)),
                                      Block(<<PhiOf("p", [b \in {1} |-> Var("r")])>>, RetVal(Var("p")))>>),
               f |-> Branching(<<"p">>, Block(<<>>, RetVal(Const(0))), Block(<<>>, RetVal(Const(1))))], Config)}

\* An invoke of a function that only the default hook handles.
MCInvokeDefaultHook ==
    {Scenario([main |-> Fn(<<"x">>, <<Block(<<>>, If(Var("x"), 2, 3)),
                                      Block(<<>>, Invoke("void", "undefined", <<>>, 3, 3)),
                                      Block(<<>>, RetVal(Var("x")))>>)],
              [Config EXCEPT !.default_hook = "stub"])}

\* A load from an address that may be null.
MCSplitNull ==
    {Scenario([main |-> Fn(<<"x">>, <<Block(<<LoadFrom("m", Var("x"))>>, RetVal(Var("m")))>>)],
              [Config EXCEPT !.null_pointer_checking = "SplitPath"])}

\* An invoke of a function without a possible path.
MCInvokeImpossible ==
    {Scenario([main |-> Fn(<<"x">>, <<Block(<<>>, Invoke("r", "f", <<Var("x")>>, 2, 2)), Block(<<>>, RetVal(Var("r")))>>),
               f |-> Fn(<<"p">>, <<Block(Dead("p"), RetVal(Const(1)))>>)], Config)}

\* An assumption that no input satisfies.
MCAssumedAway ==
    {Scenario([main |-> Fn(<<"x">>, <<Block(<<Call("void", "assume", <<Const(0)>>)>>, RetVal(Var("x")))>>)], Config)}

\* An exception that passes through a plain call.
MCRethrown ==
    {Scenario([main |-> Fn(<<"x">>, <<Block(<<Call("void", "f", <<>>)>>, RetVal(Var("x")))>>),
               f |-> Fn(<<>>, <<Block(<<Call("void", "throw", <<Const(1)>>)>>, RetVoid)>>)], Config)}

\* f ignores the call of h at the greatest depth, then calls it and, with a
\* loop bound of 1, cannot assign the result, on either branch of h.
BoundSym == {<<"mem", 1>>, <<"f", "h_retval", 0>>}

MCBoundDropped ==
    {Scenario([main |-> Fn(<<>>, <<Block(<<Call("void", "f", <<>>)>>, RetVoid)>>),
               f |-> Fn(<<>>, <<Block(<<Call("void", "f", <<>>), Call("u", "h", <<>>)>>, RetVoid)>>),
               h |-> Fn(<<>>, <<Block(<<LoadFrom("m", Const(1))>>, If(Var("m"), 2, 3)),
                                Block(<<>>, RetVal(Const(0))), Block(<<>>, RetVal(Const(1)))>>)],
              [Config EXCEPT !.loop_bound = 1, !.max_callstack_depth = 2])}
=============================================================================
