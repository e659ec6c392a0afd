----------------------------- MODULE MCGlobals -----------------------------
(***************************************************************************)
(* Three families of projects: definitions of the same names with every    *)
(* combination of linkages in two modules; initializers that refer to each *)
(* other and one that fails; and hooks that come and go.                   *)
(***************************************************************************)
EXTENDS Globals, TLC

MCModules == {"A", "B"}
MCStored == {<<99>>}
MCDemangled == [rust |-> ("_Rf" :> "f"), cpp |-> ("_Rf" :> "f") @@ ("_Zf" :> "f")]

Var(m, n, l, init) == [module |-> m, name |-> n, kind |-> "var", linkage |-> l, init |-> init]
Fn(m, n, l) == [module |-> m, name |-> n, kind |-> "fn", linkage |-> l, init |-> <<>>]
Project(ds, aliases) ==
    [defs     |-> SelectSeq(ds, LAMBDA d : d.linkage # "declared"),
     aliases  |-> aliases,
     declared |-> {d.name : d \in {ds[k] : k \in DOMAIN ds}},
     hookable |-> {},
     hooked   |-> NoHooks,
     stores   |-> {},
     points   |-> 0]

Linkages == {"declared", "private", "external", "weak"}

Linked ==
    {Project(<<Var("A", "v", va, <<"f">>), Var("B", "v", vb, <<"f", "v">>), Fn("A", "f", fa), Fn("B", "f", fb)>>, {}) :
        va \in Linkages \cup {"appending", "other"}, vb \in Linkages, fa \in Linkages, fb \in Linkages}

Cyclic ==
    {[Project(<<Var("A", "a", "external", <<"b">>), Var("A", "b", "private", <<"a">>), third>>,
             {[module |-> "A", name |-> "alias", aliasee |-> "b"]})
        EXCEPT !.stores = Stored, !.points = 1] :
        third \in {Var("A", "table", "external", <<"a", "alias">>), Var("A", "bad", "private", <<"b", Unsupported>>)}}

Hooked ==
    {[Project(<<Fn("A", "f", "external"), Fn("B", "f", "private"), Fn("B", "_Rf", "external")>>,
             {[module |-> "B", name |-> "alias", aliasee |-> "f"]})
        EXCEPT !.hookable = {"f"}, !.declared = @ \cup {"llvm.memcpy", "_Zf"}, !.hooked = h] :
        h \in {NoHooks, Add(Add(NoHooks, "hooks", "f"), "cpp", "f")}}

MCProjects == Linked \cup Cyclic \cup Hooked
=============================================================================
