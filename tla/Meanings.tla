------------------------------ MODULE Meanings ------------------------------
(***************************************************************************)
(* Values as LLVM has them: integers, and nested sequences of integers for *)
(* vectors, arrays and structs; what operators, constants and indices mean *)
(* for them.  The counterpart, without bitvectors, of Layout and           *)
(* Constants.                                                              *)
(***************************************************************************)
EXTENDS Constants, FiniteSetsExt

\* The integers in a value of type ty, in the order of memory: the path that
\* leads to each, and its width.
RECURSIVE Leaves(_)
Leaves(ty) ==
    LET def == Definition(ty)
        Under(k, el) == LET ls == Leaves(el) IN [j \in DOMAIN ls |-> [ls[j] EXCEPT !.path = <<k>> \o @]]
    IN  CASE def.kind \in {"int", "pointer"} -> <<[path |-> <<>>, bits |-> Size(def)]>>
          [] def.kind \in {"array", "vector"} -> FlattenSeq([k \in 1..def.n |-> Under(k, def.el)])
          [] def.kind = "struct" -> FlattenSeq([k \in DOMAIN def.els |-> Under(k, def.els[k])])

RECURSIVE At(_, _), Put(_, _, _)
At(v, path) == IF path = <<>> THEN v ELSE At(v[Head(path)], Tail(path))
Put(v, path, new) == IF path = <<>> THEN new ELSE [v EXCEPT ![Head(path)] = Put(@, Tail(path), new)]

\* All of its bits, the first element lowest.
Encode(ty, v) == LET ls == Leaves(ty) IN FlattenSeq([k \in DOMAIN ls |-> FromNat(At(v, ls[k].path), ls[k].bits)])

\* The elements of a type, as paths; how many bits come before one of them.
Places(ty) == UNION {Prefixes(l.path) : l \in ToSet(Leaves(ty))}

BitsBefore(ty, path) ==
    LET ls    == Leaves(ty)
        first == CHOOSE k \in DOMAIN ls : IsPrefix(path, ls[k].path) /\ \A j \in 1..(k - 1) : ~IsPrefix(path, ls[j].path)
    IN  FoldLeft(LAMBDA n, l : n + l.bits, 0, SubSeq(ls, 1, first - 1))

\* Indices count from 0, paths from 1.
Path(indices) == [k \in DOMAIN indices |-> indices[k] + 1]
ElementType(ty, path) == TypeAt(ty, [k \in DOMAIN path |-> path[k] - 1])

InWholeBytes(bits) == (bits % BITS_IN_BYTE) = 0

\* The engine has an address for this element: nothing on the way to it starts
\* within a byte, and nor do the other elements of an array.
Addressable(ty, path) ==
    \A n \in 1..Len(path) :
        LET outer == Definition(ElementType(ty, SubSeq(path, 1, n - 1)))
        IN  InWholeBytes(IF outer.kind = "struct" THEN BitsBefore(outer, <<path[n]>>) ELSE Size(outer.el))

\* The elements of a variable of type ty at an address that have an address:
\* for the path to each, its type and its address.
ElementsOf(ty, addr) ==
    [p \in {p \in Places(ty) : Addressable(ty, p)} |->
        [ty |-> ElementType(ty, p), addr |-> addr + (BitsBefore(ty, p) \div BITS_IN_BYTE)]]

\* Those of type ty at that address: one, or none.
Found(elements, ty, addr) == {p \in DOMAIN elements : elements[p] = [ty |-> ty, addr |-> addr]}
-----------------------------------------------------------------------------
\* A number of w bits as one with a sign.
WithSign(w, n) == IF n < 2^(w - 1) THEN n ELSE n - 2^w

\* Whether the result of an operator is left open.
Open(op, w, b) ==
    \/ op \in {"udiv", "sdiv", "urem", "srem"} /\ b = 0
    \/ op \in {"shl", "lshr", "ashr"} /\ b >= w

\* The quotient of numbers with signs, rounded towards 0.
Quotient(x, y) == CHOOSE q \in -Abs(x)..Abs(x) : Abs(x - q * y) < Abs(y) /\ (x - q * y) * x >= 0

\* Bitwise operations, on the sets of the bits that are 1.
BitsOf(n)   == {k \in 0..POINTER_SIZE_BITS : (n \div 2^k) % 2 = 1}
NumberOf(s) == FoldSet(LAMBDA k, n : n + 2^k, 0, s)

Result(op, w, a, b) ==
    LET x == WithSign(w, a)
        y == WithSign(w, b)
    IN  CASE op = "add"  -> (a + b) % 2^w
          [] op = "sub"  -> (a - b) % 2^w
          [] op = "mul"  -> (a * b) % 2^w
          [] op = "udiv" -> a \div b
          [] op = "sdiv" -> Quotient(x, y) % 2^w
          [] op = "urem" -> a % b
          [] op = "srem" -> (x - Quotient(x, y) * y) % 2^w
          [] op = "and"  -> NumberOf(BitsOf(a) \cap BitsOf(b))
          [] op = "or"   -> NumberOf(BitsOf(a) \cup BitsOf(b))
          [] op = "xor"  -> NumberOf((BitsOf(a) \cup BitsOf(b)) \ (BitsOf(a) \cap BitsOf(b)))
          [] op = "shl"  -> (a * 2^b) % 2^w
          [] op = "lshr" -> a \div 2^b
          [] op = "ashr" -> (x \div 2^b) % 2^w

Holds(pred, w, a, b) ==
    LET x == IF pred \in {"sgt", "sge", "slt", "sle"} THEN WithSign(w, a) ELSE a
        y == IF pred \in {"sgt", "sge", "slt", "sle"} THEN WithSign(w, b) ELSE b
    IN  CASE pred = "eq" -> x = y
          [] pred = "ne" -> x # y
          [] pred \in {"ugt", "sgt"} -> x > y
          [] pred \in {"uge", "sge"} -> x >= y
          [] pred \in {"ult", "slt"} -> x < y
          [] pred \in {"ule", "sle"} -> x <= y

Truth(p) == IF p THEN 1 ELSE 0

\* The exact result of an intrinsic, and the range of its results.
HasSign(fn) == fn \in {"sadd", "ssub", "smul"}
Exact(fn, w, a, b) ==
    LET x == IF HasSign(fn) THEN WithSign(w, a) ELSE a
        y == IF HasSign(fn) THEN WithSign(w, b) ELSE b
    IN  CASE fn \in {"uadd", "sadd"} -> x + y
          [] fn \in {"usub", "ssub"} -> x - y
          [] fn \in {"umul", "smul"} -> x * y
Least(fn, w)    == IF HasSign(fn) THEN -(2^(w - 1)) ELSE 0
Greatest(fn, w) == IF HasSign(fn) THEN 2^(w - 1) - 1 ELSE 2^w - 1

ResizedTo(op, from, to, a) ==
    CASE op = "zext" -> a
      [] op = "sext" -> WithSign(from, a) % 2^to
      [] op = "trunc" -> a % 2^to

\* Where a pointer to an element of type ty leads with these indices: to the
\* paths of the variable that it could mean, none if that is left open.
Reached(elements, ty, addr, indices) ==
    {p \in DOMAIN elements : \E q \in Found(elements, ty, addr) :
        LET rest == Path(Tail(indices))
            n    == Len(q)
        IN  \/ Head(indices) = 0 /\ p = q \o rest
            \/ /\ Head(indices) # 0 /\ n > 0
               /\ ~IsStruct(elements[SubSeq(q, 1, n - 1)].ty)
               /\ p = [q EXCEPT ![n] = @ + Head(indices)] \o rest}

\* The value with zeros everywhere.
RECURSIVE ZeroOf(_)
ZeroOf(ty) ==
    LET def == Definition(ty)
    IN  CASE def.kind \in {"int", "pointer"} -> 0
          [] def.kind \in {"array", "vector"} -> [k \in 1..def.n |-> ZeroOf(def.el)]
          [] def.kind = "struct" -> [k \in DOMAIN def.els |-> ZeroOf(def.els[k])]

\* The value of a constant.  A cast of a constant is one between integers and
\* pointers.
RECURSIVE ConstValue(_, _)
ConstValue(elements, c) ==
    CASE c.kind = "int" -> c.value % 2^c.bits
      [] c.kind = "zero" -> ZeroOf(c.ty)
      [] c.kind = "global" -> c.addr
      [] c.kind = "aggregate" -> [k \in DOMAIN c.els |-> ConstValue(elements, c.els[k])]
      [] c.kind = "binop" -> Result(c.op, Size(ConstType(c.a)), ConstValue(elements, c.a), ConstValue(elements, c.b))
      [] c.kind = "icmp" -> Truth(Holds(c.pred, Size(ConstType(c.a)), ConstValue(elements, c.a), ConstValue(elements, c.b)))
      [] c.kind = "convert" ->
           IF c.op = "cast" THEN ConstValue(elements, c.a)
           ELSE ResizedTo(c.op, Size(ConstType(c.a)), Size(c.ty), ConstValue(elements, c.a))
      [] c.kind = "select" -> IF ConstValue(elements, c.c) = 1 THEN ConstValue(elements, c.a) ELSE ConstValue(elements, c.b)
      [] c.kind = "extractelement" -> ConstValue(elements, c.a)[c.index.value + 1]
      [] c.kind = "insertelement" -> [ConstValue(elements, c.a) EXCEPT ![c.index.value + 1] = ConstValue(elements, c.el)]
      [] c.kind = "extractvalue" -> At(ConstValue(elements, c.a), Path(c.indices))
      [] c.kind = "insertvalue" -> Put(ConstValue(elements, c.a), Path(c.indices), ConstValue(elements, c.el))
      [] c.kind = "gep" ->
           elements[CHOOSE p \in Reached(elements, ConstType(c.a).el, ConstValue(elements, c.a), [k \in DOMAIN c.indices |-> ConstValue(elements, c.indices[k])]) : TRUE].addr

\* Whether there is an address at the end of the indices, the first of which
\* goes through a pointer of type ty: those into structs, at least, are
\* integers (the ones in ints).
Accessible(ty, indices, ints) ==
    /\ \A k \in DOMAIN indices : k \in ints \/ ~IsStruct(TypeAt(ty, SubSeq(indices, 1, k - 1)))
    /\ InWholeBytes(Size(ty.el))
    /\ Addressable(ty.el, Path(Tail(indices)))

\* The part of a constant at a path, if the structs on the way to it are all
\* written out.
RECURSIVE WrittenOut(_, _), Part(_, _)
WrittenOut(c, path) ==
    path # <<>> => /\ c.kind = "aggregate" /\ IsStruct(c.ty) /\ Head(path) \in DOMAIN c.els
                   /\ WrittenOut(c.els[Head(path)], Tail(path))
Part(c, path) == IF path = <<>> THEN c ELSE Part(c.els[Head(path)], Tail(path))

\* Whether the engine supports the constant c: what is taken out of vectors
\* and structs, or put into them, is written out.
RECURSIVE SupportedConst(_, _)
SupportedConst(elements, c) ==
    LET S(d) == SupportedConst(elements, d)
        path == Path(c.indices)
        Indexed == /\ c.index.kind = "int" /\ c.a.kind = "aggregate" /\ IsVector(c.a.ty)
                   /\ c.index.value < Len(c.a.els)
        ints == {k \in DOMAIN c.indices : c.indices[k].kind = "int"}
    IN  CASE c.kind \in {"int", "zero", "global"} -> TRUE
          [] c.kind = "aggregate" -> \A k \in DOMAIN c.els : S(c.els[k])
          [] c.kind \in {"binop", "icmp"} -> S(c.a) /\ S(c.b)
          [] c.kind = "convert" -> S(c.a)
          [] c.kind = "select" -> S(c.c) /\ S(IF ConstValue(elements, c.c) = 1 THEN c.a ELSE c.b)
          [] c.kind = "extractelement" -> Indexed /\ S(c.a.els[c.index.value + 1])
          [] c.kind = "insertelement" -> Indexed /\ S(c.el) /\ \A k \in DOMAIN c.a.els \ {c.index.value + 1} : S(c.a.els[k])
          [] c.kind = "extractvalue" -> WrittenOut(c.a, path) /\ S(Part(c.a, path))
          [] c.kind = "insertvalue" ->
               /\ WrittenOut(c.a, path) /\ S(c.el)
               /\ \A n \in DOMAIN path : LET els == Part(c.a, SubSeq(path, 1, n - 1)).els
                                         IN  \A k \in DOMAIN els \ {path[n]} : S(els[k])
          [] c.kind = "gep" ->
               /\ S(c.a) /\ \A k \in DOMAIN c.indices : S(c.indices[k])
               /\ Accessible(ConstType(c.a), [k \in DOMAIN c.indices |-> IF k \in ints THEN c.indices[k].value ELSE 0], ints)
-----------------------------------------------------------------------------
\* The width of an integer, or of the elements of a vector.
Width(ty) == Size(IF IsVector(ty) THEN ty.el ELSE ty)

IsNumeric(ty) == IF IsVector(ty) THEN ty.el.kind = "int" ELSE ty.kind = "int"
SameShape(t, u) == IsVector(t) = IsVector(u) /\ (IsVector(t) => t.n = u.n)

\* The type of an operand; regtype has those of the local variables.
TypeOf(regtype, op) == IF op.kind = "local" THEN regtype[op.name] ELSE ConstType(op.c)

\* Whether the engine supports the instruction i.
Supported(elements, regtype, i) ==
    LET T(k) == TypeOf(regtype, i.ops[k])
        dest == regtype[i.dest]
        IsInt(op) == op.kind = "constant" /\ op.c.kind = "int"
        Within(k) == IsInt(i.ops[k]) /\ IsVector(T(1)) /\ i.ops[k].c.value < T(1).n
        ints == {k \in DOMAIN i.indices : IsInt(i.indices[k])}
    IN  /\ \A op \in ToSet(i.ops) : op.kind = "constant" => SupportedConst(elements, op.c)
        /\ CASE i.op = "binop" -> T(1) = T(2) /\ IsNumeric(T(1))
             [] i.op = "icmp" -> T(1) = T(2) /\ T(1).kind \in {"int", "vector", "pointer"} /\ Width(dest) = 1
             [] i.op \in {"overflow", "saturating"} -> T(1) = T(2)
             [] i.op = "shufflevector" -> T(1) = T(2) /\ IsVector(T(1)) /\ i.mask # <<>> /\ ToSet(i.mask) \subseteq Nat
             [] i.op = "convert" -> IsNumeric(T(1)) /\ SameShape(T(1), dest)
             [] i.op = "select" -> T(2) = T(3) /\ Width(T(1)) = 1 /\ (IsVector(T(1)) => SameShape(T(1), T(2)))
             [] i.op = "extractelement" -> Within(2)
             [] i.op = "insertelement" -> Within(3)
             [] i.op \in {"extractvalue", "insertvalue"} -> Addressable(T(1), Path(i.indices))
             [] i.op = "gep" ->
                  /\ dest.kind = "pointer"
                  /\ \A op \in ToSet(i.indices) : op.kind = "constant" => SupportedConst(elements, op.c)
                  /\ Accessible(T(1), [k \in DOMAIN i.indices |-> IF k \in ints THEN i.indices[k].c.value ELSE 0], ints)
             [] i.op = "cmpxchg" -> T(2) = T(3) /\ dest = StructType(<<T(2), IntType(1)>>)
             [] i.op = "bswap" -> T(1) = dest /\ dest \in {IntType(n * BITS_IN_BYTE) : n \in {2, 4, 6, 8}}
             [] OTHER -> TRUE

\* The instruction i with the types and the values of its operands.
Understood(elements, regtype, i) ==
    LET T(op)   == TypeOf(regtype, op)
        Arg(op) == IF op.kind = "local" THEN [name |-> op.name, ty |-> T(op)]
                   ELSE [val |-> ConstValue(elements, op.c), ty |-> T(op)]
        ok == Supported(elements, regtype, i)
    IN  [op |-> i.op, fn |-> i.fn, dest |-> i.dest, ty |-> regtype[i.dest], mask |-> i.mask, supported |-> ok,
         w |-> IF ~ok THEN 0 ELSE Width(T(i.ops[1])),
         args |-> IF ~ok THEN <<>> ELSE [k \in DOMAIN i.ops |-> Arg(i.ops[k])],
         path |-> IF i.op = "gep" THEN <<>> ELSE Path(i.indices),
         indices |-> IF i.op = "gep" THEN [k \in DOMAIN i.indices |-> Arg(i.indices[k])] ELSE <<>>]
=============================================================================
