------------------------------ MODULE Constants ------------------------------
(***************************************************************************)
(* The operations on bitvectors that instructions and constant expressions *)
(* are translated to, and const_to_bv: the bitvector that a constant       *)
(* stands for.  A constant is a record; its elements and operands are      *)
(* constants in turn.  References to globals are addresses here, see       *)
(* module Globals for how they get them.                                   *)
(***************************************************************************)
EXTENDS Layout, BitVectors, Arithmetic

\* A bitvector as a number, and back.
ToNat(a) == FoldRight(LAMBDA bit, n : bit + 2 * n, a, 0)
FromNat(n, w) == [k \in 1..w |-> (n \div 2^(k - 1)) % 2]

\* The smallest number of a's width that is negative, see Arithmetic.
Half(a) == 2^(Len(a) - 1)

\* `sext(n)`: n copies of the sign bit on top.
Sext(a, n) == a \o [k \in 1..n |-> a[Len(a)]]

Bool(p) == <<IF p THEN 1 ELSE 0>>
CondBv(c, t, f) == IF c = <<1>> THEN t ELSE f

Abs(n) == IF n < 0 THEN -n ELSE n

\* Division that truncates, with Boolector's answers when b is 0.
SDiv(h, a, b) ==
    LET x == Signed(h, a)
        y == Signed(h, b)
        q == Abs(x) \div Abs(y)
    IN  IF b = 0 THEN IF x < 0 THEN 1 ELSE 2 * h - 1
        ELSE Wrap(h, IF (x < 0) = (y < 0) THEN q ELSE -q)

SRem(h, a, b) == IF b = 0 THEN a ELSE Wrap(h, Signed(h, a) - Signed(h, b) * Signed(h, SDiv(h, a, b)))

\* `binop_to_bvbinop`: the operation for an arithmetic or bitwise operator.
Binop(op, a, b) ==
    LET h == Half(a)
        x == ToNat(a)
        y == ToNat(b)
        N(n) == FromNat(n, Len(a))
    IN  CASE op = "add"  -> N(Plus(h, x, y))
          [] op = "sub"  -> N(Minus(h, x, y))
          [] op = "mul"  -> N(Times(h, x, y))
          [] op = "udiv" -> N(IF y = 0 THEN 2 * h - 1 ELSE x \div y)
          [] op = "sdiv" -> N(SDiv(h, x, y))
          [] op = "urem" -> N(IF y = 0 THEN x ELSE x % y)
          [] op = "srem" -> N(SRem(h, x, y))
          [] op = "and"  -> And(a, b)
          [] op = "or"   -> Or(a, b)
          [] op = "xor"  -> [k \in DOMAIN a |-> (a[k] + b[k]) % 2]
          [] op = "shl"  -> Sll(a, y)
          [] op = "lshr" -> Srl(a, y)
          [] op = "ashr" -> [k \in DOMAIN a |-> a[IF k + y <= Len(a) THEN k + y ELSE Len(a)]]

\* `intpred_to_bvpred`.
Icmp(pred, a, b) ==
    LET x == ToNat(a)
        y == ToNat(b)
        s == Signed(Half(a), x)
        t == Signed(Half(b), y)
    IN  Bool(CASE pred = "eq"  -> x = y
               [] pred = "ne"  -> x # y
               [] pred = "ugt" -> x > y
               [] pred = "uge" -> x >= y
               [] pred = "ult" -> x < y
               [] pred = "ule" -> x <= y
               [] pred = "sgt" -> s > t
               [] pred = "sge" -> s >= t
               [] pred = "slt" -> s < t
               [] pred = "sle" -> s <= t)

\* The n elements of a vector, the first one in the lowest bits.
Elements(v, n) ==
    LET size == Len(v) \div n
    IN  [k \in 1..n |-> Slice(v, k * size - 1, (k - 1) * size)]

\* `reduce(|a, b| b.concat(&a))`: the elements one above the other.
Joined(els) == FoldLeft(LAMBDA a, b : ConcatBv(b, a), <<>>, els)
-----------------------------------------------------------------------------
CInt(bits, value)      == [kind |-> "int", bits |-> bits, value |-> value]
CZero(ty)              == [kind |-> "zero", ty |-> ty]  \* Null, AggregateZero, Undef
CAggregate(ty, els)    == [kind |-> "aggregate", ty |-> ty, els |-> els]
CGlobal(ty, addr)      == [kind |-> "global", ty |-> PointerType(ty), addr |-> addr]
CBinop(op, a, b)       == [kind |-> "binop", op |-> op, a |-> a, b |-> b]
CICmp(pred, a, b)      == [kind |-> "icmp", pred |-> pred, a |-> a, b |-> b]
CConvert(op, a, ty)    == [kind |-> "convert", op |-> op, a |-> a, ty |-> ty]
CSelect(c, a, b)       == [kind |-> "select", c |-> c, a |-> a, b |-> b]
CExtractElement(v, k)  == [kind |-> "extractelement", a |-> v, index |-> k]
CInsertElement(v, e, k) == [kind |-> "insertelement", a |-> v, el |-> e, index |-> k]
CExtractValue(a, ks)   == [kind |-> "extractvalue", a |-> a, indices |-> ks]
CInsertValue(a, e, ks) == [kind |-> "insertvalue", a |-> a, el |-> e, indices |-> ks]
CGep(a, ks)            == [kind |-> "gep", a |-> a, indices |-> ks]

\* The mask of a shufflevector is a sequence of numbers; these stand for an
\* entry that is not an integer, and for a mask that is not a vector.
NotInt    == -1
NotVector == <<-2>>

\* The type at the end of the indices, the first of which goes through a pointer.
RECURSIVE TypeAt(_, _)
TypeAt(ty, indices) ==
    IF indices = <<>> THEN ty
    ELSE LET def == Definition(ty)
         IN  TypeAt(IF def.kind = "struct" THEN def.els[Head(indices) + 1] ELSE def.el, Tail(indices))

\* `get_type` of a constant.
RECURSIVE ConstType(_)
ConstType(c) ==
    CASE c.kind = "int" -> IntType(c.bits)
      [] c.kind \in {"zero", "aggregate", "global", "convert"} -> c.ty
      [] c.kind = "icmp" -> IntType(1)
      [] c.kind \in {"binop", "select", "insertelement", "insertvalue"} -> ConstType(c.a)
      [] c.kind = "extractelement" -> ConstType(c.a).el
      [] c.kind = "extractvalue" -> TypeAt(ConstType(c.a), c.indices)
      [] c.kind = "gep" -> PointerType(TypeAt(ConstType(c.a), [k \in DOMAIN c.indices |-> c.indices[k].value]))

\* `simplify_const_ev`: the constant that the indices lead to.
RECURSIVE SimplifyConstEv(_, _)
SimplifyConstEv(s, indices) ==
    IF indices = <<>> THEN Ok(s)
    ELSE IF s.kind # "aggregate" \/ ~IsStruct(s.ty) THEN Err("panic")
    ELSE IF Head(indices) >= Len(s.els) THEN Err("MalformedInstruction")
    ELSE SimplifyConstEv(s.els[Head(indices) + 1], Tail(indices))

\* `simplify_const_iv`: the same with the constant there replaced by val.
RECURSIVE SimplifyConstIv(_, _, _)
SimplifyConstIv(s, val, indices) ==
    IF indices = <<>> THEN Ok(val)
    ELSE IF s.kind # "aggregate" \/ ~IsStruct(s.ty) THEN Err("panic")
    ELSE IF Head(indices) >= Len(s.els) THEN Err("MalformedInstruction")
    ELSE LET inner == SimplifyConstIv(s.els[Head(indices) + 1], val, Tail(indices))
         IN  IF inner.ok THEN Ok([s EXCEPT !.els[Head(indices) + 1] = inner.val]) ELSE inner

\* The answer from two others, both of which must be Ok.
Both(r, s, v) == IF ~r.ok THEN r ELSE IF ~s.ok THEN s ELSE Ok(v)

\* A bitvector converted to the width w.
Converted(op, a, w) ==
    CASE op = "trunc" -> Slice(a, w - 1, 0)
      [] op = "zext" -> Uext(a, w - Len(a))
      [] op = "sext" -> Sext(a, w - Len(a))
      [] op = "cast" -> a

RECURSIVE ConstToBv(_), ConstOffset(_, _)

\* `get_offset_recursive` of state.rs: the offset in bytes, of pointer width.
\* An index is extended with zeros.
ConstOffset(indices, base) ==
    IF indices = <<>> THEN Ok(0)
    ELSE LET index == ConstToBv(Head(indices))
             first == IF IsStruct(base) THEN GetOffsetConstantIndex(base, Head(indices).value)
                      ELSE GetOffsetBvIndex(base, ToNat(index.val), POINTER_SIZE_BITS)
             rest  == ConstOffset(Tail(indices), first.val.ty)
         IN  CASE IsStruct(base) /\ Definition(base) # Opaque /\ Head(indices).kind # "int" -> Err("MalformedInstruction")
               [] ~IsStruct(base) /\ ~index.ok -> index
               [] OTHER -> IF ~first.ok THEN first
                           ELSE Both(first, rest, (first.val.bytes + rest.val) % 2^POINTER_SIZE_BITS)

\* `const_to_bv`.
ConstToBv(c) ==
    CASE c.kind = "int" -> Ok(FromNat(c.value, c.bits))
      [] c.kind = "zero" -> Ok(Zeros(Size(c.ty)))
      [] c.kind = "global" -> Ok(FromNat(c.addr, POINTER_SIZE_BITS))
      [] c.kind = "aggregate" ->
           LET els == [k \in DOMAIN c.els |-> ConstToBv(c.els[k])]
               bad == {k \in DOMAIN els : ~els[k].ok}
           IN  IF bad # {} THEN els[CHOOSE k \in bad : \A j \in bad : j <= k]
               ELSE Ok(Joined([k \in DOMAIN els |-> els[k].val]))
      [] c.kind = "binop" ->
           LET a == ConstToBv(c.a)
               b == ConstToBv(c.b)
           IN  Both(a, b, Binop(c.op, a.val, b.val))
      [] c.kind = "icmp" ->
           LET a == ConstToBv(c.a)
               b == ConstToBv(c.b)
           IN  Both(a, b, Icmp(c.pred, a.val, b.val))
      [] c.kind = "convert" ->
           LET a == ConstToBv(c.a)
           IN  IF a.ok THEN Ok(Converted(c.op, a.val, Size(c.ty))) ELSE a
      [] c.kind = "select" ->
           LET b == ConstToBv(c.c)
           IN  IF ~b.ok THEN b ELSE IF b.val = <<1>> THEN ConstToBv(c.a) ELSE ConstToBv(c.b)
      [] c.kind \in {"extractelement", "insertelement"} ->
           IF c.index.kind # "int" \/ c.a.kind # "aggregate" \/ ~IsVector(c.a.ty) THEN Err("MalformedInstruction")
           ELSE IF c.index.value >= Len(c.a.els) THEN Err("MalformedInstruction")
           ELSE IF c.kind = "extractelement" THEN ConstToBv(c.a.els[c.index.value + 1])
           ELSE ConstToBv([c.a EXCEPT !.els[c.index.value + 1] = c.el])
      [] c.kind = "extractvalue" ->
           LET s == SimplifyConstEv(c.a, c.indices)
           IN  IF s.ok THEN ConstToBv(s.val) ELSE s
      [] c.kind = "insertvalue" ->
           LET s == SimplifyConstIv(c.a, c.el, c.indices)
           IN  IF s.ok THEN ConstToBv(s.val) ELSE s
      [] c.kind = "gep" ->
           LET base   == ConstToBv(c.a)
               offset == ConstOffset(c.indices, ConstType(c.a))
           IN  Both(base, offset, Binop("add", base.val, FromNat(offset.val, POINTER_SIZE_BITS)))
=============================================================================
