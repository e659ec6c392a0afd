--------------------------- MODULE MCInstructions ---------------------------
(***************************************************************************)
(* Bytes of 2 bits and pointers of 4, so that 16 bytes are all the memory. *)
(* The variable in memory is a struct with an array of structs and a       *)
(* vector.  Every kind of instruction is there, on numbers, on vectors, on *)
(* structs and on elements in memory, and every kind of constant.          *)
(***************************************************************************)
EXTENDS InstructionsRefinement

I(bits) == IntType(bits)
Vec     == VectorType(2, I(2))
Mask    == VectorType(2, I(1))
Wide    == VectorType(2, I(4))
Flagged == StructType(<<I(2), I(1)>>)
Cell    == NamedType("cell", StructType(<<I(2), I(4)>>))
Packed  == StructType(<<I(1), I(2)>>)
MCObjType == NamedType("table", StructType(<<I(2), ArrayType(2, Cell), Vec>>))

MCRegType ==
    [x |-> I(2), y |-> I(2), z |-> I(4), c |-> I(1), v |-> Vec, u |-> Vec, m |-> Mask, w |-> Wide,
     f |-> Flagged, s |-> Cell, k |-> Packed,
     p |-> PointerType(I(2)), q |-> PointerType(Cell), o |-> PointerType(MCObjType), l |-> PointerType(Vec),
     ps |-> VectorType(2, PointerType(I(2)))]

Start(x, y, a) ==
    [x |-> FromNat(x, 2), y |-> FromNat(y, 2), z |-> FromNat(x + 4 * y, 4), c |-> FromNat(x % 2, 1),
     v |-> FromNat(x + 4 * y, 4), u |-> FromNat(y + 4 * ((x + 2) % 4), 4), m |-> FromNat(1 + (y % 2), 2), w |-> FromNat(201 - x - 16 * y, 8),
     f |-> FromNat(x, 3), s |-> FromNat(17 * x + 3, 6), k |-> FromNat(2 * y + 1, 3),
     p |-> FromNat(a, 4), q |-> FromNat((a + 1) % 16, 4), o |-> FromNat(4, 4), l |-> FromNat(11, 4),
     ps |-> FromNat(0, 8)]

MCStarts == {Start(x, y, <<0, 4, 7, 4>>[x + 1]) : x \in 0..3, y \in {1, 2}}

MCContents == {[k \in 1..32 |-> (k \div 3) % 2]}

X == Local("x")
Y == Local("y")
K(bits, n) == Constant(CInt(bits, n))

On(op, fn, dest, ops) == [op |-> op, fn |-> fn, dest |-> dest, ops |-> ops, indices |-> <<>>, mask |-> <<>>]
At_(i, indices) == [i EXCEPT !.indices = indices]

\* An element that is not there.
BadBit == CExtractElement(CAggregate(Mask, <<CInt(1, 0), CInt(1, 1)>>), CInt(4, 2))

Numbers ==
    {On("binop", fn, "x", <<X, Y>>) :
        fn \in {"add", "sub", "mul", "udiv", "sdiv", "urem", "srem", "and", "or", "xor", "shl", "lshr", "ashr"}}
    \cup {On("icmp", fn, "c", <<X, Y>>) : fn \in {"eq", "ne", "ugt", "uge", "ult", "ule", "sgt", "sge", "slt", "sle"}}
    \cup {On("convert", "zext", "z", <<X>>), On("convert", "sext", "z", <<Y>>), On("convert", "trunc", "y", <<Local("z")>>),
          On("select", "", "x", <<Local("c"), X, Y>>), On("icmp", "eq", "c", <<Local("q"), Local("q")>>),
          On("binop", "add", "x", <<X, Local("z")>>), On("icmp", "eq", "c", <<X, Local("z")>>),
          On("binop", "add", "p", <<Local("p"), Local("p")>>), On("icmp", "eq", "x", <<X, Y>>),
          On("icmp", "eq", "c", <<Local("s"), Local("s")>>), On("convert", "zext", "z", <<Local("p")>>)}

Intrinsics ==
    {On("overflow", fn, "f", <<X, Y>>) : fn \in {"uadd", "sadd", "usub", "ssub", "umul", "smul"}}
    \cup {On("saturating", fn, "x", <<X, Y>>) : fn \in {"uadd", "sadd", "usub", "ssub"}}
    \cup {On("overflow", "uadd", "f", <<X, Local("z")>>),
          On("bswap", "", "z", <<Local("z")>>), On("bswap", "", "x", <<X>>), On("bswap", "", "x", <<Local("z")>>),
          On("bswap", "", "v", <<Local("v")>>),
          On("objectsize", "", "z", <<Local("p"), Local("c")>>), On("objectsize", "", "z", <<Local("p"), Constant(BadBit)>>)}

Vectors ==
    {On("binop", fn, "v", <<Local("v"), Local("u")>>) : fn \in {"add", "mul", "xor", "ashr"}}
    \cup {On("icmp", fn, "m", <<Local("v"), Local("u")>>) : fn \in {"eq", "slt"}}
    \cup {On("convert", "zext", "w", <<Local("v")>>), On("convert", "sext", "w", <<Local("v")>>),
          On("convert", "trunc", "u", <<Local("w")>>), On("convert", "zext", "z", <<Local("v")>>),
          On("select", "", "v", <<Local("m"), Local("v"), Local("u")>>), On("select", "", "u", <<Local("c"), Local("v"), Local("u")>>),
          On("select", "", "x", <<Local("m"), X, Y>>), On("select", "", "x", <<Local("c"), X, Local("z")>>),
          On("select", "", "x", <<Y, X, Y>>), On("select", "", "v", <<Local("u"), Local("v"), Local("u")>>),
          On("cast", "", "z", <<Local("v")>>), On("cast", "", "v", <<Local("z")>>),
          On("extractelement", "", "x", <<Local("u"), K(4, 1)>>), On("extractelement", "", "x", <<Local("u"), K(4, 2)>>),
          On("extractelement", "", "x", <<Local("u"), Y>>), On("insertelement", "", "v", <<Local("v"), X, K(4, 0)>>),
          On("insertelement", "", "u", <<Local("u"), Y, K(4, 1)>>), On("insertelement", "", "v", <<Local("v"), X, K(4, 3)>>)}
    \cup {On("shufflevector", "", "v", <<Local("v"), Local("w")>>)}
    \cup {[On("shufflevector", "", "v", <<Local("v"), Local("u")>>) EXCEPT !.mask = m] :
            m \in {<<0, 1>>, <<0, 2>>, <<3, 1>>, <<3, 2>>, <<0, NotInt>>, NotVector, <<>>}}

Aggregates ==
    {At_(On("extractvalue", "", "y", <<Local("s")>>), <<0>>), At_(On("extractvalue", "", "z", <<Local("s")>>), <<1>>),
     At_(On("extractvalue", "", "c", <<Local("f")>>), <<1>>), At_(On("extractvalue", "", "x", <<Local("k")>>), <<1>>),
     At_(On("insertvalue", "", "s", <<Local("s"), X>>), <<0>>), At_(On("insertvalue", "", "s", <<Local("s"), Local("z")>>), <<1>>),
     At_(On("insertvalue", "", "f", <<Local("f"), Local("c")>>), <<1>>), At_(On("insertvalue", "", "k", <<Local("k"), X>>), <<1>>)}

Accesses ==
    {On("load", "", "x", <<Local("p")>>), On("load", "", "s", <<Local("q")>>), On("load", "", "v", <<Local("l")>>),
     On("store", "", "x", <<Y, Local("p")>>), On("store", "", "x", <<Local("s"), Local("q")>>), On("store", "", "x", <<Local("v"), Local("l")>>),
     On("cmpxchg", "", "f", <<Local("p"), X, Y>>), On("cmpxchg", "", "f", <<Local("p"), X, Local("z")>>), On("cmpxchg", "", "z", <<Local("p"), X, Y>>),
     At_(On("gep", "", "p", <<Local("o")>>), <<K(4, 0), K(4, 0)>>),
     At_(On("gep", "", "q", <<Local("o")>>), <<K(4, 0), K(4, 1), X>>),
     At_(On("gep", "", "p", <<Local("o")>>), <<K(4, 0), K(4, 1), Local("z"), K(4, 0)>>),
     At_(On("gep", "", "p", <<Local("o")>>), <<K(4, 0), K(4, 2), Y>>),
     At_(On("gep", "", "p", <<Local("o")>>), <<K(4, 0), X>>),
     At_(On("gep", "", "ps", <<Local("o")>>), <<K(4, 0), K(4, 0)>>),
     At_(On("gep", "", "x", <<Local("o")>>), <<K(4, 0), K(4, 0)>>),
     At_(On("gep", "", "q", <<Local("q")>>), <<Local("z")>>), At_(On("gep", "", "p", <<Local("q")>>), <<X, K(4, 0)>>)}

Global == CGlobal(MCObjType, 4)
ACell(a, b) == CAggregate(Cell, <<CInt(2, a), CInt(4, b)>>)
AVec(a, b) == CAggregate(Vec, <<CInt(2, a), CInt(2, b)>>)

Constants_ ==
    {On("cast", "", "x", <<Constant(c)>>) : c \in
        {CBinop(op, CInt(2, 1), CInt(2, 2)) : op \in {"add", "sub", "mul", "udiv", "sdiv", "urem", "srem", "and", "or", "xor", "shl", "lshr", "ashr"}}
        \cup {CConvert("trunc", CInt(4, 14), I(2)), CSelect(CICmp("slt", CInt(2, 3), CInt(2, 1)), CInt(2, 2), CInt(2, 1)),
              CSelect(CICmp("ult", CInt(2, 3), CInt(2, 1)), CInt(2, 2), CInt(2, 1)),
              CExtractElement(AVec(3, 1), CInt(4, 1)), CExtractElement(AVec(3, 1), CInt(4, 2)), CExtractElement(CZero(Vec), CInt(4, 0)),
              CExtractValue(ACell(2, 9), <<0>>), CExtractValue(CZero(Cell), <<0>>), CExtractValue(ACell(2, 9), <<2>>)}}
    \cup {On("cast", "", "z", <<Constant(c)>>) : c \in
        {CConvert("zext", CInt(2, 3), I(4)), CConvert("sext", CInt(2, 3), I(4)), CExtractValue(ACell(2, 9), <<1>>),
         CConvert("cast", Global, I(4))}}
    \cup {On("cast", "", "v", <<Constant(c)>>) : c \in
        {AVec(1, 2), CZero(Vec), CInsertElement(AVec(1, 2), CInt(2, 3), CInt(4, 0)), CInsertElement(AVec(1, 2), CInt(2, 3), CInt(4, 2))}}
    \cup {On("cast", "", "s", <<Constant(c)>>) : c \in
        {ACell(1, 6), CZero(Cell), CInsertValue(ACell(1, 6), CInt(4, 11), <<1>>), CInsertValue(CZero(Cell), CInt(4, 11), <<1>>)}}
    \cup {On("cast", "", "p", <<Constant(c)>>) : c \in
        {CGep(Global, <<CInt(4, 0), CInt(4, 1), CInt(4, 1), CInt(4, 0)>>), CGep(Global, <<CInt(4, 0), CInt(4, 0)>>),
         CGep(Global, <<CInt(4, 0), CICmp("eq", CInt(2, 0), CInt(2, 0))>>)}}
    \cup {On("cast", "", "q", <<Constant(CGep(Global, <<CInt(4, 0), CInt(4, 1), CInt(2, 1)>>))>>),
          On("cast", "", "l", <<Constant(CGep(Global, <<CInt(4, 0), CInt(4, 2)>>))>>)}

MCCode == Numbers \cup Intrinsics \cup Vectors \cup Aggregates \cup Accesses \cup Constants_
=============================================================================
