---------------------------- MODULE Instructions ----------------------------
(***************************************************************************)
(* The instructions that compute values: how symex.rs and the hooks for    *)
(* the arithmetic intrinsics turn them into operations on flat bitvectors. *)
(*                                                                         *)
(* One input is followed, so that every bitvector has one value: the       *)
(* operations work on each input alike.  The memory is the string of bits  *)
(* that module ByteMemory promises, with the check for null pointers.  An  *)
(* error ends the path.                                                    *)
(***************************************************************************)
EXTENDS Constants

CONSTANTS Code,      \* the instructions, as records with op, dest and ops
          RegType,   \* the types of the local variables
          Starts,    \* the values that the variables start with
          ObjType,   \* the type of the global variable in memory,
          ObjAddr,   \* its address,
          Contents,  \* and what the memory may hold at first
          NUM_BYTES, \* the size of the memory
          MaxSteps   \* bound: the number of instructions executed

VARIABLES regs,    \* what `varmap` has for each local variable
          mem,     \* `State.mem`
          failed,  \* the error that ended the path, or NoError
          steps,   \* the number of instructions executed
          ran      \* history: the last instruction

vars == <<regs, mem, failed, steps, ran>>

NoError == "none"
NoInstruction == [op |-> "none"]

Bytes == INSTANCE ByteMemory WITH contents <- mem, given <- regs, asked <- failed, over <- FALSE, symbolic <- FALSE

\* An operand is a local variable, or a constant with what `const_to_bv`
\* answers for it.
Local(name) == [kind |-> "local", name |-> name]
Constant(c) == [kind |-> "constant", c |-> c, bv |-> ConstToBv(c)]

\* `get_type` of an operand.
OperandType(op) == IF op.kind = "local" THEN RegType[op.name] ELSE ConstType(op.c)

\* `operand_to_bv`.
OperandToBv(op) == IF op.kind = "local" THEN Ok(regs[op.name]) ELSE op.bv

Type(i, k) == OperandType(i.ops[k])

\* Below, a has the answers of `operand_to_bv` for the operands of the
\* instruction i: the answer r, unless one of them has failed.
Evaluated(a, r) ==
    LET bad == {k \in DOMAIN a : ~a[k].ok}
    IN  IF bad = {} THEN r ELSE a[CHOOSE k \in bad : \A j \in bad : k <= j]

Malformed   == Err("MalformedInstruction")
Unsupported == Err("UnsupportedInstruction")

\* Integers, or vectors of integers.
IsIntegers(ty) == ty.kind = "int" \/ (IsVector(ty) /\ ty.el.kind = "int")

\* The k-th of the n elements of the vector that is the j-th operand.
Element(a, n, j, k) == Elements(a[j].val, n)[k]
-----------------------------------------------------------------------------
\* `symex_binop`.
SymexBinop(i, a) ==
    LET ty == Type(i, 1)
    IN  IF Type(i, 2) # ty THEN Malformed
        ELSE Evaluated(a,
            IF ~IsIntegers(ty) THEN Malformed
            ELSE IF IsVector(ty)
            THEN Ok(Joined([k \in 1..ty.n |-> Binop(i.fn, Element(a, ty.n, 1, k), Element(a, ty.n, 2, k))]))
            ELSE Ok(Binop(i.fn, a[1].val, a[2].val)))

\* `symex_icmp`.
SymexIcmp(i, a) ==
    LET ty == RegType[i.dest]
    IN  Evaluated(a,
            IF Type(i, 1) # Type(i, 2) \/ Type(i, 1).kind \notin {"int", "vector", "pointer"} THEN Malformed
            ELSE IF ty = IntType(1) THEN Ok(Icmp(i.fn, a[1].val, a[2].val))
            ELSE IF ~IsVector(ty) \/ ty.el # IntType(1) THEN Malformed
            ELSE Ok(Joined([k \in 1..ty.n |-> Icmp(i.fn, Element(a, ty.n, 1, k), Element(a, ty.n, 2, k))])))

\* `symex_zext`, `symex_sext` and `symex_trunc`.
SymexConvert(i, a) ==
    LET from == Type(i, 1)
        to   == RegType[i.dest]
    IN  IF from.kind \notin {"int", "vector"} THEN Malformed
        ELSE Evaluated(a,
            IF ~IsVector(from) THEN Ok(Converted(i.fn, a[1].val, Size(to)))
            ELSE IF ~IsVector(to) \/ to.n # from.n THEN Malformed
            ELSE Ok(Joined([k \in 1..from.n |-> Converted(i.fn, Element(a, from.n, 1, k), Size(to.el))])))

\* `symex_cast_op`: "from Boolector's perspective a cast is simply a no-op".
SymexCastOp(i, a) == Evaluated(a, Ok(a[1].val))

\* `symex_select`.
SymexSelect(i, a) ==
    LET ctype == Type(i, 1)
        ty    == Type(i, 2)
        Chosen(k) == CondBv(Element(a, ctype.n, 1, k), Element(a, ctype.n, 2, k), Element(a, ctype.n, 3, k))
    IN  IF Type(i, 3) # ty THEN Malformed
        ELSE IF ctype = IntType(1) THEN Evaluated(a, Ok(CondBv(a[1].val, a[2].val, a[3].val)))
        ELSE IF ~IsVector(ctype) \/ ctype.el # IntType(1) \/ ~IsVector(ty) \/ ty.n # ctype.n THEN Malformed
        ELSE Evaluated(a, Ok(Joined([k \in 1..ctype.n |-> Chosen(k)])))
-----------------------------------------------------------------------------
\* Mutant: the bits above the segment are lost.
OverwriteBelow(original, data, low, high) ==
    Uext(ConcatBv(data, Slice(original, low - 1, 0)), Len(original) - high - 1)

\* `overwrite_bv_segment`: the bits from low to high replaced by data.
OverwriteBvSegment(original, data, low, high) ==
    LET mask_clear     == ConcatBv(ConcatBv(Ones(Len(original) - high - 1), Zeros(Len(data))), Ones(low))
        mask_overwrite == ConcatBv(Uext(data, Len(original) - low - Len(data)), Zeros(low))
    IN  Or(And(original, mask_clear), mask_overwrite)

IsInt(op) == op.kind = "constant" /\ op.c.kind = "int"

\* `symex_extractelement`.
SymexExtractElement(i, a) ==
    LET ty    == Type(i, 1)
        index == i.ops[2].c.value
    IN  Evaluated(<<a[1]>>,
            IF ~IsInt(i.ops[2]) THEN Unsupported
            ELSE IF ~IsVector(ty) \/ index >= ty.n THEN Malformed
            ELSE Ok(Slice(a[1].val, (index + 1) * Size(ty.el) - 1, index * Size(ty.el))))

\* `symex_insertelement`.
SymexInsertElement(i, a) ==
    LET ty    == Type(i, 1)
        index == i.ops[3].c.value
    IN  Evaluated(<<a[1], a[2]>>,
            IF ~IsInt(i.ops[3]) THEN Unsupported
            ELSE IF ~IsVector(ty) \/ index >= ty.n THEN Malformed
            ELSE Ok(OverwriteBvSegment(a[1].val, a[2].val, index * Size(ty.el), (index + 1) * Size(ty.el) - 1)))

\* `symex_shufflevector`.  The mask has the numbers of elements, counted from
\* 0 through both vectors; 0 stands for an element that is undefined, too.
SymexShuffleVector(i, a) ==
    LET ty == Type(i, 1)
    IN  IF Type(i, 2) # ty \/ ~IsVector(ty) \/ i.mask = NotVector THEN Malformed
        ELSE IF NotInt \in ToSet(i.mask) THEN Unsupported
        ELSE Evaluated(a,
            IF i.mask = <<>> THEN Malformed
            ELSE Ok(Joined([k \in DOMAIN i.mask |->
                IF i.mask[k] < ty.n THEN Element(a, ty.n, 1, i.mask[k] + 1)
                ELSE Element(a, ty.n, 2, i.mask[k] - ty.n + 1)])))

\* `symex_extractvalue`.
SymexExtractValue(i, a) ==
    LET place == OffsetOfConstIndices(i.indices, Type(i, 1))
        low   == place.val.bytes * BITS_IN_BYTE
    IN  Evaluated(a,
            IF ~place.ok THEN place
            ELSE Ok(Slice(a[1].val, low + Size(place.val.ty) - 1, low)))

\* `symex_insertvalue`.
SymexInsertValue(i, a) ==
    LET place == OffsetOfConstIndices(i.indices, Type(i, 1))
        low   == place.val.bytes * BITS_IN_BYTE
    IN  Evaluated(a,
            IF ~place.ok THEN place
            ELSE Ok(OverwriteBvSegment(a[1].val, a[2].val, low, low + Size(place.val.ty) - 1)))
-----------------------------------------------------------------------------
\* `get_offset_recursive` of symex.rs: the offset in bytes, of pointer width.
\* An index is extended with zeros, and must be constant for a struct.
RECURSIVE OffsetOfIndices(_, _)
OffsetOfIndices(indices, base) ==
    IF indices = <<>> THEN Ok(0)
    ELSE LET index == OperandToBv(Head(indices))
             first == IF IsStruct(base) THEN GetOffsetConstantIndex(base, Head(indices).c.value)
                      ELSE GetOffsetBvIndex(base, ToNat(index.val), POINTER_SIZE_BITS)
             rest  == OffsetOfIndices(Tail(indices), first.val.ty)
         IN  IF IsStruct(base) /\ Definition(base) # Opaque /\ ~IsInt(Head(indices)) THEN Malformed
             ELSE IF ~IsStruct(base) /\ ~index.ok THEN index
             ELSE IF ~first.ok THEN first
             ELSE Both(first, rest, (first.val.bytes + rest.val) % 2^POINTER_SIZE_BITS)

\* `symex_gep`.
SymexGep(i, a) ==
    LET offset == OffsetOfIndices(i.indices, Type(i, 1))
    IN  IF IsVector(RegType[i.dest]) THEN Unsupported
        ELSE IF RegType[i.dest].kind # "pointer" THEN Malformed
        ELSE Evaluated(a,
            IF ~offset.ok THEN offset
            ELSE Ok(Binop("add", a[1].val, FromNat(offset.val, POINTER_SIZE_BITS))))

\* `State::read` and `State::write`, see module StateMemory.
Read(addr, bits) ==
    IF ToNat(addr) = 0 THEN Err("NullPointerDereference") ELSE Ok(Bytes!BitsAt(mem, ToNat(addr), bits))

Written(addr, val) ==
    IF ToNat(addr) = 0 THEN Err("NullPointerDereference") ELSE Ok(Bytes!Overwrite(mem, ToNat(addr), val))

\* `symex_load`.
SymexLoad(i, a) == Evaluated(a, Read(a[1].val, Size(RegType[i.dest])))

\* `symex_store`, of the first operand to the second: the new memory.
SymexStore(i, a) == Evaluated(a, Written(a[2].val, a[1].val))

\* `symex_cmpxchg`, of the expected and the replacement value at the address:
\* the new memory and the result.
SymexCmpXchg(i, a) ==
    LET addr  == a[1].val
        read  == Read(addr, Len(a[2].val))
        match == Icmp("eq", read.val, a[2].val)
        after == Written(addr, CondBv(match, a[3].val, read.val))
    IN  IF Type(i, 2) # Type(i, 3) \/ RegType[i.dest] # StructType(<<Type(i, 2), IntType(1)>>) THEN Malformed
        ELSE Evaluated(a,
            IF ~read.ok THEN read
            ELSE Ok([mem |-> after.val, result |-> ConcatBv(match, read.val)]))
-----------------------------------------------------------------------------
\* The hooks for the intrinsics that add, subtract and multiply: the flag for
\* overflow goes above the result.
WithOverflow(fn, a, b) ==
    LET h == Half(a)
        x == ToNat(a)
        y == ToNat(b)
        Flagged(flag, op) == ConcatBv(Bool(flag), Binop(op, a, b))
    IN  CASE fn = "uadd" -> Flagged(UAddO(h, x, y), "add")
          [] fn = "sadd" -> Flagged(SAddO(h, x, y), "add")
          [] fn = "usub" -> Flagged(USubO(h, x, y), "sub")
          [] fn = "ssub" -> Flagged(SSubO(h, x, y), "sub")
          [] fn = "umul" -> Flagged(UMulO(h, x, y), "mul")
          [] fn = "smul" -> Flagged(SMulO(h, x, y), "mul")

Saturating(fn, a, b) ==
    LET h == Half(a)
        x == ToNat(a)
        y == ToNat(b)
    IN  FromNat(CASE fn = "uadd" -> UAddS(h, x, y)
                  [] fn = "sadd" -> SAddS(h, x, y)
                  [] fn = "usub" -> USubS(h, x, y)
                  [] fn = "ssub" -> SSubS(h, x, y), Len(a))

\* `symex_u/sadd/sub/mul_with_overflow`, and the saturating ones.
SymexArithmetic(i, a) ==
    IF Type(i, 1) # Type(i, 2) THEN Err("OtherError")
    ELSE Evaluated(a, Ok(IF i.op = "overflow" THEN WithOverflow(i.fn, a[1].val, a[2].val)
                         ELSE Saturating(i.fn, a[1].val, a[2].val)))

\* `symex_bswap`: the bytes concatenated from the first one on, for the sizes
\* that the hook knows.
SymexBswap(i, a) ==
    LET bytes == Size(Type(i, 1)) \div BITS_IN_BYTE
    IN  IF RegType[i.dest] # Type(i, 1) THEN Err("OtherError")
        ELSE Evaluated(a,
            IF Type(i, 1) \notin {IntType(n * BITS_IN_BYTE) : n \in {2, 4, 6, 8}} THEN Unsupported
            ELSE Ok(FoldLeft(LAMBDA x, y : ConcatBv(x, y), <<>>, Elements(a[1].val, bytes))))

\* `symex_objectsize`: unknown, which is 0 or -1.
SymexObjectSize(i, a) ==
    Evaluated(<<a[2]>>, LET w == Size(RegType[i.dest]) IN Ok(CondBv(a[2].val, Zeros(w), Ones(w))))
-----------------------------------------------------------------------------
Init ==
    /\ regs \in Starts
    /\ mem \in Contents
    /\ failed = NoError
    /\ steps = 0
    /\ ran = NoInstruction

\* The instruction i is executed: its result is recorded, or the path ends.
Executing(i) == failed = NoError /\ steps < MaxSteps /\ steps' = steps + 1 /\ ran' = i

Fail(r) == ~r.ok /\ failed' = r.err /\ UNCHANGED <<regs, mem>>

\* `record_bv_result`.
Record(i, answer) ==
    \E r \in {answer} :
        \/ Fail(r)
        \/ r.ok /\ regs' = [regs EXCEPT ![i.dest] = r.val] /\ UNCHANGED <<mem, failed>>

Store(i, a) ==
    \E r \in {SymexStore(i, a)} :
        \/ Fail(r)
        \/ r.ok /\ mem' = r.val /\ UNCHANGED <<regs, failed>>

CmpXchg(i, a) ==
    \E r \in {SymexCmpXchg(i, a)} :
        \/ Fail(r)
        \/ r.ok /\ mem' = r.val.mem /\ regs' = [regs EXCEPT ![i.dest] = r.val.result] /\ UNCHANGED failed

\* The end of the path.
Ended == (failed # NoError \/ steps = MaxSteps) /\ UNCHANGED vars

Next ==
    \/ \E i \in Code : Executing(i) /\ \E a \in {[k \in DOMAIN i.ops |-> OperandToBv(i.ops[k])]} :
           \/ i.op = "binop" /\ Record(i, SymexBinop(i, a))
           \/ i.op = "icmp" /\ Record(i, SymexIcmp(i, a))
           \/ i.op = "convert" /\ Record(i, SymexConvert(i, a))
           \/ i.op = "cast" /\ Record(i, SymexCastOp(i, a))
           \/ i.op = "select" /\ Record(i, SymexSelect(i, a))
           \/ i.op = "extractelement" /\ Record(i, SymexExtractElement(i, a))
           \/ i.op = "insertelement" /\ Record(i, SymexInsertElement(i, a))
           \/ i.op = "shufflevector" /\ Record(i, SymexShuffleVector(i, a))
           \/ i.op = "extractvalue" /\ Record(i, SymexExtractValue(i, a))
           \/ i.op = "insertvalue" /\ Record(i, SymexInsertValue(i, a))
           \/ i.op = "gep" /\ Record(i, SymexGep(i, a))
           \/ i.op = "load" /\ Record(i, SymexLoad(i, a))
           \/ i.op = "store" /\ Store(i, a)
           \/ i.op = "cmpxchg" /\ CmpXchg(i, a)
           \/ i.op \in {"overflow", "saturating"} /\ Record(i, SymexArithmetic(i, a))
           \/ i.op = "bswap" /\ Record(i, SymexBswap(i, a))
           \/ i.op = "objectsize" /\ Record(i, SymexObjectSize(i, a))
    \/ Ended

Spec == Init /\ [][Next]_vars
=============================================================================
