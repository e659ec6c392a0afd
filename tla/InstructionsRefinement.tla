----------------------- MODULE InstructionsRefinement -----------------------
(***************************************************************************)
(* The instructions on flat bitvectors implement those on values.          *)
(***************************************************************************)
EXTENDS Instructions, Meanings

\* Where the parts of a value of type ty are, from the bit start on.
RECURSIVE Shape(_, _)
Shape(ty, start) ==
    LET def == Definition(ty)
        types == IF def.kind = "struct" THEN def.els ELSE [k \in 1..def.n |-> def.el]
    IN  IF def.kind \in {"int", "pointer"} THEN [low |-> start + 1, high |-> start + Size(def)]
        ELSE [parts |-> [k \in DOMAIN types |-> Shape(types[k], start + Size(StructType(SubSeq(types, 1, k - 1))))]]

\* The value of that shape in the bits: an integer, or a sequence of values.
RECURSIVE Decode(_, _)
Decode(shape, bits) ==
    IF "parts" \in DOMAIN shape THEN [k \in DOMAIN shape.parts |-> Decode(shape.parts[k], bits)]
    ELSE ToNat(SubSeq(bits, shape.low, shape.high))

RegShape    == [n \in DOMAIN RegType |-> Shape(RegType[n], 0)]
ObjectStart == ObjAddr * BITS_IN_BYTE
ObjectEnd   == ObjectStart + Size(ObjType)
ObjectShape == Shape(ObjType, ObjectStart)

\* The variable in memory and the instructions, understood.
ObjFields == ElementsOf(ObjType, ObjAddr)
MeaningOf == [i \in Code |-> Understood(ObjFields, RegType, i)]
Understandings == {MeaningOf[i] : i \in Code}
ObjBytes  == {ObjAddr + k : k \in 0..((Size(ObjType) - 1) \div BITS_IN_BYTE)}

Meaning == INSTANCE Values WITH
    Instrs   <- Understandings,
    Fields   <- ObjFields,
    locals   <- [n \in DOMAIN regs |-> Decode(RegShape[n], regs[n])],
    object   <- Decode(ObjectShape, mem),
    beyond   <- SubSeq(mem, 1, ObjectStart) \o SubSeq(mem, ObjectEnd + 1, Len(mem)),
    time     <- steps,
    ran      <- IF ran = NoInstruction THEN ran ELSE MeaningOf[ran],
    over     <- failed # NoError

\* Every instruction does to the flat bitvectors what it means for the values
\* that they hold: elements of vectors and aggregates stay apart, elements
\* in local variables and in memory are the same ones, nothing else in memory
\* changes, and errors are only those of what is not supported.
ValuesSpec == Meaning!Spec

\* What the documentation says of the saturating operations, here of `ssubs`:
\* "if the operation would (signed) overflow for being too positive / too
\* negative, the largest / smallest signed value respectively (for that
\* bitwidth) is returned instead".
SaturatesAsDocumented ==
    \A i \in Code, a, b \in DOMAIN regs : i.op = "saturating" /\ i.ops = <<Local(a), Local(b)>> =>
        LET w == Size(RegType[a])
            n == Exact(i.fn, w, ToNat(regs[a]), ToNat(regs[b]))
        IN  ToNat(Saturating(i.fn, regs[a], regs[b])) = Clamp(Least(i.fn, w), Greatest(i.fn, w), n) % 2^w
=============================================================================
