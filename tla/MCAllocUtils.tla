---------------------------- MODULE MCAllocUtils ----------------------------
(* Blocks of a few bytes, around the size of a cell, and of unknown size,     *)
(* between objects of sizes below, at and above a byte and a cell, and zero.  *)
(* One allocated type is opaque in its own module and defined in another.     *)
EXTENDS AllocUtils
L == INSTANCE Layout WITH POINTER_SIZE_BITS <- 64
MCByteSizes == {0, 1, 3, 20}
MCSizes == {0, 1, 9, 31, 64, 130}
Project == << [s \in {"s"} |-> L!Opaque],
              [s \in {"s", "e"} |-> IF s = "e" THEN L!StructType(<<>>)
                                    ELSE L!StructType(<<L!IntType(8), L!PointerType(L!IntType(8))>>)] >>
MCElementSizes ==
    {L!SizeOpaqueAware(ty, Project) :
        ty \in {L!IntType(31), L!NamedType("s", L!Opaque), L!NamedType("e", L!Opaque),
                L!ArrayType(3, L!IntType(8))}}
=============================================================================
