------------------------------- MODULE Layout -------------------------------
(***************************************************************************)
(* Types and the places of their elements.  A value of any type is a flat  *)
(* bitvector: the elements of an aggregate follow each other without       *)
(* padding, the first one lowest.                                          *)
(*                                                                         *)
(* A type is a record; a named struct type has the definition that its own *)
(* module gives it, or Opaque.  A project is the sequence of the named     *)
(* struct types of its modules, as functions from names to definitions.    *)
(***************************************************************************)
EXTENDS Integers, Sequences, SequencesExt

CONSTANTS BITS_IN_BYTE,       \* 8, of which the code makes bytes
          POINTER_SIZE_BITS

ASSUME LayoutAssumption == BITS_IN_BYTE \in Nat \ {0} /\ POINTER_SIZE_BITS \in Nat \ {0}

IntType(bits)       == [kind |-> "int", bits |-> bits]
PointerType(to)     == [kind |-> "pointer", el |-> to]
ArrayType(n, el)    == [kind |-> "array", n |-> n, el |-> el]
VectorType(n, el)   == [kind |-> "vector", n |-> n, el |-> el]
StructType(els)     == [kind |-> "struct", els |-> els]
NamedType(name, ty) == [kind |-> "named", name |-> name, ty |-> ty]
Opaque              == [kind |-> "opaque"]
NotFound            == [kind |-> "not found"]

IsVector(ty) == ty.kind = "vector"
IsStruct(ty) == ty.kind \in {"struct", "named"}

Ok(v)  == [ok |-> TRUE, val |-> v]
Err(e) == [ok |-> FALSE, err |-> e]

\* `size`, in bits.  There is none for an opaque type: the code panics.
RECURSIVE Size(_)
Size(ty) ==
    CASE ty.kind = "int" -> ty.bits
      [] ty.kind = "pointer" -> POINTER_SIZE_BITS
      [] ty.kind \in {"array", "vector"} -> ty.n * Size(ty.el)
      [] ty.kind = "struct" -> FoldLeft(LAMBDA s, t : s + Size(t), 0, ty.els)
      [] ty.kind = "named" -> Size(ty.ty)

\* `get_named_struct_type_by_name`: the first definition that is not opaque,
\* or Opaque if the name has no other.
GetNamedStructType(project, name) ==
    LET found == SelectSeq(project, LAMBDA m : name \in DOMAIN m)
        real  == SelectSeq(found, LAMBDA m : m[name] # Opaque)
    IN  IF real # <<>> THEN Head(real)[name] ELSE IF found # <<>> THEN Opaque ELSE NotFound

\* `get_inner_struct_type_from_named`.  The code panics for a name that is not
\* found: NotFound has no size.
GetInnerStructType(project, ty) ==
    IF ty.ty # Opaque THEN ty.ty ELSE GetNamedStructType(project, ty.name)

NoSize == -1

\* `size_opaque_aware`: NoSize if some part is opaque in the entire project.
RECURSIVE SizeOpaqueAware(_, _)
SizeOpaqueAware(ty, project) ==
    CASE ty.kind = "named" ->
           LET inner == GetInnerStructType(project, ty)
           IN  IF inner = Opaque THEN NoSize ELSE SizeOpaqueAware(inner, project)
      [] ty.kind \in {"array", "vector"} ->
           LET s == SizeOpaqueAware(ty.el, project)
           IN  IF s = NoSize THEN NoSize ELSE s * ty.n
      [] ty.kind = "struct" ->
           LET ss == [k \in DOMAIN ty.els |-> SizeOpaqueAware(ty.els[k], project)]
           IN  IF \E k \in DOMAIN ss : ss[k] = NoSize THEN NoSize
               ELSE FoldLeft(LAMBDA a, b : a + b, 0, ss)
      [] OTHER -> Size(ty)

\* The struct type behind ty, if ty is named.
Definition(ty) == IF ty.kind = "named" THEN ty.ty ELSE ty

\* A number of bits as a number of bytes.
InBytes(bits, ty) ==
    IF bits % BITS_IN_BYTE # 0 THEN Err("UnsupportedInstruction")
    ELSE Ok([bytes |-> bits \div BITS_IN_BYTE, ty |-> ty])

\* `get_offset_constant_index`: the offset in bytes and the type of the
\* element with that index, counted from 0.
GetOffsetConstantIndex(base, index) ==
    LET def == Definition(base)
    IN  CASE def.kind \in {"pointer", "array", "vector"} ->
               LET el == InBytes(Size(def.el), def.el)
               IN  IF el.ok THEN Ok([bytes |-> index * el.val.bytes, ty |-> def.el]) ELSE el
          [] def.kind = "struct" ->
               InBytes(FoldLeft(LAMBDA s, t : s + Size(t), 0, SubSeq(def.els, 1, index)), def.els[index + 1])
          [] def.kind = "opaque" -> Err("MalformedInstruction")

\* `get_offset_bv_index`, for an index of width w.
GetOffsetBvIndex(base, index, w) ==
    IF IsStruct(base) THEN Err("MalformedInstruction")
    ELSE LET el == InBytes(Size(base.el), base.el)
         IN  IF el.ok THEN Ok([bytes |-> (index * el.val.bytes) % 2^w, ty |-> base.el]) ELSE el

\* `get_offset_recursive_const_indices`: the offset in bytes and the type of
\* the element that the indices lead to.
RECURSIVE OffsetOfConstIndices(_, _)
OffsetOfConstIndices(indices, base) ==
    IF indices = <<>> THEN Ok([bytes |-> 0, ty |-> base])
    ELSE LET first == GetOffsetConstantIndex(base, Head(indices))
             rest  == OffsetOfConstIndices(Tail(indices), first.val.ty)
         IN  CASE ~first.ok -> first
               [] first.ok /\ ~rest.ok -> rest
               [] OTHER -> Ok([bytes |-> first.val.bytes + rest.val.bytes, ty |-> rest.val.ty])
=============================================================================
