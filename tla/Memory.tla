------------------------------- MODULE Memory -------------------------------
(***************************************************************************)
(* The memory of memory.rs: an array of cells, with reads and writes of    *)
(* any width at any alignment made from masked accesses to whole cells.    *)
(*                                                                         *)
(* The array has a value for each valuation of the symbolic variables, and *)
(* so has an address; every operation works on each valuation by itself.   *)
(* These operators are about one of them: mem maps the cell numbers to     *)
(* bitvectors and addr is a number.  What depends on the address as an     *)
(* expression is whether it is a constant that `as_u64` can see: const.    *)
(***************************************************************************)
EXTENDS BitVectors

CONSTANTS BITS_IN_BYTE, CELL_BYTES,
          NUM_CELLS                   \* 2^61 in the code

ASSUME MemoryAssumption ==
    /\ BITS_IN_BYTE \in Nat \ {0}
    /\ CELL_BYTES \in Nat \ {0}
    /\ NUM_CELLS \in Nat \ {0, 1}

CELL_BITS == CELL_BYTES * BITS_IN_BYTE
NUM_BYTES == NUM_CELLS * CELL_BYTES
Addresses == 0..(NUM_BYTES - 1)

\* Addition of addresses, which wraps around.
AddrAdd(addr, n) == (addr + n) % NUM_BYTES

\* The offset in its cell of the byte at addr, in bits.
Offset(addr) == (addr % CELL_BYTES) * BITS_IN_BYTE

ReadCell(mem, addr) == mem[addr \div CELL_BYTES]
WriteCell(mem, addr, val) == [mem EXCEPT ![addr \div CELL_BYTES] = val]

\* old, with the bits from offset on replaced by val.
Masked(old, val, offset) ==
    LET above      == Len(old) - Len(val)
        mask_clear == Not(Sll(Uext(Ones(Len(val)), above), offset))
        mask_write == Sll(Uext(val, above), offset)
    IN  Or(And(old, mask_clear), mask_write)

\* Accesses that do not cross the boundary of a cell.
ReadWithinCell(mem, addr, bits) ==
    IF bits = CELL_BITS THEN ReadCell(mem, addr)
    ELSE Slice(Srl(ReadCell(mem, addr), Offset(addr)), bits - 1, 0)

WriteWithinCell(mem, addr, val) ==
    WriteCell(mem, addr,
              IF Len(val) = CELL_BITS THEN val ELSE Masked(ReadCell(mem, addr), val, Offset(addr)))

\* The contents of the cell of addr and of the one after it.
TwoCells(mem, addr) == ConcatBv(ReadCell(mem, AddrAdd(addr, CELL_BYTES)), ReadCell(mem, addr))

\* Accesses of at most a cell's size, which may cross into the next cell.
ReadSmall(mem, addr, bits) ==
    IF bits <= BITS_IN_BYTE THEN ReadWithinCell(mem, addr, bits)
    ELSE Slice(Srl(TwoCells(mem, addr), Offset(addr)), bits - 1, 0)

\* Mutant: everything stays in the cell of the address.
WriteSmallWithin(mem, addr, val) == WriteWithinCell(mem, addr, val)

WriteSmall(mem, addr, val) ==
    LET data_to_write == Masked(TwoCells(mem, addr), val, Offset(addr))
    IN  IF Len(val) <= BITS_IN_BYTE THEN WriteWithinCell(mem, addr, val)
        ELSE WriteCell(WriteCell(mem, addr, Slice(data_to_write, CELL_BITS - 1, 0)),
                       AddrAdd(addr, CELL_BYTES), Slice(data_to_write, 2 * CELL_BITS - 1, CELL_BITS))

\* The sizes of the accesses that a large aligned one is made of: whole cells
\* and a last one of 1 to CELL_BITS bits.
AccessSizes(bits) ==
    LET num_full_cells == (bits - 1) \div CELL_BITS
    IN  [k \in 1..(num_full_cells + 1) |->
            IF k <= num_full_cells THEN CELL_BITS ELSE ((bits - 1) % CELL_BITS) + 1]

\* Accesses of any size at the start of a cell.
ReadLargeAligned(mem, addr, bits) ==
    LET sizes == AccessSizes(bits)
    IN  FlattenSeq([k \in DOMAIN sizes |->
                       ReadWithinCell(mem, AddrAdd(addr, (k - 1) * CELL_BYTES), sizes[k])])

WriteLargeAligned(mem, addr, val) ==
    LET sizes == AccessSizes(Len(val))
    IN  FoldLeftDomain(LAMBDA m, k :
                WriteWithinCell(m, AddrAdd(addr, (k - 1) * CELL_BYTES),
                                Slice(val, sizes[k] + (k - 1) * CELL_BITS - 1, (k - 1) * CELL_BITS)),
            mem, sizes)

\* The widths for which the fallback for addresses that are not constants
\* panics: "assert_eq!(bits % Self::BITS_IN_BYTE, 0)".
Panics(bits, const) == bits > CELL_BITS /\ ~const /\ bits % BITS_IN_BYTE # 0

\* The bits up to the end of the cell of addr.
BitsInCell(addr) == CELL_BITS - Offset(addr)

\* `read`, after the null check and for a width that does not panic.
ReadBits(mem, addr, const, bits) ==
    IF bits <= CELL_BITS THEN ReadSmall(mem, addr, bits)
    ELSE IF ~const
    THEN FlattenSeq([k \in 1..(bits \div BITS_IN_BYTE) |->
                        ReadWithinCell(mem, AddrAdd(addr, k - 1), BITS_IN_BYTE)])
    ELSE IF addr % CELL_BYTES = 0 THEN ReadLargeAligned(mem, addr, bits)
    ELSE LET first == BitsInCell(addr)
         IN  ConcatBv(ReadLargeAligned(mem, AddrAdd(addr, first \div BITS_IN_BYTE), bits - first),
                      ReadSmall(mem, addr, first))

\* `write`, likewise.
WriteBits(mem, addr, const, val) ==
    IF Len(val) <= CELL_BITS THEN WriteSmall(mem, addr, val)
    ELSE IF ~const
    THEN FoldLeft(LAMBDA m, k :
                WriteWithinCell(m, AddrAdd(addr, k), Slice(val, (k + 1) * BITS_IN_BYTE - 1, k * BITS_IN_BYTE)),
            mem, [k \in 1..(Len(val) \div BITS_IN_BYTE) |-> k - 1])
    ELSE IF addr % CELL_BYTES = 0 THEN WriteLargeAligned(mem, addr, val)
    ELSE LET first == BitsInCell(addr)
         IN  WriteLargeAligned(WriteSmall(mem, addr, Slice(val, first - 1, 0)),
                               AddrAdd(addr, first \div BITS_IN_BYTE), Slice(val, Len(val) - 1, first))
=============================================================================
