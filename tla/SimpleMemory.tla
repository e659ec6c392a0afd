---------------------------- MODULE SimpleMemory ----------------------------
(***************************************************************************)
(* The memory of simple_memory.rs: an array of bytes.  As in Memory, the   *)
(* operators are about one valuation; mem maps addresses to bytes.         *)
(***************************************************************************)
EXTENDS BitVectors

CONSTANTS BITS_IN_BYTE, NUM_BYTES

\* The widths that an assertion excludes.
Panics(bits) == bits >= BITS_IN_BYTE /\ bits % BITS_IN_BYTE # 0

\* `read`, after the null check and for a width that does not panic.
ReadBits(mem, addr, bits) ==
    IF bits < BITS_IN_BYTE THEN Slice(mem[addr], bits - 1, 0)
    ELSE FlattenSeq([k \in 1..(bits \div BITS_IN_BYTE) |-> mem[(addr + k - 1) % NUM_BYTES]])

\* `write`, likewise: less than a byte is extended with zeros.
WriteBits(mem, addr, val) ==
    LET write_data == IF Len(val) < BITS_IN_BYTE THEN Uext(val, BITS_IN_BYTE - Len(val)) ELSE val
    IN  FoldLeft(LAMBDA m, k :
                [m EXCEPT ![(addr + k) % NUM_BYTES] =
                    Slice(write_data, (k + 1) * BITS_IN_BYTE - 1, k * BITS_IN_BYTE)],
            mem, [k \in 1..(Len(write_data) \div BITS_IN_BYTE) |-> k - 1])
=============================================================================
