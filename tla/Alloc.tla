-------------------------------- MODULE Alloc --------------------------------
(***************************************************************************)
(* `Alloc`: the bump allocator behind `State::allocate`.                   *)
(***************************************************************************)
EXTENDS Integers, Sequences, Maps

CONSTANTS Sizes,     \* the numbers of bits that are requested
          MaxAllocs  \* bound: the number of allocations

ASSUME SizesAssumption == Sizes \subseteq Nat
ASSUME MaxAllocsAssumption == MaxAllocs \in Nat

VARIABLES cursor,  \* `Alloc.cursor`
          sizes,   \* `Alloc.sizes`: address to size in bits
          allocs   \* history: every allocation made, as records [addr, bits]

vars == <<cursor, sizes, allocs>>

CELL_BYTES   == 8
BITS_IN_BYTE == 8
ALLOC_START  == 268435456  \* 0x1000_0000

\* Bits rounded up to whole bytes.
Bytes(bits) ==
    (bits \div BITS_IN_BYTE) + (IF bits % BITS_IN_BYTE # 0 THEN 1 ELSE 0)

\* Where an allocation of that many bits goes: at the cursor, or at the next
\* cell if the current one has too little left.
AllocAddr(c, bits) ==
    LET bytes_remaining_in_cell == CELL_BYTES - (c % CELL_BYTES)
    IN  IF Bytes(bits) > bytes_remaining_in_cell THEN c + bytes_remaining_in_cell ELSE c

Init ==
    /\ cursor = ALLOC_START
    /\ sizes = [a \in {} |-> 0]
    /\ allocs = <<>>

\* Mutant: the cursor is advanced from where it was before a cell was
\* skipped.
AdvanceFromCursor(bits) ==
    LET rval == AllocAddr(cursor, bits)
    IN  /\ cursor' = cursor + Bytes(bits)
        /\ sizes' = Insert(sizes, rval, bits)
        /\ allocs' = Append(allocs, [addr |-> rval, bits |-> bits])

\* `alloc()`.
Allocate(bits) ==
    LET rval == AllocAddr(cursor, bits)
    IN  /\ cursor' = rval + Bytes(bits)
        /\ sizes' = Insert(sizes, rval, bits)
        /\ allocs' = Append(allocs, [addr |-> rval, bits |-> bits])

Next == Len(allocs) < MaxAllocs /\ \E bits \in Sizes : Allocate(bits)

Spec == Init /\ [][Next]_vars
-----------------------------------------------------------------------------
Allocation == [addr : Nat, bits : Nat]

\* Addresses and sizes by type; the sizes on record are those of exactly the
\* addresses handed out.
TypeOK ==
    /\ cursor \in Nat
    /\ allocs \in Seq(Allocation)
    /\ DOMAIN sizes = {allocs[j].addr : j \in 1..Len(allocs)}
    /\ \A a \in DOMAIN sizes : sizes[a] \in Nat

End(a) == a.addr + Bytes(a.bits)

\* The allocator's internal invariants: what fits in a cell never crosses a
\* cell boundary, and what does not fit starts at one.
CellRule ==
    \A j \in 1..Len(allocs) :
        LET a == allocs[j] IN
        IF Bytes(a.bits) <= CELL_BYTES
        THEN (a.addr % CELL_BYTES) + Bytes(a.bits) <= CELL_BYTES
        ELSE a.addr % CELL_BYTES = 0

\* No two allocations overlap, none is at the null pointer, and nothing past
\* the cursor is allocated, so that nothing is ever handed out twice.
Disjoint ==
    /\ \A j, k \in 1..Len(allocs) : j < k => End(allocs[j]) <= allocs[k].addr
    /\ \A j \in 1..Len(allocs) : allocs[j].addr > 0 /\ End(allocs[j]) <= cursor

\* The size on record for an address is that of the allocation made there,
\* whatever was allocated since (an allocation of 0 bits has no such claim).
SizeRecorded ==
    \A j \in 1..Len(allocs) : allocs[j].bits > 0 => sizes[allocs[j].addr] = allocs[j].bits
=============================================================================
