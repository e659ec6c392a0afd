----------------------------- MODULE AllocUtils -----------------------------
(***************************************************************************)
(* A path that allocates: malloc, calloc, realloc and                      *)
(* __cxa_allocate_exception through their default hooks, alloca, and what  *)
(* `State::allocate` is asked for by others.  (`free_hook` changes         *)
(* nothing, so it is no action.)                                           *)
(***************************************************************************)
EXTENDS Alloc

CONSTANTS ByteSizes,    \* the constant sizes that programs ask for, in bytes
          Symbolic,     \* an operand that is not a constant
          ElementSizes  \* the sizes of the types that allocas allocate, in bits

ASSUME ByteSizesAssumption ==
    ByteSizes \subseteq Nat /\ ElementSizes \subseteq Nat /\ Symbolic \notin Nat

VARIABLES blocks,  \* history: what each call returned, as records [addr, bits, by]
          writes,  \* history: what was written, as records [addr, bits]
          status   \* "running", or the error that ended the path

MAX_ALLOCATION_SIZE_BYTES == 1048576  \* 1 << 20

Operands == ByteSizes \cup {Symbolic}

\* `try_as_u64(..).unwrap_or(MAX_ALLOCATION_SIZE_BYTES)`.
NumBytes(op) == IF op \in Nat THEN op ELSE MAX_ALLOCATION_SIZE_BYTES

\* The call returns addr, where bits are to fit; the path goes on.
Returned(addr, bits, by) ==
    /\ blocks' = Append(blocks, [addr |-> addr, bits |-> bits, by |-> by])
    /\ UNCHANGED status

Fails(error) ==
    /\ status' = error
    /\ UNCHANGED <<cursor, sizes, allocs, blocks, writes>>

UtilsInit == Init /\ blocks = <<>> /\ writes = {} /\ status = "running"

\* Mutant: the allocator is given bytes instead of bits.
MallocInBytes(op) ==
    /\ Allocate(NumBytes(op))
    /\ Returned(AllocAddr(cursor, NumBytes(op)), NumBytes(op) * 8, "malloc")
    /\ UNCHANGED writes

\* malloc.
Malloc(op) ==
    /\ Allocate(NumBytes(op) * 8)
    /\ Returned(AllocAddr(cursor, NumBytes(op) * 8), NumBytes(op) * 8, "malloc")
    /\ UNCHANGED writes

\* An allocation that is then zeroed.  There is no bitvector of 0 bits to
\* write: the process ends there.
Zeroed(num_bytes, by) ==
    LET addr == AllocAddr(cursor, num_bytes * 8)
    IN  /\ num_bytes > 0
        /\ Allocate(num_bytes * 8)
        /\ Returned(addr, num_bytes * 8, by)
        /\ writes' = writes \cup {[addr |-> addr, bits |-> num_bytes * 8]}

\* zalloc.
Zalloc(op) == Zeroed(NumBytes(op), "zalloc")

\* calloc of a times b.
Calloc(a, b) ==
    Zeroed(IF a \in Nat /\ b \in Nat THEN a * b ELSE MAX_ALLOCATION_SIZE_BYTES, "calloc")

\* Mutant: the block is not moved, but written as if it had grown.
ReallocInPlace(addr, op) ==
    /\ addr \in DOMAIN sizes
    /\ Returned(addr, NumBytes(op) * 8, "realloc")
    /\ writes' = writes \cup {[addr |-> addr, bits |-> NumBytes(op) * 8]}
    /\ UNCHANGED <<cursor, sizes, allocs>>

\* realloc.  An address with one solution is a constant; one with several has
\* no allocation, and one with none, or the solver, may fail otherwise.
\* Contents of 0 bits cannot be read: the process ends there.
Realloc(addr, op) ==
    LET new_size == NumBytes(op)
        old_size == sizes[addr]
        new_addr == AllocAddr(cursor, new_size)
    IN  \/ addr \notin DOMAIN sizes /\ Fails("OtherError")
        \/ addr = Symbolic /\ (Fails("Unsat") \/ Fails("SolverError"))
        \/ /\ addr \in DOMAIN sizes /\ new_size <= old_size
           /\ Returned(addr, new_size * 8, "realloc")
           /\ UNCHANGED <<cursor, sizes, allocs, writes>>
        \/ /\ addr \in DOMAIN sizes /\ new_size > old_size /\ old_size > 0
           /\ Allocate(new_size)
           /\ Returned(new_addr, new_size * 8, "realloc")
           /\ writes' = writes \cup {[addr |-> new_addr, bits |-> old_size]}

\* The hooks: a call whose argument types or return type are not those
\* expected fails before anything is allocated.
MallocHook(op, types) ==
    IF types = <<"integer", "pointer">> THEN Malloc(op) ELSE Fails("OtherError")
CallocHook(a, b, types) ==
    IF types = <<"integer", "integer", "pointer">> THEN Calloc(a, b) ELSE Fails("OtherError")
CxaAllocateException(op, types) ==
    IF types = <<"integer", "pointer">> THEN Zalloc(op) ELSE Fails("OtherError")
ReallocHook(addr, op, types) ==
    IF types = <<"pointer", "integer", "pointer">> THEN Realloc(addr, op) ELSE Fails("OtherError")

\* Mutant: an object of 0 bits gets no memory.
AllocaExact(element_size, num_elements) ==
    LET size == element_size * num_elements
    IN  /\ num_elements \in Nat
        /\ Allocate(size)
        /\ Returned(AllocAddr(cursor, size), size, "alloca")
        /\ UNCHANGED writes

\* symex_alloca, of a type that is not opaque in the entire project.
Alloca(element_size, num_elements) ==
    LET size == element_size * num_elements
        bits == IF size = 0 THEN 8 ELSE size
    IN  \/ num_elements \notin Nat /\ Fails("UnsupportedInstruction")
        \/ /\ num_elements \in Nat
           /\ Allocate(bits)
           /\ Returned(AllocAddr(cursor, bits), size, "alloca")
           /\ UNCHANGED writes

\* `State::allocate`, for a global.
AllocateBits(bits) == Allocate(bits) /\ UNCHANGED <<blocks, writes, status>>

Types == {"integer", "pointer"}

UtilsNext ==
    /\ status = "running" /\ Len(blocks) < MaxAllocs /\ Len(allocs) < MaxAllocs
    /\ \/ \E bits \in Sizes : AllocateBits(bits)
       \/ \E op \in Operands, types \in Types \X Types :
             MallocHook(op, types) \/ CxaAllocateException(op, types)
       \/ \E a, b \in Operands, types \in Types \X Types \X Types : CallocHook(a, b, types)
       \/ \E addr \in DOMAIN sizes \cup {cursor, Symbolic}, op \in Operands, types \in Types \X Types \X Types :
             ReallocHook(addr, op, types)
       \/ \E size \in ElementSizes, n \in Operands : Alloca(size, n)

utils_vars == <<vars, blocks, writes, status>>

UtilsSpec == UtilsInit /\ [][UtilsNext]_utils_vars
-----------------------------------------------------------------------------
\* Every block of malloc, calloc, zalloc and alloca keeps, whatever is
\* allocated or reallocated later, a size on record that holds what was asked
\* for.
MallocFits ==
    \A j \in 1..Len(blocks) :
        blocks[j].by # "realloc" => sizes[blocks[j].addr] >= blocks[j].bits

\* Zeroing and copying stay inside one allocation.
WritesInside ==
    \A w \in writes : \E j \in 1..Len(allocs) :
        allocs[j].addr <= w.addr /\ w.addr + Bytes(w.bits) <= End(allocs[j])

\* Every alloca has an address of its own, even for an object of 0 bits: no
\* other alloca, and no later call that allocates, returns it.
AllocasApart ==
    \A j, k \in 1..Len(blocks) :
        j < k /\ blocks[j].by = "alloca" /\ blocks[k].by # "realloc" => blocks[j].addr # blocks[k].addr

\* The block that realloc returns has at least the number of bytes asked for.
ReallocFits ==
    \A j \in 1..Len(blocks) :
        blocks[j].by = "realloc" => sizes[blocks[j].addr] >= blocks[j].bits
=============================================================================
