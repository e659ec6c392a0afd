----------------------------- MODULE StateProofs -----------------------------
(***************************************************************************)
(* The parts of a `State`: its allocations, its bitvectors, its variables. *)
(*                                                                         *)
(* The allocator keeps its internal invariants and never hands out the     *)
(* same memory twice, for every sequence of requests; and what malloc,     *)
(* calloc, zalloc, realloc and alloca do with it, for every sequence of    *)
(* calls with operands and types of any sizes.  Each block is traced back  *)
(* to the allocation that was made for it, which the allocator's own       *)
(* invariant then speaks about.  (Addresses are unbounded here: the 64-bit *)
(* cursor is far from wrapping around.)                                    *)
(*                                                                         *)
(* The saturating operations of backend.rs and the overflow predicates     *)
(* that they and the intrinsics use are right at every width.              *)
(*                                                                         *)
(* Every activation sees its own variables, for any depth of recursion,    *)
(* any functions and variables and any loop bound.                         *)
(***************************************************************************)
EXTENDS AllocUtils, Arithmetic, Locals, TLAPS

\* A nonempty request takes at least a byte.
LEMMA BytesFacts ==
    ASSUME NEW bits \in Nat
    PROVE  Bytes(bits) \in Nat /\ (bits > 0 => Bytes(bits) > 0)
  BY SMT DEF Bytes, BITS_IN_BYTE

\* Where an allocation goes: not before the cursor, and by the cell rule.
LEMMA AddrFacts ==
    ASSUME NEW c \in Nat, NEW bits \in Nat
    PROVE  LET a == AllocAddr(c, bits) IN
           /\ a \in Nat
           /\ c <= a
           /\ IF Bytes(bits) <= CELL_BYTES
              THEN (a % CELL_BYTES) + Bytes(bits) <= CELL_BYTES
              ELSE a % CELL_BYTES = 0
  BY BytesFacts, SMT DEF AllocAddr, CELL_BYTES

IInv == TypeOK /\ CellRule /\ Disjoint /\ SizeRecorded /\ cursor > 0

\* One allocation keeps the invariants.
LEMMA AllocateKeeps ==
    ASSUME IInv, NEW bits \in Nat, Allocate(bits)
    PROVE  IInv'
  <1> DEFINE n    == Len(allocs)
             rval == AllocAddr(cursor, bits)
             new  == [addr |-> rval, bits |-> bits]
  <1>1. /\ n \in Nat /\ cursor \in Nat /\ cursor > 0
        /\ \A j \in 1..n : allocs[j] \in Allocation
    BY SMTT(30) DEF IInv, TypeOK
  <1>2. rval \in Nat /\ cursor <= rval /\ Bytes(bits) \in Nat /\ (bits > 0 => Bytes(bits) > 0)
    BY <1>1, AddrFacts, BytesFacts, Zenon
  <1>3. new \in Allocation
    BY <1>2, Zenon DEF Allocation
  <1>4. /\ allocs' \in Seq(Allocation)
        /\ Len(allocs') = n + 1
        /\ \A j \in 1..n : allocs'[j] = allocs[j]
        /\ allocs'[n + 1] = new
    BY <1>1, <1>3, SMTT(30) DEF IInv, TypeOK, Allocate
  <1>5. cursor' = rval + Bytes(bits)
    BY Zenon DEF Allocate
  <1>6. cursor' \in Nat /\ cursor' > 0 /\ cursor <= cursor'
    BY <1>1, <1>2, <1>5, SMTT(30)
  <1>7. /\ DOMAIN sizes' = DOMAIN sizes \cup {rval}
        /\ sizes'[rval] = bits
        /\ \A a \in DOMAIN sizes : a # rval => sizes'[a] = sizes[a]
    BY Zenon DEF Allocate, Insert
  <1>8. \A j \in 1..(n + 1) : j \in 1..n \/ j = n + 1
    BY <1>1, SMTT(30)
  <1> HIDE DEF n, rval
  <1>9. TypeOK'
    <2>1. DOMAIN sizes' = {allocs'[j].addr : j \in 1..Len(allocs')}
      <3>1. DOMAIN sizes = {allocs[j].addr : j \in 1..n}
        BY Zenon DEF IInv, TypeOK, n
      <3>2. 1..(n + 1) = 1..n \cup {n + 1}
        BY <1>1, SMTT(30)
      <3>3. allocs'[n + 1].addr = rval
        BY <1>4, SMTT(30)
      <3>4. {allocs'[j].addr : j \in 1..(n + 1)} = {allocs[j].addr : j \in 1..n} \cup {rval}
        BY <3>2, <3>3, <1>4, SMTT(30)
      <3> QED BY <3>1, <3>4, <1>4, <1>7, Zenon
    <2>2. \A a \in DOMAIN sizes' : sizes'[a] \in Nat
      BY <1>7, Zenon DEF IInv, TypeOK
    <2> QED BY <1>4, <1>6, <2>1, <2>2, Zenon DEF TypeOK
  <1>10. CellRule'
    <2>1. IF Bytes(new.bits) <= CELL_BYTES
          THEN (new.addr % CELL_BYTES) + Bytes(new.bits) <= CELL_BYTES
          ELSE new.addr % CELL_BYTES = 0
      BY <1>1, AddrFacts, Zenon DEF rval
    <2>2. SUFFICES ASSUME NEW j \in 1..(n + 1)
                   PROVE  LET a == allocs'[j] IN
                          IF Bytes(a.bits) <= CELL_BYTES
                          THEN (a.addr % CELL_BYTES) + Bytes(a.bits) <= CELL_BYTES
                          ELSE a.addr % CELL_BYTES = 0
      BY <1>4, Zenon DEF CellRule
    <2>3. CASE j \in 1..n
      BY <2>3, <1>4, Zenon DEF IInv, CellRule, n
    <2>4. CASE j = n + 1
      BY <2>1, <2>4, <1>4, Zenon
    <2> QED BY <2>3, <2>4, <1>8, Zenon
  <1>11. \A j \in 1..n : /\ allocs[j].addr \in Nat /\ Bytes(allocs[j].bits) \in Nat
                         /\ allocs[j].addr > 0
                         /\ End(allocs[j]) \in Nat /\ End(allocs[j]) <= cursor
    <2> TAKE j \in 1..n
    <2>1. allocs[j].addr \in Nat /\ allocs[j].bits \in Nat
      BY <1>1, Zenon DEF Allocation
    <2>2. allocs[j].addr > 0 /\ End(allocs[j]) <= cursor
      BY Zenon DEF IInv, Disjoint, n
    <2> QED BY <2>1, <2>2, BytesFacts, SMTT(30) DEF End
  <1>12. End(new) = cursor' /\ new.addr = rval
    BY <1>5, Zenon DEF End
  <1>13. Disjoint'
    <2>1. ASSUME NEW j \in 1..(n + 1), NEW k \in 1..(n + 1), j < k
          PROVE  End(allocs'[j]) <= allocs'[k].addr
      <3>1. j \in 1..n
        BY <2>1, <1>1, SMTT(30)
      <3>2. CASE k \in 1..n
        BY <2>1, <3>1, <3>2, <1>4, Zenon DEF IInv, Disjoint, n
      <3>3. CASE k = n + 1
        BY <3>1, <3>3, <1>1, <1>2, <1>4, <1>11, <1>12, SMTT(30)
      <3> QED BY <3>2, <3>3, <1>8, Zenon
    <2>2. ASSUME NEW j \in 1..(n + 1)
          PROVE  allocs'[j].addr > 0 /\ End(allocs'[j]) <= cursor'
      <3>1. CASE j \in 1..n
        <4>1. allocs'[j] = allocs[j] /\ allocs[j].addr > 0 /\ End(allocs[j]) \in Nat /\ End(allocs[j]) <= cursor
          BY <3>1, <1>4, <1>11, Zenon
        <4>2. End(allocs[j]) <= cursor'
          BY <4>1, <1>1, <1>6, SMTT(30)
        <4> QED BY <4>1, <4>2, Zenon
      <3>2. CASE j = n + 1
        BY <3>2, <1>1, <1>2, <1>4, <1>6, <1>12, SMTT(30)
      <3> QED BY <3>1, <3>2, <1>8, Zenon
    <2>3. /\ \A j, k \in 1..Len(allocs') : j < k => End(allocs'[j]) <= allocs'[k].addr
          /\ \A j \in 1..Len(allocs') : allocs'[j].addr > 0 /\ End(allocs'[j]) <= cursor'
      BY <1>4, <2>1, <2>2, Zenon
    <2> QED BY <2>3, Zenon DEF Disjoint, End
  <1>14. SizeRecorded'
    <2>1. SUFFICES ASSUME NEW j \in 1..(n + 1), allocs'[j].bits > 0
                   PROVE  sizes'[allocs'[j].addr] = allocs'[j].bits
      BY <1>4, Zenon DEF SizeRecorded
    <2>2. CASE j = n + 1
      BY <2>2, <1>4, <1>7, SMTT(30)
    <2>3. CASE j \in 1..n
      <3>1. allocs[j].bits \in Nat /\ allocs[j].bits > 0 /\ allocs[j].addr \in Nat
        BY <2>1, <2>3, <1>1, <1>4, Zenon DEF Allocation
      <3>2. Bytes(allocs[j].bits) > 0
        BY <3>1, BytesFacts, Zenon
      <3>3. allocs[j].addr # rval
        BY <2>3, <3>1, <3>2, <1>1, <1>2, <1>11, SMTT(30) DEF End
      <3>4. allocs[j].addr \in DOMAIN sizes /\ sizes[allocs[j].addr] = allocs[j].bits
        BY <2>3, <3>1, Zenon DEF IInv, TypeOK, SizeRecorded, n
      <3> QED BY <2>3, <3>3, <3>4, <1>4, <1>7, Zenon
    <2> QED BY <2>2, <2>3, <1>8, Zenon
  <1> QED BY <1>6, <1>9, <1>10, <1>13, <1>14, Zenon DEF IInv

\* The four properties hold together, along every sequence of requests.
THEOREM Invariance == Spec => []IInv
  <1>1. Init => IInv
    BY SMT DEF Init, IInv, TypeOK, CellRule, Disjoint, SizeRecorded, ALLOC_START
  <1>2. IInv /\ [Next]_vars => IInv'
    <2> SUFFICES ASSUME IInv, [Next]_vars PROVE IInv'
      BY Zenon
    <2>1. CASE Next
      <3>1. PICK bits \in Sizes : Allocate(bits)
        BY <2>1, Zenon DEF Next
      <3> QED BY <3>1, AllocateKeeps, SizesAssumption, Zenon
    <2>2. CASE UNCHANGED vars
      BY <2>2, Zenon DEF vars, IInv, TypeOK, CellRule, Disjoint, SizeRecorded, End, Bytes
    <2> QED BY <2>1, <2>2, Zenon
  <1> QED BY <1>1, <1>2, PTL DEF Spec

\* Types: the record of sizes has exactly the addresses handed out.
THEOREM TypeCorrect == Spec => []TypeOK
  <1>1. IInv => TypeOK BY Zenon DEF IInv
  <1> QED BY <1>1, Invariance, PTL

\* The two internal invariants that `alloc()` states hold after any requests.
THEOREM CellsRespected == Spec => []CellRule
  <1>1. IInv => CellRule BY Zenon DEF IInv
  <1> QED BY <1>1, Invariance, PTL

\* `alloc()` never hands out memory that overlaps an earlier allocation.
THEOREM NeverOverlaps == Spec => []Disjoint
  <1>1. IInv => Disjoint BY Zenon DEF IInv
  <1> QED BY <1>1, Invariance, PTL

\* `get_allocation_size()` answers with the size that was asked for there.
THEOREM SizesRemembered == Spec => []SizeRecorded
  <1>1. IInv => SizeRecorded BY Zenon DEF IInv
  <1> QED BY <1>1, Invariance, PTL
-----------------------------------------------------------------------------
Callees == {"malloc", "zalloc", "calloc", "realloc", "alloca"}

Block == [addr : Nat, bits : Nat, by : Callees]

\* Among the allocations as, the block has one of its own that is big enough;
\* that of an alloca is not empty.
Backed(b, as) ==
    \E k \in 1..Len(as) : /\ as[k].addr = b.addr
                          /\ as[k].bits >= b.bits
                          /\ b.by = "alloca" => as[k].bits > 0

\* The write lies inside one of the allocations as.
Inside(w, as) ==
    \E k \in 1..Len(as) : as[k].addr <= w.addr /\ w.addr + Bytes(w.bits) <= End(as[k])

BlocksBacked ==
    \A j \in 1..Len(blocks) : blocks[j].by # "realloc" => Backed(blocks[j], allocs)

UInv ==
    /\ IInv
    /\ blocks \in Seq(Block) /\ writes \subseteq Allocation
    /\ BlocksBacked /\ WritesInside /\ AllocasApart

\* A longer request takes no fewer bytes.
LEMMA BytesMonotone ==
    ASSUME NEW a \in Nat, NEW b \in Nat, a <= b
    PROVE  Bytes(a) <= Bytes(b)
  BY SMT DEF Bytes, BITS_IN_BYTE

\* What an allocation leaves in the history: all earlier ones, and the new one
\* behind them.
LEMMA AllocateAppends ==
    ASSUME UInv, NEW bits \in Nat, Allocate(bits)
    PROVE  LET rval == AllocAddr(cursor, bits) IN
           /\ IInv'
           /\ rval \in Nat
           /\ Len(allocs) \in Nat /\ Len(allocs') = Len(allocs) + 1
           /\ \A j \in 1..Len(allocs) : allocs'[j] = allocs[j]
           /\ allocs'[Len(allocs) + 1] = [addr |-> rval, bits |-> bits]
           /\ \A j \in 1..Len(allocs) : allocs[j].bits > 0 => allocs[j].addr < rval
  <1>1. IInv'
    BY AllocateKeeps, Zenon DEF UInv
  <1>2. cursor \in Nat /\ allocs \in Seq(Allocation)
    BY Zenon DEF UInv, IInv, TypeOK
  <1>3. AllocAddr(cursor, bits) \in Nat /\ cursor <= AllocAddr(cursor, bits)
    BY <1>2, AddrFacts, Zenon
  <1>4. ASSUME NEW j \in 1..Len(allocs), allocs[j].bits > 0
        PROVE  allocs[j].addr < AllocAddr(cursor, bits)
    <2>1. allocs[j] \in Allocation
      BY <1>2, SMTT(30)
    <2>2. allocs[j].addr \in Nat /\ allocs[j].bits \in Nat
      BY <2>1, Zenon DEF Allocation
    <2>3. Bytes(allocs[j].bits) \in Nat /\ Bytes(allocs[j].bits) > 0
      BY <2>2, <1>4, BytesFacts, Zenon
    <2>4. allocs[j].addr + Bytes(allocs[j].bits) <= cursor
      BY Zenon DEF UInv, IInv, Disjoint, End
    <2> QED BY <2>2, <2>3, <2>4, <1>2, <1>3, SMTT(30)
  <1>5. allocs' = Append(allocs, [addr |-> AllocAddr(cursor, bits), bits |-> bits])
    BY Zenon DEF Allocate
  <1> QED BY <1>1, <1>2, <1>3, <1>4, <1>5, SMTT(30)

\* A call that allocates and returns the new allocation, writing at most that.
LEMMA AllocateReturns ==
    ASSUME UInv, NEW bits \in Nat, NEW asked \in Nat, NEW by \in Callees, NEW written \in SUBSET Allocation,
           Allocate(bits),
           Returned(AllocAddr(cursor, bits), asked, by),
           writes' = writes \cup written,
           \A w \in written : w.addr = AllocAddr(cursor, bits) /\ w.bits <= bits,
           by # "realloc" => asked <= bits,
           by = "alloca" => bits > 0
    PROVE  UInv'
  <1> DEFINE n    == Len(allocs)
             m    == Len(blocks)
             rval == AllocAddr(cursor, bits)
             b    == [addr |-> rval, bits |-> asked, by |-> by]
  <1>1. /\ IInv' /\ rval \in Nat /\ n \in Nat /\ Len(allocs') = n + 1
        /\ \A j \in 1..n : allocs'[j] = allocs[j]
        /\ allocs'[n + 1] = [addr |-> rval, bits |-> bits]
        /\ \A j \in 1..n : allocs[j].bits > 0 => allocs[j].addr < rval
    BY AllocateAppends, Zenon
  <1>2. b \in Block /\ blocks \in Seq(Block) /\ blocks' = Append(blocks, b)
    BY <1>1, Zenon DEF Block, Callees, UInv, Returned
  <1>3. /\ m \in Nat /\ blocks' \in Seq(Block) /\ Len(blocks') = m + 1
        /\ \A j \in 1..m : blocks'[j] = blocks[j]
        /\ blocks'[m + 1] = b
        /\ \A j \in 1..(m + 1) : j \in 1..m \/ j = m + 1
    BY <1>2, SMTT(30)
  <1>4. 1..n \subseteq 1..(n + 1) /\ n + 1 \in 1..(n + 1)
    BY <1>1, SMTT(30)
  <1>5. \A j \in 1..m : blocks[j] \in Block
    BY <1>2, SMTT(30)
  <1> HIDE DEF n, m, rval
  <1>6. writes' \subseteq Allocation
    BY Zenon DEF UInv
  <1>7. BlocksBacked'
    <2>1. ASSUME NEW j \in 1..(m + 1), blocks'[j].by # "realloc"
          PROVE  Backed(blocks'[j], allocs')
      <3>1. CASE j \in 1..m
        <4>1. PICK k \in 1..n : /\ allocs[k].addr = blocks[j].addr
                                /\ allocs[k].bits >= blocks[j].bits
                                /\ blocks[j].by = "alloca" => allocs[k].bits > 0
          BY <3>1, <2>1, <1>3, Zenon DEF UInv, BlocksBacked, Backed, n, m
        <4> QED BY <4>1, <3>1, <1>1, <1>3, <1>4, Zenon DEF Backed
      <3>2. CASE j = m + 1
        BY <3>2, <2>1, <1>1, <1>3, <1>4, SMTT(30) DEF Backed
      <3> QED BY <3>1, <3>2, <1>3, Zenon
    <2> QED BY <2>1, <1>3, Zenon DEF BlocksBacked
  <1>8. WritesInside'
    <2>1. ASSUME NEW w \in writes PROVE Inside(w, allocs')
      <3>1. PICK k \in 1..n : allocs[k].addr <= w.addr /\ w.addr + Bytes(w.bits) <= End(allocs[k])
        BY Zenon DEF UInv, WritesInside, n
      <3> QED BY <3>1, <1>1, <1>4, Zenon DEF Inside
    <2>2. ASSUME NEW w \in written PROVE Inside(w, allocs')
      <3>1. w.bits \in Nat /\ w.addr = rval /\ w.bits <= bits
        BY Zenon DEF Allocation, rval
      <3>3. Bytes(w.bits) <= Bytes(bits) /\ Bytes(w.bits) \in Nat /\ Bytes(bits) \in Nat
        BY <3>1, BytesMonotone, BytesFacts, Zenon
      <3>2. End(allocs'[n + 1]) = rval + Bytes(bits) /\ allocs'[n + 1].addr = rval
        BY <1>1, SMTT(30) DEF End
      <3>4. w.addr + Bytes(w.bits) <= rval + Bytes(bits) /\ rval <= w.addr
        BY <3>1, <3>3, <1>1, SMTT(30)
      <3> QED BY <3>1, <3>2, <3>4, <1>1, <1>4, Zenon DEF Inside
    <2>3. \A w \in writes' : Inside(w, allocs')
      BY <2>1, <2>2, Zenon
    <2> QED BY <2>3, Zenon DEF WritesInside, Inside, End, Bytes
  <1>9. AllocasApart'
    <2>1. ASSUME NEW j \in 1..(m + 1), NEW k \in 1..(m + 1), j < k,
                 blocks'[j].by = "alloca", blocks'[k].by # "realloc"
          PROVE  blocks'[j].addr # blocks'[k].addr
      <3>1. j \in 1..m
        BY <2>1, <1>3, SMTT(30)
      <3>2. CASE k \in 1..m
        BY <2>1, <3>1, <3>2, <1>3, ZenonT(30) DEF UInv, AllocasApart, m
      <3>3. CASE k = m + 1
        <4>1. PICK l \in 1..n : allocs[l].addr = blocks[j].addr /\ allocs[l].bits > 0
          BY <2>1, <3>1, <1>3, Zenon DEF UInv, BlocksBacked, Backed, n, m
        <4>2. blocks[j].addr < rval /\ blocks[j].addr \in Nat
          BY <4>1, <3>1, <1>1, <1>5, Zenon DEF Block
        <4> QED BY <4>2, <3>1, <3>3, <1>1, <1>3, SMTT(30)
      <3> QED BY <3>2, <3>3, <1>3, Zenon
    <2> QED BY <2>1, <1>3, Zenon DEF AllocasApart
  <1> QED BY <1>1, <1>3, <1>6, <1>7, <1>8, <1>9, Zenon DEF UInv

\* An allocation that nothing is returned for.
LEMMA AllocateAlone ==
    ASSUME UInv, NEW bits \in Nat, AllocateBits(bits)
    PROVE  UInv'
  <1> DEFINE n == Len(allocs)
  <1>1. /\ IInv' /\ n \in Nat /\ Len(allocs') = n + 1
        /\ \A j \in 1..n : allocs'[j] = allocs[j]
        /\ blocks' = blocks /\ writes' = writes
    BY AllocateAppends, Zenon DEF AllocateBits
  <1>2. 1..n \subseteq 1..(n + 1)
    BY <1>1, SMTT(30)
  <1> HIDE DEF n
  <1>3. ASSUME NEW j \in 1..Len(blocks), blocks[j].by # "realloc"
        PROVE  Backed(blocks[j], allocs')
    <2>1. PICK k \in 1..n : /\ allocs[k].addr = blocks[j].addr
                            /\ allocs[k].bits >= blocks[j].bits
                            /\ blocks[j].by = "alloca" => allocs[k].bits > 0
      BY <1>3, Zenon DEF UInv, BlocksBacked, Backed, n
    <2> QED BY <2>1, <1>1, <1>2, Zenon DEF Backed
  <1>4. ASSUME NEW w \in writes PROVE Inside(w, allocs')
    <2>1. PICK k \in 1..n : allocs[k].addr <= w.addr /\ w.addr + Bytes(w.bits) <= End(allocs[k])
      BY Zenon DEF UInv, WritesInside, n
    <2> QED BY <2>1, <1>1, <1>2, Zenon DEF Inside
  <1>5. BlocksBacked' /\ WritesInside'
    BY <1>1, <1>3, <1>4, Zenon DEF BlocksBacked, WritesInside, Inside, End, Bytes
  <1>6. AllocasApart' /\ blocks' \in Seq(Block) /\ writes' \subseteq Allocation
    BY <1>1, Zenon DEF UInv, AllocasApart
  <1> QED BY <1>1, <1>5, <1>6, Zenon DEF UInv

\* A call that returns a block it was given, and touches nothing.
LEMMA ReturnsOld ==
    ASSUME UInv, NEW addr \in DOMAIN sizes, NEW asked \in Nat,
           Returned(addr, asked, "realloc"), UNCHANGED <<cursor, sizes, allocs, writes>>
    PROVE  UInv'
  <1> DEFINE m == Len(blocks)
             b == [addr |-> addr, bits |-> asked, by |-> "realloc"]
  <1>1. addr \in Nat
    <2>1. PICK k \in 1..Len(allocs) : addr = allocs[k].addr
      BY Zenon DEF UInv, IInv, TypeOK
    <2>2. allocs[k] \in Allocation
      BY SMTT(30) DEF UInv, IInv, TypeOK
    <2> QED BY <2>1, <2>2, Zenon DEF Allocation
  <1>2. b \in Block /\ blocks \in Seq(Block) /\ blocks' = Append(blocks, b)
    BY <1>1, Zenon DEF Block, Callees, UInv, Returned
  <1>3. /\ m \in Nat /\ blocks' \in Seq(Block) /\ Len(blocks') = m + 1
        /\ \A j \in 1..m : blocks'[j] = blocks[j]
        /\ blocks'[m + 1].by = "realloc"
        /\ \A j \in 1..(m + 1) : j \in 1..m \/ j = m + 1
    BY <1>2, SMTT(30)
  <1> HIDE DEF m
  <1>4. IInv' /\ WritesInside'
    BY SMTT(30) DEF UInv, WritesInside, IInv, TypeOK, CellRule, Disjoint, SizeRecorded, End, Bytes
  <1>5. BlocksBacked'
    BY <1>3, SMTT(30) DEF UInv, BlocksBacked, Backed, m
  <1>6. AllocasApart'
    <2>1. ASSUME NEW j \in 1..(m + 1), NEW k \in 1..(m + 1), j < k,
                 blocks'[j].by = "alloca", blocks'[k].by # "realloc"
          PROVE  blocks'[j].addr # blocks'[k].addr
      <3>1. j \in 1..m /\ k \in 1..m
        BY <2>1, <1>3, Zenon
      <3> QED BY <3>1, <2>1, <1>3, SMTT(30) DEF UInv, AllocasApart, m
    <2> QED BY <2>1, <1>3, Zenon DEF AllocasApart
  <1> QED BY <1>3, <1>4, <1>5, <1>6, Zenon DEF UInv

\* Nothing happens, or nothing but that the path ends.
LEMMA NothingAllocated ==
    ASSUME UInv, UNCHANGED <<cursor, sizes, allocs, blocks, writes>>
    PROVE  UInv'
  <1>1. IInv' /\ WritesInside'
    BY SMTT(30) DEF UInv, WritesInside, IInv, TypeOK, CellRule, Disjoint, SizeRecorded, End, Bytes
  <1>2. BlocksBacked' /\ AllocasApart'
    BY SMTT(30) DEF UInv, BlocksBacked, Backed, AllocasApart
  <1> QED BY <1>1, <1>2, Zenon DEF UInv

\* What is asked for is a natural number.
LEMMA NumBytesNat ==
    ASSUME NEW op PROVE NumBytes(op) \in Nat
  BY SMTT(30) DEF NumBytes, MAX_ALLOCATION_SIZE_BYTES

\* malloc.
LEMMA MallocKeeps ==
    ASSUME UInv, NEW op, Malloc(op) PROVE UInv'
  <1> DEFINE bits == NumBytes(op) * 8
  <1>1. bits \in Nat
    BY NumBytesNat, SMT
  <1>2. /\ Allocate(bits) /\ Returned(AllocAddr(cursor, bits), bits, "malloc")
        /\ writes' = writes \cup {}
    BY Zenon DEF Malloc
  <1> HIDE DEF bits
  <1>3. bits <= bits /\ "malloc" \in Callees /\ {} \in SUBSET Allocation
    BY <1>1, SMTT(30) DEF Callees
  <1> QED BY <1>1, <1>2, <1>3, AllocateReturns, Zenon

\* zalloc and calloc.
LEMMA ZeroedKeeps ==
    ASSUME UInv, NEW num_bytes \in Nat, NEW by \in {"zalloc", "calloc"}, Zeroed(num_bytes, by)
    PROVE  UInv'
  <1> DEFINE bits    == num_bytes * 8
             written == {[addr |-> AllocAddr(cursor, bits), bits |-> bits]}
  <1>1. bits \in Nat
    BY SMTT(30)
  <1>2. /\ Allocate(bits) /\ Returned(AllocAddr(cursor, bits), bits, by)
        /\ writes' = writes \cup written
    BY Zenon DEF Zeroed
  <1> HIDE DEF bits
  <1>3. AllocAddr(cursor, bits) \in Nat
    BY <1>1, <1>2, AllocateAppends, Zenon
  <1>4. /\ bits <= bits /\ by \in Callees /\ by # "realloc" /\ by # "alloca"
        /\ written \in SUBSET Allocation
        /\ \A w \in written : w.addr = AllocAddr(cursor, bits) /\ w.bits <= bits
    BY <1>1, <1>3, SMTT(30) DEF Allocation, Callees
  <1> HIDE DEF written
  <1> QED BY <1>1, <1>2, <1>4, AllocateReturns, Zenon

\* calloc's product, and the size of a zalloc.
LEMMA CallocKeeps ==
    ASSUME UInv, NEW a, NEW b, Calloc(a, b) \/ Zalloc(a) PROVE UInv'
  <1>1. (IF a \in Nat /\ b \in Nat THEN a * b ELSE MAX_ALLOCATION_SIZE_BYTES) \in Nat
    BY SMTT(30) DEF MAX_ALLOCATION_SIZE_BYTES
  <1> QED BY <1>1, NumBytesNat, ZeroedKeeps, Zenon DEF Calloc, Zalloc

\* realloc: in the code's arithmetic the new block, whatever its size, holds
\* the old contents.
LEMMA ReallocKeeps ==
    ASSUME UInv, NEW addr, NEW op, Realloc(addr, op) PROVE UInv'
  <1> DEFINE bits    == NumBytes(op)
             old     == sizes[addr]
             written == {[addr |-> AllocAddr(cursor, bits), bits |-> old]}
  <1>1. bits \in Nat /\ bits * 8 \in Nat
    BY NumBytesNat, SMT
  <1>2. ASSUME NEW e, Fails(e) PROVE UInv'
    BY <1>2, NothingAllocated, Zenon DEF Fails
  <1>3. CASE /\ addr \in DOMAIN sizes
             /\ Returned(addr, bits * 8, "realloc")
             /\ UNCHANGED <<cursor, sizes, allocs, writes>>
    BY <1>1, <1>3, ReturnsOld, Zenon
  <1>4. CASE /\ addr \in DOMAIN sizes /\ bits > old
             /\ Allocate(bits)
             /\ Returned(AllocAddr(cursor, bits), bits * 8, "realloc")
             /\ writes' = writes \cup written
    <2>1. old \in Nat
      BY <1>4, Zenon DEF UInv, IInv, TypeOK
    <2> HIDE DEF bits, old
    <2>2. AllocAddr(cursor, bits) \in Nat
      BY <1>1, <1>4, AllocateAppends, Zenon
    <2>3. /\ "realloc" \in Callees /\ written \in SUBSET Allocation
          /\ \A w \in written : w.addr = AllocAddr(cursor, bits) /\ w.bits <= bits
      BY <1>1, <1>4, <2>1, <2>2, SMTT(30) DEF Allocation, Callees
    <2> HIDE DEF written
    <2> QED BY <1>1, <1>4, <2>3, AllocateReturns, Zenon
  <1> QED BY <1>2, <1>3, <1>4, Zenon DEF Realloc

\* alloca.
LEMMA AllocaKeeps ==
    ASSUME UInv, NEW element_size \in Nat, NEW n, Alloca(element_size, n) PROVE UInv'
  <1> DEFINE size == element_size * n
             bits == IF size = 0 THEN 8 ELSE size
  <1>1. CASE Fails("UnsupportedInstruction")
    BY <1>1, NothingAllocated, Zenon DEF Fails
  <1>2. CASE /\ n \in Nat /\ Allocate(bits)
             /\ Returned(AllocAddr(cursor, bits), size, "alloca") /\ UNCHANGED writes
    <2>1. size \in Nat
      BY <1>2, SMT
    <2>2. bits \in Nat /\ bits > 0 /\ size <= bits
      BY <2>1, SMTT(30)
    <2>3. writes' = writes \cup {} /\ {} \in SUBSET Allocation /\ "alloca" \in Callees
      BY <1>2, Zenon DEF Callees
    <2> HIDE DEF bits, size
    <2> QED BY <1>2, <2>1, <2>2, <2>3, AllocateReturns, Zenon
  <1> QED BY <1>1, <1>2, Zenon DEF Alloca

\* The inductive invariant: every block is backed by an allocation, and what
\* is written lies in one.
THEOREM UtilsInvariance == UtilsSpec => []UInv
  <1>1. UtilsInit => UInv
    <2> SUFFICES ASSUME UtilsInit PROVE UInv
      BY Zenon
    <2>1. IInv
      BY SMT DEF UtilsInit, Init, IInv, TypeOK, CellRule, Disjoint, SizeRecorded, ALLOC_START
    <2> QED BY <2>1, SMTT(30) DEF UtilsInit, UInv, BlocksBacked, WritesInside, AllocasApart
  <1>2. UInv /\ [UtilsNext]_utils_vars => UInv'
    <2> SUFFICES ASSUME UInv, [UtilsNext]_utils_vars PROVE UInv'
      BY Zenon
    <2>1. CASE \E bits \in Sizes : AllocateBits(bits)
      BY <2>1, AllocateAlone, SizesAssumption, Zenon
    <2>2. CASE \E op \in Operands, types \in Types \X Types : CxaAllocateException(op, types)
      BY <2>2, CallocKeeps, NothingAllocated, Zenon DEF CxaAllocateException, Fails
    <2>3. CASE \E op \in Operands, types \in Types \X Types : MallocHook(op, types)
      BY <2>3, MallocKeeps, NothingAllocated, Zenon DEF MallocHook, Fails
    <2>4. CASE \E a, b \in Operands, types \in Types \X Types \X Types : CallocHook(a, b, types)
      BY <2>4, CallocKeeps, NothingAllocated, Zenon DEF CallocHook, Fails
    <2>5. CASE \E addr \in DOMAIN sizes \cup {cursor, Symbolic}, op \in Operands, types \in Types \X Types \X Types :
                  ReallocHook(addr, op, types)
      BY <2>5, ReallocKeeps, NothingAllocated, Zenon DEF ReallocHook, Fails
    <2>6. CASE \E size \in ElementSizes, n \in Operands : Alloca(size, n)
      BY <2>6, AllocaKeeps, ByteSizesAssumption, Zenon
    <2>7. CASE UNCHANGED utils_vars
      BY <2>7, NothingAllocated, Zenon DEF utils_vars, vars
    <2> QED BY <2>1, <2>2, <2>3, <2>4, <2>5, <2>6, <2>7, Zenon DEF UtilsNext
  <1> QED BY <1>1, <1>2, PTL DEF UtilsSpec

\* What malloc, calloc, zalloc and alloca return holds what they were asked
\* for, whatever is allocated or reallocated later.
THEOREM BlocksHold == UtilsSpec => []MallocFits
  <1>1. UInv => MallocFits
    <2> SUFFICES ASSUME UInv, NEW j \in 1..Len(blocks), blocks[j].by # "realloc"
                 PROVE  sizes[blocks[j].addr] >= blocks[j].bits
      BY Zenon DEF MallocFits
    <2>1. PICK k \in 1..Len(allocs) : allocs[k].addr = blocks[j].addr /\ allocs[k].bits >= blocks[j].bits
      BY Zenon DEF UInv, BlocksBacked, Backed
    <2>2. blocks[j] \in Block /\ allocs[k] \in Allocation
      BY SMTT(30) DEF UInv, IInv, TypeOK
    <2>3. blocks[j].bits \in Nat /\ allocs[k].bits \in Nat
      BY <2>2, Zenon DEF Block, Allocation
    <2>4. sizes[allocs[k].addr] \in Nat
      BY Zenon DEF UInv, IInv, TypeOK
    <2>5. allocs[k].bits > 0 => sizes[allocs[k].addr] = allocs[k].bits
      BY Zenon DEF UInv, IInv, SizeRecorded
    <2> QED BY <2>1, <2>3, <2>4, <2>5, SMTT(30)
  <1> QED BY <1>1, UtilsInvariance, PTL

\* zalloc, calloc and realloc write nothing outside the allocations.
THEOREM WritesStayInside == UtilsSpec => []WritesInside
  <1>1. UInv => WritesInside BY Zenon DEF UInv
  <1> QED BY <1>1, UtilsInvariance, PTL

\* The addresses of allocas are their own.
THEOREM AllocasHaveTheirOwn == UtilsSpec => []AllocasApart
  <1>1. UInv => AllocasApart BY Zenon DEF UInv
  <1> QED BY <1>1, UtilsInvariance, PTL

\* The calls do not make allocations overlap.
THEOREM UtilsNeverOverlap == UtilsSpec => []Disjoint
  <1>1. UInv => Disjoint BY Zenon DEF UInv, IInv
  <1> QED BY <1>1, UtilsInvariance, PTL
-----------------------------------------------------------------------------
\* Bitvectors of every width.
Numbers(h) == 0..(2 * h - 1)

\* Remainders on the three intervals that sums and differences reach.
LEMMA ModSmall ==
    ASSUME NEW m \in Nat, m > 0, NEW x \in Nat, x < m
    PROVE  x % m = x
  BY SMTT(30)

LEMMA ModNext ==
    ASSUME NEW m \in Nat, m > 0, NEW x \in Int, m <= x, x < 2 * m
    PROVE  x % m = x - m
  BY SMTT(30)

LEMMA ModPrev ==
    ASSUME NEW m \in Nat, m > 0, NEW x \in Int, -m <= x, x < 0
    PROVE  x % m = x + m
  BY SMTT(30)

\* The wrapped sum and the wrapped difference, without remainders.
LEMMA PlusValue ==
    ASSUME NEW h \in Nat \ {0}, NEW a \in Numbers(h), NEW b \in Numbers(h)
    PROVE  Plus(h, a, b) = IF a + b < 2 * h THEN a + b ELSE a + b - 2 * h
  BY ModSmall, ModNext, SMTT(30) DEF Plus, Wrap, Numbers

LEMMA MinusValue ==
    ASSUME NEW h \in Nat \ {0}, NEW a \in Numbers(h), NEW b \in Numbers(h)
    PROVE  Minus(h, a, b) = IF a < b THEN a - b + 2 * h ELSE a - b
  BY ModSmall, ModPrev, SMTT(30) DEF Minus, Wrap, Numbers

\* `neg` changes the sign of every number but the least one, which it leaves.
LEMMA NegValue ==
    ASSUME NEW h \in Nat \ {0}, NEW b \in Numbers(h)
    PROVE  /\ Neg(h, b) \in Numbers(h)
           /\ b # h => Signed(h, Neg(h, b)) = -Signed(h, b)
           /\ b = h => Neg(h, b) = h
  <1>1. Neg(h, b) = IF b = 0 THEN 0 ELSE 2 * h - b
    BY ModPrev, ModSmall, SMTT(30) DEF Neg, Wrap, Numbers
  <1>2. QED
    BY <1>1, SMTT(30) DEF Signed, Numbers

\* The flags of `uadd.with.overflow` and `usub.with.overflow`: set exactly when
\* the result is not that of the integers.
THEOREM UnsignedOverflow ==
    ASSUME NEW h \in Nat \ {0}, NEW a \in Numbers(h), NEW b \in Numbers(h)
    PROVE  /\ UAddO(h, a, b) <=> Plus(h, a, b) # a + b
           /\ USubO(h, a, b) <=> Minus(h, a, b) # a - b
  BY PlusValue, MinusValue, SMTT(30) DEF UAddO, USubO, Numbers

\* The same for `sadd.with.overflow` and `ssub.with.overflow`, where numbers and
\* results have signs.
THEOREM SignedOverflow ==
    ASSUME NEW h \in Nat \ {0}, NEW a \in Numbers(h), NEW b \in Numbers(h)
    PROVE  /\ SAddO(h, a, b) <=> Signed(h, Plus(h, a, b)) # Signed(h, a) + Signed(h, b)
           /\ SSubO(h, a, b) <=> Signed(h, Minus(h, a, b)) # Signed(h, a) - Signed(h, b)
  <1>1. Plus(h, a, b) = IF a + b < 2 * h THEN a + b ELSE a + b - 2 * h
    BY PlusValue, Zenon
  <1>2. Minus(h, a, b) = IF a < b THEN a - b + 2 * h ELSE a - b
    BY MinusValue, Zenon
  <1>3. SAddO(h, a, b) <=> Signed(h, Plus(h, a, b)) # Signed(h, a) + Signed(h, b)
    BY <1>1, SMTT(30) DEF SAddO, Fits, Signed, Numbers
  <1>4. SSubO(h, a, b) <=> Signed(h, Minus(h, a, b)) # Signed(h, a) - Signed(h, b)
    BY <1>2, SMTT(30) DEF SSubO, Fits, Signed, Numbers
  <1>5. QED
    BY <1>3, <1>4, Zenon

\* `uadds`: "if the operation would (unsigned) overflow, the maximum value" is
\* returned, and the sum otherwise.
THEOREM UAddSaturates ==
    ASSUME NEW h \in Nat \ {0}, NEW a \in Numbers(h), NEW b \in Numbers(h)
    PROVE  UAddS(h, a, b) = Clamp(0, 2 * h - 1, a + b)
  BY PlusValue, SMTT(30) DEF UAddS, UAddO, Clamp, Numbers

\* `usubs`: zero instead of a negative number, and the difference otherwise.
THEOREM USubSaturates ==
    ASSUME NEW h \in Nat \ {0}, NEW a \in Numbers(h), NEW b \in Numbers(h)
    PROVE  USubS(h, a, b) = Clamp(0, 2 * h - 1, a - b)
  BY MinusValue, SMTT(30) DEF USubS, USubO, Clamp, Numbers

\* `sadds`: the sign of `self` tells which end to saturate to.
THEOREM SAddSaturates ==
    ASSUME NEW h \in Nat \ {0}, NEW a \in Numbers(h), NEW b \in Numbers(h)
    PROVE  Signed(h, SAddS(h, a, b)) = Clamp(-h, h - 1, Signed(h, a) + Signed(h, b))
  <1>1. Plus(h, a, b) = IF a + b < 2 * h THEN a + b ELSE a + b - 2 * h
    BY PlusValue, SMTT(30)
  <1>2. QED
    BY <1>1, SMTT(30) DEF SAddS, SAddO, Fits, Signed, Clamp, Numbers

\* `ssubs`, which adds the negation: right unless the least number is
\* subtracted, which has no negation.
THEOREM SSubSaturates ==
    ASSUME NEW h \in Nat \ {0}, NEW a \in Numbers(h), NEW b \in Numbers(h), b # h
    PROVE  Signed(h, SSubS(h, a, b)) = Clamp(-h, h - 1, Signed(h, a) - Signed(h, b))
  <1>1. Signed(h, SSubS(h, a, b)) = Clamp(-h, h - 1, Signed(h, a) + Signed(h, Neg(h, b)))
    BY NegValue, SAddSaturates, Zenon DEF SSubS
  <1>2. QED
    BY <1>1, NegValue, Zenon DEF Signed, Numbers

\* `ssubs` of the least number adds it, so that the answer is wrong at every
\* width and for every number it is subtracted from.
THEOREM SSubOfLeast ==
    ASSUME NEW h \in Nat \ {0}, NEW a \in Numbers(h)
    PROVE  /\ Signed(h, SSubS(h, a, h)) = Clamp(-h, h - 1, Signed(h, a) - h)
           /\ Signed(h, SSubS(h, a, h)) # Clamp(-h, h - 1, Signed(h, a) - Signed(h, h))
  <1>1. h \in Numbers(h) /\ Signed(h, h) = -h
    BY SMTT(30) DEF Numbers, Signed
  <1>2. Signed(h, SSubS(h, a, h)) = Clamp(-h, h - 1, Signed(h, a) + Signed(h, h))
    BY <1>1, NegValue, SAddSaturates, SMTT(30) DEF SSubS
  <1>3. QED
    BY <1>1, <1>2, SMTT(30) DEF Signed, Clamp, Numbers
-----------------------------------------------------------------------------
(* The variables of an activation.                                           *)

INSTANCE SequenceTheorems

\* Inserting keeps the type of a map.
LEMMA InsertType ==
    ASSUME NEW D, NEW R, NEW f \in MapsOf(D, R), NEW k \in D, NEW v \in R
    PROVE  Insert(f, k, v) \in MapsOf(D, R)
  <1>1. PICK S \in SUBSET D : f \in [S -> R]
    BY Zenon DEF MapsOf
  <1>2. Insert(f, k, v) \in [S \cup {k} -> R]
    BY <1>1, Zenon DEF Insert
  <1>3. S \cup {k} \in SUBSET D
    BY Zenon
  <1> QED BY <1>2, <1>3, Zenon DEF MapsOf

\* The domain and the values of a map.
LEMMA MapFacts ==
    ASSUME NEW D, NEW R, NEW f \in MapsOf(D, R)
    PROVE  DOMAIN f \subseteq D /\ \A x \in DOMAIN f : f[x] \in R
  BY Zenon DEF MapsOf

\* The empty map.
LEMMA EmptyFacts ==
    ASSUME NEW D, NEW R
    PROVE  Empty \in MapsOf(D, R) /\ DOMAIN Empty = {}
  <1>1. Empty \in [{} -> R]
    BY Zenon DEF Empty
  <1> QED BY <1>1, Zenon DEF MapsOf

\* A frame remembers the variables of its activation, and nothing else's.
FrameKeeps(fr) ==
    \A n \in DOMAIN fr.env :
        <<fr.func, n>> \in DOMAIN fr.restore_info /\ fr.restore_info[<<fr.func, n>>] = fr.env[n]

FramesKeep == \A j \in 1..Len(stack) : FrameKeeps(stack[j])

\* As long as the path goes on, every version number fits the loop bound.
VersionsFit == ~ended => \A k \in DOMAIN varmap.version : varmap.version[k] < LoopBound

\* Every name that was created is a version that has been counted.
NamesCounted ==
    \A j \in 1..Len(named) :
        LET k == <<named[j][1], named[j][2]>> IN
        k \in DOMAIN varmap.version /\ named[j][3] <= varmap.version[k]

Lookups ==
    /\ LocalsTyped /\ LocalsVisible /\ RestorePossible /\ NamesUnique
    /\ FramesKeep /\ VersionsFit /\ NamesCounted

\* The new version number, and when it fits.
LEMMA VersionFacts ==
    ASSUME LocalsTyped, VersionsFit, ~ended, NEW k \in Keys
    PROVE  /\ NewVersionNum(varmap, k) \in 0..LoopBound
           /\ FitsLoopBound(varmap, k, LoopBound) <=> NewVersionNum(varmap, k) < LoopBound
           /\ k \in DOMAIN varmap.version => varmap.version[k] < NewVersionNum(varmap, k)
  <1>1. \A x \in DOMAIN varmap.version : varmap.version[x] \in 0..LoopBound /\ varmap.version[x] < LoopBound
    BY MapFacts, Zenon DEF LocalsTyped, VersionsFit
  <1> QED BY <1>1, LoopBoundAssumption, SMTT(30) DEF NewVersionNum, FitsLoopBound

\* What assign_bv_to_name does to the map of versions and the active map.
LEMMA AssignFacts ==
    ASSUME LocalsTyped, VersionsFit, ~ended, NEW k \in Keys, NEW bv \in BVs,
           varmap' = AssignBvToName(varmap, k, bv, LoopBound)
    PROVE  LET ok == FitsLoopBound(varmap, k, LoopBound) IN
           /\ varmap' = [active |-> varmap'.active, version |-> varmap'.version]
           /\ varmap'.version \in MapsOf(Keys, 0..LoopBound)
           /\ DOMAIN varmap'.version = DOMAIN varmap.version \cup {k}
           /\ varmap'.version[k] = NewVersionNum(varmap, k)
           /\ \A x \in DOMAIN varmap.version : x # k => varmap'.version[x] = varmap.version[x]
           /\ varmap'.active \in MapsOf(Keys, BVs)
           /\ ok => varmap'.active = Insert(varmap.active, k, bv)
           /\ ~ok => varmap'.active = varmap.active
           /\ DOMAIN varmap.active \subseteq DOMAIN varmap'.active
  <1>1. /\ varmap'.version = Insert(varmap.version, k, NewVersionNum(varmap, k))
        /\ varmap'.active = IF FitsLoopBound(varmap, k, LoopBound)
                            THEN Insert(varmap.active, k, bv) ELSE varmap.active
        /\ varmap' = [active |-> varmap'.active, version |-> varmap'.version]
    BY Zenon DEF AssignBvToName
  <1>2. NewVersionNum(varmap, k) \in 0..LoopBound
    BY VersionFacts, Zenon
  <1>3. varmap.version \in MapsOf(Keys, 0..LoopBound) /\ varmap.active \in MapsOf(Keys, BVs)
    BY Zenon DEF LocalsTyped
  <1>4. /\ DOMAIN varmap'.version = DOMAIN varmap.version \cup {k}
        /\ varmap'.version[k] = NewVersionNum(varmap, k)
        /\ \A x \in DOMAIN varmap.version : x # k => varmap'.version[x] = varmap.version[x]
    BY <1>1, Zenon DEF Insert
  <1>5. /\ Insert(varmap.active, k, bv) \in MapsOf(Keys, BVs)
        /\ DOMAIN Insert(varmap.active, k, bv) = DOMAIN varmap.active \cup {k}
    BY <1>3, InsertType, Zenon DEF Insert
  <1>6. varmap'.version \in MapsOf(Keys, 0..LoopBound)
    BY <1>1, <1>2, <1>3, InsertType, Zenon
  <1> QED BY <1>1, <1>3, <1>4, <1>5, <1>6, Zenon

\* An assignment to a variable of the current activation, possibly past the
\* loop bound, keeps the invariant.  (Both Assign and NewBv begin like this.)
LEMMA AssignmentKeeps ==
    ASSUME Lookups, ~ended, NEW n \in Names, NEW bv \in BVs,
           varmap' = AssignBvToName(varmap, <<func, n>>, bv, LoopBound),
           ended' = ~FitsLoopBound(varmap, <<func, n>>, LoopBound),
           env' = IF ended' THEN env ELSE Insert(env, n, bv),
           UNCHANGED <<func, stack>>
    PROVE  /\ func' \in Funcs
           /\ varmap' = [active |-> varmap'.active, version |-> varmap'.version]
           /\ varmap'.active \in MapsOf(Keys, BVs)
           /\ varmap'.version \in MapsOf(Keys, 0..LoopBound)
           /\ stack' \in Seq(Frame)
           /\ env' \in MapsOf(Names, BVs)
           /\ ended' \in BOOLEAN
           /\ LocalsVisible' /\ RestorePossible' /\ FramesKeep' /\ VersionsFit'
           /\ NamesCounted => \A j \in 1..Len(named) :
                  LET x == <<named[j][1], named[j][2]>> IN
                  x \in DOMAIN varmap'.version /\ named[j][3] <= varmap'.version[x]
  <1> DEFINE k  == <<func, n>>
             ok == FitsLoopBound(varmap, k, LoopBound)
  <1>1. k \in Keys /\ func \in Funcs
    BY Zenon DEF Lookups, LocalsTyped, Keys
  <1>2. LocalsTyped /\ VersionsFit /\ LocalsVisible
    BY Zenon DEF Lookups
  <1>3. /\ varmap' = [active |-> varmap'.active, version |-> varmap'.version]
        /\ varmap'.version \in MapsOf(Keys, 0..LoopBound)
        /\ DOMAIN varmap'.version = DOMAIN varmap.version \cup {k}
        /\ varmap'.version[k] = NewVersionNum(varmap, k)
        /\ \A x \in DOMAIN varmap.version : x # k => varmap'.version[x] = varmap.version[x]
        /\ varmap'.active \in MapsOf(Keys, BVs)
        /\ ok => varmap'.active = Insert(varmap.active, k, bv)
        /\ ~ok => varmap'.active = varmap.active
        /\ DOMAIN varmap.active \subseteq DOMAIN varmap'.active
    BY <1>1, <1>2, AssignFacts, Zenon
  <1>4. /\ NewVersionNum(varmap, k) \in 0..LoopBound
        /\ ok <=> NewVersionNum(varmap, k) < LoopBound
        /\ k \in DOMAIN varmap.version => varmap.version[k] < NewVersionNum(varmap, k)
    BY <1>1, <1>2, VersionFacts, Zenon
  <1>5. /\ env \in MapsOf(Names, BVs) /\ varmap.active \in MapsOf(Keys, BVs)
        /\ varmap.version \in MapsOf(Keys, 0..LoopBound)
    BY <1>2, Zenon DEF LocalsTyped
  <1>6. env' \in MapsOf(Names, BVs)
    BY <1>5, InsertType, Zenon
  <1>7. LocalsVisible'
    <2>1. CASE ok
      <3>1. env' = Insert(env, n, bv) /\ varmap'.active = Insert(varmap.active, k, bv)
        BY <2>1, <1>3, Zenon
      <3>2. /\ DOMAIN env' = DOMAIN env \cup {n} /\ env'[n] = bv
            /\ \A x \in DOMAIN env : x # n => env'[x] = env[x]
        BY <3>1, Zenon DEF Insert
      <3>3. /\ DOMAIN varmap'.active = DOMAIN varmap.active \cup {k} /\ varmap'.active[k] = bv
            /\ \A x \in DOMAIN varmap.active : x # k => varmap'.active[x] = varmap.active[x]
        BY <3>1, Zenon DEF Insert
      <3> HIDE DEF ok
      <3>4. ASSUME NEW x \in DOMAIN env'
            PROVE  <<func, x>> \in DOMAIN varmap'.active /\ varmap'.active[<<func, x>>] = env'[x]
        <4>1. CASE x = n
          BY <4>1, <3>2, <3>3, Zenon
        <4>2. CASE x # n
          <5>1. x \in DOMAIN env /\ env'[x] = env[x]
            BY <4>2, <3>2, Zenon
          <5>2. <<func, x>> \in DOMAIN varmap.active /\ varmap.active[<<func, x>>] = env[x]
            BY <5>1, <1>2, Zenon DEF LocalsVisible
          <5>3. <<func, x>> # k
            BY <4>2, Zenon
          <5> QED BY <5>1, <5>2, <5>3, <3>3, Zenon
        <4> QED BY <4>1, <4>2, Zenon
      <3> QED BY <3>4, Zenon DEF LocalsVisible
    <2>2. CASE ~ok
      BY <2>2, <1>2, <1>3, Zenon DEF LocalsVisible
    <2> QED BY <2>1, <2>2, Zenon
  <1>8. RestorePossible'
    BY <1>3, Zenon DEF Lookups, RestorePossible
  <1>9. FramesKeep'
    BY Zenon DEF Lookups, FramesKeep, FrameKeeps
  <1>10. VersionsFit'
    <2>1. ASSUME ok, NEW x \in DOMAIN varmap'.version
          PROVE  varmap'.version[x] < LoopBound
      <3>1. CASE x = k
        BY <2>1, <3>1, <1>3, <1>4, Zenon
      <3>2. CASE x # k
        BY <2>1, <3>2, <1>2, <1>3, Zenon DEF VersionsFit
      <3> QED BY <3>1, <3>2, Zenon
    <2> QED BY <2>1, Zenon DEF VersionsFit
  <1>11. ASSUME NamesCounted, NEW j \in 1..Len(named)
         PROVE  LET x == <<named[j][1], named[j][2]>> IN
                x \in DOMAIN varmap'.version /\ named[j][3] <= varmap'.version[x]
    <2> DEFINE x == <<named[j][1], named[j][2]>>
    <2>1. x \in DOMAIN varmap.version /\ named[j][3] <= varmap.version[x]
      BY <1>11, Zenon DEF NamesCounted
    <2>2. varmap.version[x] \in 0..LoopBound
      BY <2>1, <1>5, MapFacts, Zenon
    <2>3. named[j][3] \in Nat
      BY <1>2, SMTT(30) DEF LocalsTyped
    <2>4. CASE x = k
      <3>1. varmap.version[x] < varmap'.version[x] /\ varmap'.version[x] \in 0..LoopBound
        BY <2>1, <2>4, <1>3, <1>4, Zenon
      <3>2. named[j][3] <= varmap'.version[x]
        <4>1. \A a, b, c \in Nat : a <= b /\ b < c => a <= c
          BY SMTT(30)
        <4>2. \A m \in 0..LoopBound : m \in Nat
          BY SMTT(30)
        <4> QED BY <2>1, <2>2, <2>3, <3>1, <4>1, <4>2, Zenon
      <3> QED BY <2>1, <1>3, <3>2, Zenon
    <2>5. CASE x # k
      BY <2>1, <2>5, <1>3, Zenon
    <2> QED BY <2>4, <2>5, Zenon
  <1> QED BY <1>1, <1>2, <1>3, <1>6, <1>7, <1>8, <1>9, <1>10, <1>11, Zenon DEF LocalsTyped

\* assign_bv_to_name keeps the invariant.
LEMMA AssignKeeps ==
    ASSUME Lookups, NEW n \in Names, NEW bv \in BVs, Assign(n, bv)
    PROVE  Lookups'
  <1>1. /\ ~ended
        /\ varmap' = AssignBvToName(varmap, <<func, n>>, bv, LoopBound)
        /\ ended' = ~FitsLoopBound(varmap, <<func, n>>, LoopBound)
        /\ env' = IF ended' THEN env ELSE Insert(env, n, bv)
        /\ UNCHANGED <<func, stack>> /\ named' = named
    BY Zenon DEF Assign
  <1>2. /\ func' \in Funcs
        /\ varmap' = [active |-> varmap'.active, version |-> varmap'.version]
        /\ varmap'.active \in MapsOf(Keys, BVs)
        /\ varmap'.version \in MapsOf(Keys, 0..LoopBound)
        /\ stack' \in Seq(Frame)
        /\ env' \in MapsOf(Names, BVs)
        /\ ended' \in BOOLEAN
        /\ LocalsVisible' /\ RestorePossible' /\ FramesKeep' /\ VersionsFit'
        /\ NamesCounted => \A j \in 1..Len(named) :
               LET x == <<named[j][1], named[j][2]>> IN
               x \in DOMAIN varmap'.version /\ named[j][3] <= varmap'.version[x]
    BY <1>1, AssignmentKeeps, Zenon
  <1>3. NamesCounted'
    BY <1>1, <1>2, Zenon DEF Lookups, NamesCounted
  <1>4. NamesUnique'
    BY <1>1, Zenon DEF Lookups, NamesUnique
  <1>5. LocalsTyped'
    BY <1>1, <1>2, Zenon DEF Lookups, LocalsTyped
  <1> QED BY <1>2, <1>3, <1>4, <1>5, Zenon DEF Lookups

\* new_bv_with_name keeps the invariant: the new versioned name is new.
LEMMA NewBvKeeps ==
    ASSUME Lookups, NEW n \in Names, NEW bv \in BVs, NewBv(n, bv)
    PROVE  Lookups'
  <1> DEFINE k == <<func, n>>
             v == NewVersionNum(varmap, k)
  <1>1. /\ ~ended
        /\ varmap' = AssignBvToName(varmap, k, bv, LoopBound)
        /\ ended' = ~FitsLoopBound(varmap, k, LoopBound)
        /\ env' = IF ended' THEN env ELSE Insert(env, n, bv)
        /\ UNCHANGED <<func, stack>>
        /\ named' = IF ended' THEN named ELSE Append(named, <<func, n, v>>)
    BY Zenon DEF NewBv
  <1>2. /\ func' \in Funcs
        /\ varmap' = [active |-> varmap'.active, version |-> varmap'.version]
        /\ varmap'.active \in MapsOf(Keys, BVs)
        /\ varmap'.version \in MapsOf(Keys, 0..LoopBound)
        /\ stack' \in Seq(Frame)
        /\ env' \in MapsOf(Names, BVs)
        /\ ended' \in BOOLEAN
        /\ LocalsVisible' /\ RestorePossible' /\ FramesKeep' /\ VersionsFit'
        /\ NamesCounted => \A j \in 1..Len(named) :
               LET x == <<named[j][1], named[j][2]>> IN
               x \in DOMAIN varmap'.version /\ named[j][3] <= varmap'.version[x]
    BY <1>1, AssignmentKeeps, Zenon
  <1>3. /\ k \in Keys /\ func \in Funcs /\ LocalsTyped /\ VersionsFit
        /\ NamesCounted /\ NamesUnique /\ named \in Seq(Funcs \X Names \X Nat)
    BY Zenon DEF Lookups, LocalsTyped, Keys
  <1>4. /\ v \in 0..LoopBound
        /\ FitsLoopBound(varmap, k, LoopBound) <=> v < LoopBound
        /\ k \in DOMAIN varmap.version => varmap.version[k] < v
    BY <1>1, <1>3, VersionFacts, Zenon
  <1>5. k \in DOMAIN varmap'.version /\ varmap'.version[k] = v
    BY <1>1, <1>3, AssignFacts, Zenon
  <1>6. CASE ended'
    <2>1. named' = named
      BY <1>1, <1>6, Zenon
    <2>2. NamesCounted' /\ NamesUnique' /\ LocalsTyped'
      BY <2>1, <1>2, <1>3, Zenon DEF NamesCounted, NamesUnique, LocalsTyped
    <2> QED BY <1>2, <2>2, Zenon DEF Lookups
  <1>7. CASE ~ended'
    <2> DEFINE new == <<func, n, v>>
               m   == Len(named)
    <2>1. v < LoopBound /\ v \in Nat
      <3>1. FitsLoopBound(varmap, k, LoopBound)
        BY <1>1, <1>7, Zenon
      <3>2. v \in Nat
        BY <1>4, SMTT(30)
      <3> QED BY <3>1, <3>2, <1>4, Zenon
    <2>2. m \in Nat /\ new \in Funcs \X Names \X Nat
      BY <1>3, <2>1, SMTT(30)
    <2>3. /\ named' \in Seq(Funcs \X Names \X Nat)
          /\ Len(named') = m + 1
          /\ \A j \in 1..m : named'[j] = named[j]
          /\ named'[m + 1] = new
      BY <1>1, <1>3, <1>7, <2>2, SMTT(30)
    <2>4. \A j \in 1..m : named[j] # new
      <3> SUFFICES ASSUME NEW j \in 1..m, named[j] = new PROVE FALSE
        BY Zenon
      <3>1. named[j][1] = func /\ named[j][2] = n /\ named[j][3] = v
        BY SMTT(30)
      <3>2. k \in DOMAIN varmap.version /\ v <= varmap.version[k]
        BY <1>3, <3>1, Zenon DEF NamesCounted
      <3>3. varmap.version[k] \in 0..LoopBound
        BY <1>3, <3>2, MapFacts, Zenon DEF LocalsTyped
      <3> QED BY <3>2, <3>3, <1>4, <2>1, SMTT(30)
    <2>5. \A j \in 1..(m + 1) : j \in 1..m \/ j = m + 1
      BY <2>2, SMTT(30)
    <2> HIDE DEF m, new
    <2>6. NamesUnique'
      <3>1. ASSUME NEW i \in 1..(m + 1), NEW j \in 1..(m + 1), named'[i] = named'[j]
            PROVE  i = j
        <4>1. CASE i \in 1..m /\ j \in 1..m
          BY <3>1, <4>1, <1>3, <2>3, Zenon DEF NamesUnique, m
        <4>2. CASE i = m + 1 /\ j \in 1..m
          BY <3>1, <4>2, <2>3, <2>4, Zenon
        <4>3. CASE i \in 1..m /\ j = m + 1
          BY <3>1, <4>3, <2>3, <2>4, Zenon
        <4>4. CASE i = m + 1 /\ j = m + 1
          BY <4>4, Zenon
        <4> QED BY <4>1, <4>2, <4>3, <4>4, <2>5, Zenon
      <3>2. ASSUME NEW j \in 1..(m + 1) PROVE named'[j][3] < LoopBound
        <4>1. CASE j \in 1..m
          BY <4>1, <1>3, <2>3, Zenon DEF NamesUnique, m
        <4>2. CASE j = m + 1
          BY <4>2, <2>1, <2>3, SMTT(30) DEF new
        <4> QED BY <4>1, <4>2, <2>5, Zenon
      <3> QED BY <3>1, <3>2, <2>3, Zenon DEF NamesUnique
    <2>7. NamesCounted'
      <3>1. ASSUME NEW j \in 1..(m + 1)
            PROVE  LET x == <<named'[j][1], named'[j][2]>> IN
                   x \in DOMAIN varmap'.version /\ named'[j][3] <= varmap'.version[x]
        <4>1. CASE j \in 1..m
          BY <4>1, <1>2, <1>3, <2>3, Zenon DEF m
        <4>2. CASE j = m + 1
          <5>1. named'[j] = <<func, n, v>>
            BY <4>2, <2>3, Zenon DEF new
          <5>2. named'[j][1] = func /\ named'[j][2] = n /\ named'[j][3] = v
            BY <5>1, SMTT(30)
          <5> QED BY <5>2, <1>5, <2>1, SMTT(30)
        <4> QED BY <4>1, <4>2, <2>5, Zenon
      <3> QED BY <3>1, <2>3, Zenon DEF NamesCounted
    <2>8. LocalsTyped'
      BY <1>2, <2>3, Zenon DEF LocalsTyped
    <2> QED BY <1>2, <2>6, <2>7, <2>8, Zenon DEF Lookups
  <1> QED BY <1>6, <1>7, Zenon

\* overwrite_latest_version_of_bv keeps the invariant.
LEMMA OverwriteKeeps ==
    ASSUME Lookups, NEW n \in Names, NEW bv \in BVs, Overwrite(n, bv)
    PROVE  Lookups'
  <1> DEFINE k == <<func, n>>
  <1>1. /\ n \in DOMAIN env /\ k \in DOMAIN varmap.active /\ k \in Keys
        /\ varmap = [active |-> varmap.active, version |-> varmap.version]
        /\ varmap.active \in MapsOf(Keys, BVs) /\ env \in MapsOf(Names, BVs)
    BY Zenon DEF Lookups, LocalsTyped, LocalsVisible, Overwrite, Keys
  <1>2. /\ varmap' = [varmap EXCEPT !.active[k] = bv] /\ env' = Insert(env, n, bv)
        /\ func' = func /\ stack' = stack /\ named' = named /\ ended' = ended
    BY Zenon DEF Overwrite, OverwriteLatestVersion
  <1>3. /\ varmap'.active = [varmap.active EXCEPT ![k] = bv]
        /\ varmap'.version = varmap.version
        /\ varmap' = [active |-> varmap'.active, version |-> varmap'.version]
    BY <1>1, <1>2, Zenon
  <1>4. /\ DOMAIN varmap'.active = DOMAIN varmap.active
        /\ varmap'.active[k] = bv
        /\ \A x \in DOMAIN varmap.active : x # k => varmap'.active[x] = varmap.active[x]
    BY <1>1, <1>3, Zenon
  <1>5. varmap'.active \in MapsOf(Keys, BVs)
    <2>1. PICK S \in SUBSET Keys : varmap.active \in [S -> BVs]
      BY <1>1, Zenon DEF MapsOf
    <2>2. varmap'.active \in [S -> BVs]
      BY <1>3, <2>1, Zenon
    <2> QED BY <2>2, Zenon DEF MapsOf
  <1>6. env' \in MapsOf(Names, BVs)
    BY <1>1, <1>2, InsertType, Zenon
  <1>7. LocalsTyped'
    BY <1>2, <1>3, <1>5, <1>6, Zenon DEF Lookups, LocalsTyped
  <1>8. LocalsVisible'
    <2>1. ASSUME NEW x \in DOMAIN env'
          PROVE  <<func, x>> \in DOMAIN varmap'.active /\ varmap'.active[<<func, x>>] = env'[x]
      <3>1. /\ DOMAIN env' = DOMAIN env \cup {n} /\ env'[n] = bv
            /\ \A y \in DOMAIN env : y # n => env'[y] = env[y]
        BY <1>2, Zenon DEF Insert
      <3>2. CASE x = n
        BY <3>1, <3>2, <1>1, <1>4, Zenon
      <3>3. CASE x # n
        <4>1. x \in DOMAIN env /\ env'[x] = env[x] /\ <<func, x>> # k
          BY <3>1, <3>3, Zenon
        <4>2. <<func, x>> \in DOMAIN varmap.active /\ varmap.active[<<func, x>>] = env[x]
          BY <4>1, Zenon DEF Lookups, LocalsVisible
        <4> QED BY <4>1, <4>2, <1>4, Zenon
      <3> QED BY <3>2, <3>3, Zenon
    <2> QED BY <2>1, <1>2, Zenon DEF LocalsVisible
  <1>9. RestorePossible' /\ NamesUnique' /\ FramesKeep' /\ VersionsFit' /\ NamesCounted'
    <2>1. RestorePossible'
      BY <1>2, <1>4, Zenon DEF Lookups, RestorePossible
    <2>2. NamesUnique'
      BY <1>2, Zenon DEF Lookups, NamesUnique
    <2>3. FramesKeep'
      BY <1>2, Zenon DEF Lookups, FramesKeep, FrameKeeps
    <2>4. VersionsFit' /\ NamesCounted'
      BY <1>2, <1>3, Zenon DEF Lookups, VersionsFit, NamesCounted
    <2> QED BY <2>1, <2>2, <2>3, <2>4, Zenon
  <1> QED BY <1>7, <1>8, <1>9, Zenon DEF Lookups

\* A call keeps the invariant: the new frame remembers the caller's variables.
LEMMA PushKeeps ==
    ASSUME Lookups, NEW f \in Funcs, PushCallsite(f)
    PROVE  Lookups'
  <1> DEFINE fr == [func |-> func, restore_info |-> RestoreInfoFor(varmap, func), env |-> env]
             m  == Len(stack)
  <1>1. /\ stack' = Append(stack, fr) /\ func' = f /\ env' = Empty
        /\ varmap' = varmap /\ named' = named /\ ended' = ended
    BY Zenon DEF PushCallsite
  <1>2. /\ func \in Funcs /\ varmap.active \in MapsOf(Keys, BVs) /\ env \in MapsOf(Names, BVs)
        /\ stack \in Seq(Frame) /\ m \in Nat
    BY SMTT(30) DEF Lookups, LocalsTyped
  <1>3. /\ RestoreInfoFor(varmap, func) \in MapsOf(Keys, BVs)
        /\ DOMAIN RestoreInfoFor(varmap, func) = {x \in DOMAIN varmap.active : x[1] = func}
        /\ \A x \in DOMAIN varmap.active :
              x[1] = func => RestoreInfoFor(varmap, func)[x] = varmap.active[x]
    <2>1. PICK S \in SUBSET Keys : varmap.active \in [S -> BVs]
      BY <1>2, Zenon DEF MapsOf
    <2>2. RestoreInfoFor(varmap, func) \in [{x \in S : x[1] = func} -> BVs]
      BY <2>1, Zenon DEF RestoreInfoFor
    <2>3. {x \in S : x[1] = func} \in SUBSET Keys
      BY <2>1, Zenon
    <2>4. RestoreInfoFor(varmap, func) \in MapsOf(Keys, BVs)
      BY <2>2, <2>3, Zenon DEF MapsOf
    <2> QED BY <2>4, Zenon DEF RestoreInfoFor
  <1>4. fr \in Frame
    BY <1>2, <1>3, Zenon DEF Frame
  <1>5. /\ fr.func = func /\ fr.restore_info = RestoreInfoFor(varmap, func) /\ fr.env = env
    BY Zenon
  <1>6. FrameKeeps(fr)
    <2>1. ASSUME NEW n \in DOMAIN env
          PROVE  /\ <<func, n>> \in DOMAIN RestoreInfoFor(varmap, func)
                 /\ RestoreInfoFor(varmap, func)[<<func, n>>] = env[n]
      <3>1. <<func, n>> \in DOMAIN varmap.active /\ varmap.active[<<func, n>>] = env[n]
        BY Zenon DEF Lookups, LocalsVisible
      <3>2. <<func, n>>[1] = func
        BY Zenon
      <3> QED BY <3>1, <3>2, <1>3, Zenon
    <2> QED BY <2>1, <1>5, Zenon DEF FrameKeeps
  <1> HIDE DEF fr, m
  <1>7. /\ stack' \in Seq(Frame) /\ Len(stack') = m + 1
        /\ \A j \in 1..m : stack'[j] = stack[j]
        /\ stack'[m + 1] = fr
    BY <1>1, <1>2, <1>4, SMTT(30) DEF m
  <1>8. \A j \in 1..(m + 1) : j \in 1..m \/ j = m + 1
    BY <1>2, SMTT(30)
  <1>9. Empty \in MapsOf(Names, BVs) /\ DOMAIN Empty = {}
    BY EmptyFacts, Zenon
  <1>10. LocalsTyped'
    BY <1>1, <1>7, <1>9, Zenon DEF Lookups, LocalsTyped
  <1>11. LocalsVisible'
    BY <1>1, <1>9, Zenon DEF LocalsVisible
  <1>12. RestorePossible'
    <2>1. ASSUME NEW j \in 1..(m + 1)
          PROVE  DOMAIN stack'[j].restore_info \subseteq DOMAIN varmap.active
      <3>1. CASE j \in 1..m
        BY <3>1, <1>7, Zenon DEF Lookups, RestorePossible, m
      <3>2. CASE j = m + 1
        BY <3>2, <1>3, <1>5, <1>7, Zenon
      <3> QED BY <3>1, <3>2, <1>8, Zenon
    <2> QED BY <2>1, <1>1, <1>7, Zenon DEF RestorePossible
  <1>13. FramesKeep'
    <2>1. ASSUME NEW j \in 1..(m + 1) PROVE FrameKeeps(stack'[j])
      <3>1. CASE j \in 1..m
        BY <3>1, <1>7, Zenon DEF Lookups, FramesKeep, m
      <3>2. CASE j = m + 1
        BY <3>2, <1>6, <1>7, Zenon
      <3> QED BY <3>1, <3>2, <1>8, Zenon
    <2> QED BY <2>1, <1>7, Zenon DEF FramesKeep, FrameKeeps
  <1>14. NamesUnique' /\ VersionsFit' /\ NamesCounted'
    BY <1>1, Zenon DEF Lookups, NamesUnique, VersionsFit, NamesCounted
  <1> QED BY <1>10, <1>11, <1>12, <1>13, <1>14, Zenon DEF Lookups

\* A return keeps the invariant: the caller sees its own variables again.
LEMMA PopKeeps ==
    ASSUME Lookups, PopCallsite
    PROVE  Lookups'
  <1> DEFINE m  == Len(stack)
             fr == stack[m]
             ri == fr.restore_info
  <1>1. /\ stack # <<>> /\ stack' = SubSeq(stack, 1, m - 1)
        /\ varmap' = RestoreFnVars(varmap, ri)
        /\ func' = fr.func /\ env' = fr.env /\ named' = named /\ ended' = ended
    BY Zenon DEF PopCallsite
  <1>2. /\ stack \in Seq(Frame) /\ varmap.active \in MapsOf(Keys, BVs)
        /\ varmap = [active |-> varmap.active, version |-> varmap.version]
    BY Zenon DEF Lookups, LocalsTyped
  <1>3. m \in Nat /\ m > 0
    BY <1>1, <1>2, SMTT(30)
  <1>4. fr \in Frame /\ m \in 1..m
    BY <1>2, <1>3, SMTT(30)
  <1>5. fr.func \in Funcs /\ ri \in MapsOf(Keys, BVs) /\ fr.env \in MapsOf(Names, BVs)
    BY <1>4, Zenon DEF Frame
  <1>6. DOMAIN ri \subseteq DOMAIN varmap.active /\ FrameKeeps(fr)
    BY <1>4, Zenon DEF Lookups, RestorePossible, FramesKeep
  <1> HIDE DEF fr, m, ri
  <1>7. /\ varmap'.active = [k \in DOMAIN varmap.active |->
                               IF k \in DOMAIN ri THEN ri[k] ELSE varmap.active[k]]
        /\ varmap'.version = varmap.version
        /\ varmap' = [active |-> varmap'.active, version |-> varmap'.version]
    BY <1>1, <1>2, Zenon DEF RestoreFnVars
  <1>8. DOMAIN varmap'.active = DOMAIN varmap.active
    BY <1>7, Zenon
  <1>9. varmap'.active \in MapsOf(Keys, BVs)
    <2>1. /\ DOMAIN varmap.active \in SUBSET Keys
          /\ \A k \in DOMAIN varmap.active : varmap.active[k] \in BVs
      BY <1>2, MapFacts, Zenon
    <2>2. \A k \in DOMAIN ri : ri[k] \in BVs
      BY <1>5, MapFacts, Zenon
    <2>3. varmap'.active \in [DOMAIN varmap.active -> BVs]
      BY <1>7, <2>1, <2>2, Zenon
    <2> QED BY <2>1, <2>3, Zenon DEF MapsOf
  <1>10. /\ stack' \in Seq(Frame) /\ Len(stack') = m - 1
         /\ \A j \in 1..(m - 1) : j \in 1..m /\ stack'[j] = stack[j]
    <2>1. stack' \in Seq(Frame)
      BY <1>1, <1>2, <1>3, SubSeqProperties, SMTT(30) DEF m
    <2>2. Len(stack') = m - 1
      <3>1. \A i \in 1..(m - 1) : stack[i] \in Frame
        BY <1>2, <1>3, SMTT(30) DEF m
      <3>2. m - 1 \in Int /\ 1 \in Int
        BY <1>3, SMTT(30)
      <3>3. Len(SubSeq(stack, 1, m - 1)) = IF 1 <= m - 1 THEN m - 1 - 1 + 1 ELSE 0
        BY <3>1, <3>2, SubSeqProperties, SMTT(30)
      <3> QED BY <1>1, <1>3, <3>3, SMTT(30)
    <2>3. \A j \in 1..(m - 1) : j \in 1..m /\ stack'[j] = stack[j]
      BY <1>1, <1>2, <1>3, SubSeqProperties, SMTT(30) DEF m
    <2> QED BY <2>1, <2>2, <2>3, Zenon
  <1>11. LocalsTyped'
    BY <1>1, <1>5, <1>7, <1>9, <1>10, Zenon DEF Lookups, LocalsTyped
  <1>12. LocalsVisible'
    <2>1. ASSUME NEW n \in DOMAIN fr.env
          PROVE  <<fr.func, n>> \in DOMAIN varmap'.active /\ varmap'.active[<<fr.func, n>>] = fr.env[n]
      <3>1. <<fr.func, n>> \in DOMAIN ri /\ ri[<<fr.func, n>>] = fr.env[n]
        BY <1>6, Zenon DEF FrameKeeps, ri
      <3> QED BY <3>1, <1>6, <1>7, <1>8, Zenon
    <2> QED BY <2>1, <1>1, Zenon DEF LocalsVisible
  <1>13. RestorePossible' /\ FramesKeep'
    <2>1. RestorePossible'
      BY <1>8, <1>10, Zenon DEF Lookups, RestorePossible, m
    <2>2. \A j \in 1..(m - 1) : FrameKeeps(stack'[j])
      BY <1>10, Zenon DEF Lookups, FramesKeep, m
    <2>3. FramesKeep'
      BY <2>2, <1>10, Zenon DEF FramesKeep, FrameKeeps
    <2> QED BY <2>1, <2>3, Zenon
  <1>14. NamesUnique' /\ VersionsFit' /\ NamesCounted'
    BY <1>1, <1>7, Zenon DEF Lookups, NamesUnique, VersionsFit, NamesCounted
  <1> QED BY <1>11, <1>12, <1>13, <1>14, Zenon DEF Lookups

\* The inductive invariant holds along every path.
THEOREM LookupsInvariance == LocalsSpec => []Lookups
  <1>1. LocalsInit => Lookups
    <2> SUFFICES ASSUME LocalsInit PROVE Lookups
      BY SMTT(30)
    <2>1. /\ Empty \in MapsOf(Keys, BVs) /\ Empty \in MapsOf(Keys, 0..LoopBound)
          /\ Empty \in MapsOf(Names, BVs) /\ DOMAIN Empty = {}
      BY EmptyFacts, Zenon
    <2>2. LocalsTyped
      <3>1. varmap.active = Empty /\ varmap.version = Empty
        BY Zenon DEF LocalsInit
      <3>2. varmap = [active |-> varmap.active, version |-> varmap.version]
        BY <3>1, Zenon DEF LocalsInit
      <3>3. stack \in Seq(Frame) /\ named \in Seq(Funcs \X Names \X Nat)
        BY SMTT(30) DEF LocalsInit
      <3> QED BY <2>1, <3>1, <3>2, <3>3, Zenon DEF LocalsInit, LocalsTyped
    <2>3. LocalsVisible /\ RestorePossible /\ NamesUnique /\ FramesKeep /\ VersionsFit /\ NamesCounted
      BY <2>1, SMTT(30) DEF LocalsInit, LocalsVisible, RestorePossible, NamesUnique, FramesKeep, VersionsFit, NamesCounted
    <2> QED BY <2>2, <2>3, Zenon DEF Lookups
  <1>2. Lookups /\ [LocalsNext]_local_vars => Lookups'
    <2> SUFFICES ASSUME Lookups, [LocalsNext]_local_vars PROVE Lookups'
      BY Zenon
    <2>1. ASSUME NEW n \in Names, NEW bv \in BVs, Assign(n, bv) \/ NewBv(n, bv) \/ Overwrite(n, bv)
          PROVE  Lookups'
      BY <2>1, AssignKeeps, NewBvKeeps, OverwriteKeeps, Zenon
    <2>2. ASSUME NEW f \in Funcs, PushCallsite(f) PROVE Lookups'
      BY <2>2, PushKeeps, Zenon
    <2>3. CASE PopCallsite
      BY <2>3, PopKeeps, Zenon
    <2>4. CASE UNCHANGED local_vars
      BY <2>4, Zenon DEF local_vars, Lookups, LocalsTyped, LocalsVisible, RestorePossible, NamesUnique, FramesKeep,
                  FrameKeeps, VersionsFit, NamesCounted
    <2> QED BY <2>1, <2>2, <2>3, <2>4, Zenon DEF LocalsNext
  <1> QED BY <1>1, <1>2, PTL DEF LocalsSpec

\* Types: in particular no version number exceeds the loop bound.
THEOREM LocalsTypeCorrect == LocalsSpec => []LocalsTyped
  <1>1. Lookups => LocalsTyped BY Zenon DEF Lookups
  <1> QED BY <1>1, LookupsInvariance, PTL

\* A lookup finds what the current activation assigned, however deep the
\* recursion of the calls that returned to it.
THEOREM ActivationsSeparate == LocalsSpec => []LocalsVisible
  <1>1. Lookups => LocalsVisible BY Zenon DEF Lookups
  <1> QED BY <1>1, LookupsInvariance, PTL

\* The panic "Malformed RestoreInfo" of restore_fn_vars is unreachable.
THEOREM RestoreNeverPanics == LocalsSpec => []RestorePossible
  <1>1. Lookups => RestorePossible BY Zenon DEF Lookups
  <1> QED BY <1>1, LookupsInvariance, PTL

\* Versioned names are never reused along a path, and stay within the bound.
THEOREM VersionedNamesUnique == LocalsSpec => []NamesUnique
  <1>1. Lookups => NamesUnique BY Zenon DEF Lookups
  <1> QED BY <1>1, LookupsInvariance, PTL
=============================================================================
