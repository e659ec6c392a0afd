--------------------------- MODULE MCStateMemory ---------------------------
(***************************************************************************)
(* Situations of five kinds: writes of every width at every alignment,     *)
(* memset and memcpy with symbolic lengths under every policy, queries     *)
(* about every bitvector of some widths, watchpoints, and sequences of     *)
(* operations of several sorts.                                            *)
(***************************************************************************)
EXTENDS StateMemory

MCInputs == {1, 2, 3}

Never == 100
MCFailures == {0, 1, 3, 8, Never}

\* Bitvectors by their values under the three inputs.
Bv(width, a, b, c) == [width |-> width, const |-> FALSE, val |-> <<a, b, c>>]
Bit(k, i) == IF (k * k + i) % 3 = 0 \/ k % 5 = i THEN 1 ELSE 0
Pattern(bits, i) == [k \in 1..bits |-> Bit(k, i)]

Unconstrained == [i \in Inputs |-> [c \in 0..(NUM_CELLS - 1) |-> Pattern(CELL_BITS, c + i)]]
Zeroed        == [i \in Inputs |-> [c \in 0..(NUM_CELLS - 1) |-> Zeros(CELL_BITS)]]

Config(null, policy, max) == [null_detection |-> null, concretize |-> policy, max_memcpy_length |-> max]

Setup(kind, cfg, levels, m, n) == [kind |-> kind, config |-> cfg, solver |-> levels, mem |-> m, steps |-> n]

ReadOp(addr, bits)  == [op |-> "read", addr |-> addr, bits |-> bits]
WriteOp(addr, bits) == [op |-> "write", addr |-> addr, bits |-> bits, val |-> [i \in Inputs |-> Pattern(bits, i)]]
MemsetOp(addr, val, len) == [op |-> "memset", addr |-> addr, val |-> val, len |-> len]
MemcpyOp(addr, src, len) == [op |-> "memcpy", addr |-> addr, src |-> src, len |-> len]

Policy(p) == [policy |-> p]
Prefer(n, backup) == [policy |-> "Prefer", value |-> n, backup |-> backup]

Widths == {1, 2, 3, 4, 5, 6, 9, 10}
Places == {Const(a) : a \in Addresses} \cup {Bv(3, 1, 2, 7), Bv(3, 0, 3, 6)}

Accesses ==
    {Setup("access", Config(null, Policy("Symbolic"), NoMax), <<Inputs, {1, 2}>>, Unconstrained, 1) : null \in BOOLEAN}

AccessOps == {WriteOp(a, w) : a \in Places, w \in Widths} \cup {ReadOp(a, w) : a \in Places, w \in Widths}

Lengths == {Const(0), Const(3), Bv(3, 0, 2, 5), Bv(3, 3, 1, 2), Bv(3, 4, 4, 3)}
Bytes   == {[i \in Inputs |-> Zeros(BITS_IN_BYTE)], [i \in Inputs |-> Ones(BITS_IN_BYTE)],
            [i \in Inputs |-> Pattern(BITS_IN_BYTE, i)], [i \in Inputs |-> Zeros(BITS_IN_BYTE) \o Ones(3)]}
Targets == {Const(1), Const(2), Bv(3, 1, 0, 4), Bv(3, 4, 2, 2)}

Policies == {Policy("Arbitrary"), Policy("Minimum"), Policy("Maximum"), Policy("Symbolic"),
             Prefer(2, Policy("Symbolic")), Prefer(6, Prefer(3, Policy("Minimum")))}

Bulk ==
    {Setup("bulk", Config(null, p, max), <<Inputs, {1, 2, 3}>>, Unconstrained, 1) :
        null \in BOOLEAN, p \in Policies, max \in {NoMax, 2}}

BulkOps ==
    {MemsetOp(a, v, n) : a \in Targets, v \in Bytes, n \in Lengths}
        \cup {MemcpyOp(a, b, n) : a \in Targets, b \in Targets, n \in Lengths}

Query(op, bv, n) == [op |-> op, bv |-> bv, n |-> n]

Queried == {Bv(3, a, b, c) : a \in 0..7, b \in 0..7, c \in {1, 5}} \cup {Const(3)}
Wide    == {Bv(5, a, b, 9) : a \in {0, 3, 12, 31}, b \in {2, 13, 30}}

Asking ==
    {Setup("query", Config(FALSE, Policy("Symbolic"), NoMax), levels, Zeroed, 1) :
        levels \in {<<{1, 2, 3}>>, <<{1, 2, 3}, {1, 3}>>, <<{1, 2}, {}>>}}

QueryOps ==
    {Query(op, bv, 0) : op \in {"max", "min"}, bv \in Queried}
        \cup {Query(op, bv, 0) : op \in {"max_str", "min_str", "a_solution"}, bv \in Wide \cup {Const(3)}}
        \cup {Query("solutions", bv, n) : bv \in Queried, n \in 0..2}
        \cup {Query(op, bv, 1) : op \in {"can_be_equal", "must_be_equal"}, bv \in Queried}

Watching ==
    {[op |-> o, name |-> "w", segment |-> Watchpoint(2, 2)] : o \in {"add", "remove", "enable", "disable"}}
        \cup {[op |-> "add", name |-> n, segment |-> Watchpoint(4, 3)] : n \in {"w", "v"}}

WatchOps ==
    Watching \cup {WriteOp(a, w) : a \in {Const(1), Const(3), Bv(3, 1, 6, 7)}, w \in {1, 4, 10}}
        \cup {ReadOp(a, 2) : a \in {Const(4), Bv(3, 1, 5, 7)}}
        \cup {MemcpyOp(Const(4), Const(1), n) : n \in {Const(2), Bv(3, 0, 1, 2)}}

Watched ==
    {Setup("watch", Config(null, Policy("Symbolic"), NoMax), <<Inputs>>, Zeroed, 3) : null \in BOOLEAN}

\* The second input may have address 0, until a choice of length excludes it.
MixedOps ==
    {WriteOp(Bv(3, 5, 0, 3), 6), WriteOp(Const(2), 9), ReadOp(Bv(3, 5, 0, 3), 10), ReadOp(Const(1), 5),
     MemsetOp(Bv(3, 4, 0, 1), [i \in Inputs |-> Pattern(BITS_IN_BYTE, i)], Bv(3, 1, 2, 1)),
     MemcpyOp(Const(4), Bv(3, 2, 0, 3), Bv(3, 3, 1, 3)), MemcpyOp(Const(3), Const(2), Bv(3, 2, 2, 0)),
     Query("max", Bv(3, 1, 6, 4), 0), Query("solutions", Bv(3, 1, 6, 6), 1), Query("min_str", Bv(5, 17, 20, 3), 0)}

Mixed ==
    {Setup("mixed", Config(null, Policy(p), max), <<Inputs, Inputs>>, Zeroed, 3) :
        null \in BOOLEAN, p \in {"Maximum", "Symbolic"}, max \in {NoMax, 2}}

MCSetups == Accesses \cup Bulk \cup Asking \cup Watched \cup Mixed

MCOperations ==
    [access |-> AccessOps, bulk |-> BulkOps, query |-> QueryOps, watch |-> WatchOps, mixed |-> MixedOps]
-----------------------------------------------------------------------------
\* Copies by one byte up and by one byte down, of a length that stays symbolic.
MCOverlapping == {Setup("overlap", Config(FALSE, Policy("Symbolic"), NoMax), <<Inputs>>, Unconstrained, 1)}

MCOverlapOps == [overlap |-> {MemcpyOp(Const(a), Const(3 - a), Bv(3, 2, 3, 2)) : a \in {1, 2}}]
=============================================================================
