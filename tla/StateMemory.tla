---------------------------- MODULE StateMemory ----------------------------
(***************************************************************************)
(* The memory of a State together with its solver and its watchpoints:     *)
(* reads and writes with the null check, memset and memcpy with lengths    *)
(* that may be symbolic, the queries, and the management of watchpoints.   *)
(*                                                                         *)
(* An operation is a function from records like those of SolverUtils, with *)
(* the memory mem (for each input) and the triggered watchpoints logged    *)
(* besides, to such records.  It changes the State all at once: nothing    *)
(* else runs meanwhile, but every call of the solver may fail.             *)
(***************************************************************************)
EXTENDS Watchpoints, FiniteSets

CONSTANTS Inputs,     \* the valuations of the symbolic variables
          Setups,     \* the situations to choose from: records with config, solver
                      \* (the levels), mem, kind and steps
          Operations, \* the operations to do in a situation of each kind, at most
                      \* as many as its steps
          Failures    \* bounds: how many calls of the solver succeed in an operation

VARIABLES setup,        \* the situation
          solver,       \* `State.solver`: its levels
          mem,          \* `State.mem`: the cells, for each input
          watchpoints,  \* `State.mem_watchpoints`
          err,          \* the error that has ended the path
          asked,        \* the last operation
          answer,       \* its answer; for a memset or memcpy, that of get_memcpy_length
          logged,       \* the watchpoints that it has logged
          steps         \* the number of operations so far

vars == <<setup, solver, mem, watchpoints, err, asked, answer, logged, steps>>

config == setup.config

NoOp == [op |-> "none"]

Init ==
    /\ setup \in Setups
    /\ solver = setup.solver
    /\ mem = setup.mem
    /\ watchpoints = NoWatchpoints
    /\ err = NoError
    /\ asked = NoOp
    /\ answer = 0
    /\ logged = {}
    /\ steps = 0

Before(left) == [s |-> solver, left |-> left, err |-> NoError, ans |-> 0, mem |-> mem, logged |-> {}]

\* `?`: the next step F, or the error.
Then(st, F(_)) == IF Failed(st) THEN st ELSE F(st)

Fail(st, e) == [st EXCEPT !.err = e]

Const(n) == [width |-> WORD, const |-> TRUE, val |-> [i \in Inputs |-> n]]
Plus(addr, n) == [addr EXCEPT !.val = [i \in Inputs |-> AddrAdd(@[i], n)]]
-----------------------------------------------------------------------------
\* Mutant: only addresses that must be NULL are rejected.
NullCheckMust(st, addr) ==
    IF ~config.null_detection THEN st
    ELSE Then(BvsMustBeEqual(st, addr, 0), LAMBDA r : IF r.ans THEN Fail(r, "null") ELSE r)

\* The null check of Memory::read and Memory::write.
NullCheck(st, addr) ==
    IF ~config.null_detection THEN st
    ELSE Then(BvsCanBeEqual(st, addr, 0), LAMBDA r : IF r.ans THEN Fail(r, "null") ELSE r)

\* `Memory::read` and `Memory::write`.
MemRead(st, addr, bits) ==
    Then(NullCheck(st, addr), LAMBDA r :
        IF Panics(bits, addr.const) THEN Fail(r, "panic")
        ELSE [r EXCEPT !.ans = [i \in Inputs |-> ReadBits(r.mem[i], addr.val[i], addr.const, bits)]])

MemWrite(st, addr, val, bits) ==
    Then(NullCheck(st, addr), LAMBDA r :
        IF Panics(bits, addr.const) THEN Fail(r, "panic")
        ELSE [r EXCEPT !.mem = [i \in Inputs |-> WriteBits(@[i], addr.val[i], addr.const, val[i])]])

\* `State::read`.
StateRead(st, addr, bits) ==
    Then(MemRead(st, addr, bits), LAMBDA r :
        Then(GetTriggered(r, watchpoints, addr, bits), LAMBDA t :
            [t EXCEPT !.logged = @ \cup t.ans, !.ans = r.ans]))

\* For the log: the new value of a triggered watchpoint's segment.
LogWritten(n, st) ==
    LET w == watchpoints[n].segment
    IN  Then(st, LAMBDA r :
            Then(MemRead(r, Const(w.low), (w.high - w.low + 1) * BITS_IN_BYTE), LAMBDA t :
                [t EXCEPT !.logged = @ \cup {n}]))

\* `State::write`.
StateWrite(st, addr, val, bits) ==
    Then(MemWrite(st, addr, val, bits), LAMBDA r :
        Then(GetTriggered(r, watchpoints, addr, bits), LAMBDA t : FoldSet(LogWritten, t, t.ans)))
-----------------------------------------------------------------------------
Concrete(n) == [kind |-> "concrete", length |-> n]
Symbolic    == [kind |-> "symbolic"]

NoMax == -1

AtMost(len, n) == Where(len, LAMBDA v : v <= n)

\* The part of get_memcpy_length for lengths of more than one value: at most
\* max_memcpy_length, by a constraint if there are larger ones.
LimitLength(st, len) ==
    LET max == config.max_memcpy_length
    IN  IF max = NoMax THEN st
        ELSE Then(AskSatWith(st, AtMost(len, max)), LAMBDA r :
                 IF ~r.ans THEN Fail(r, "too long")
                 ELSE Then(AskSatWith(r, Inputs \ AtMost(len, max)), LAMBDA t :
                          IF t.ans THEN [t EXCEPT !.s = AssertIn(@, AtMost(len, max))] ELSE t))

\* Mutant: the choice is not made a constraint.
ChooseOnly(st, len, n) == [st EXCEPT !.ans = Concrete(n)]

\* The chosen length, which the length argument is then constrained to have.
ChooseLength(st, len, n) ==
    [st EXCEPT !.s = AssertIn(@, Where(len, LAMBDA v : v = n)), !.ans = Concrete(n)]

\* The choice of a concrete value: the possible outcomes.  sols are the
\* solutions that were found before the limit was imposed.
ConcreteLengths(st, len, concretize, sols) ==
    LET max      == config.max_memcpy_length
        known    == IF max = NoMax THEN sols ELSE {v \in sols : v <= max}
        Chosen(r) == Then(r, LAMBDA t : ChooseLength(t, len, t.ans))
    IN  CASE concretize.policy = "Arbitrary" ->
               IF known # {} THEN {ChooseLength(st, len, v) : v \in known}
               ELSE {Chosen(r) : r \in GetASolution(st, len)}
          [] concretize.policy = "Minimum" -> {Chosen(MinPossibleSolution(st, len))}
          [] concretize.policy = "Maximum" -> {Chosen(MaxPossibleSolution(st, len))}

\* `get_memcpy_length`: the possible outcomes, with the length as the answer.
RECURSIVE GetMemcpyLength(_, _, _)
GetMemcpyLength(st, len, concretize) ==
    LET Decide(r) ==
            LET limited == LimitLength(r, len)
                prefer  == BvsCanBeEqual(limited, len, concretize.value)
                sat     == AskSat(prefer)
            IN  IF Failed(r) THEN {r}
                ELSE IF r.ans.kind = "Exactly"
                THEN {IF r.ans.set = {} THEN Fail(r, "unsat")
                      ELSE LET n == CHOOSE n \in r.ans.set : TRUE
                           IN  IF config.max_memcpy_length # NoMax /\ n > config.max_memcpy_length
                               THEN Fail(r, "too long") ELSE [r EXCEPT !.ans = Concrete(n)]}
                ELSE IF Failed(limited) THEN {limited}
                ELSE IF concretize.policy = "Symbolic" THEN {[limited EXCEPT !.ans = Symbolic]}
                ELSE IF concretize.policy # "Prefer" THEN ConcreteLengths(limited, len, concretize, r.ans.set)
                ELSE IF Failed(prefer) THEN {prefer}
                ELSE IF prefer.ans THEN {ChooseLength(prefer, len, concretize.value)}
                ELSE IF Failed(sat) THEN {sat}
                ELSE IF ~sat.ans THEN {Fail(sat, "unsat")}
                ELSE GetMemcpyLength(sat, len, concretize.backup)
    IN  UNION {Decide(r) : r \in GetPossibleSolutions(st, len, 1)}

\* Whether the byte k, from 0, is within the symbolic length.
ShouldWrite(len, i, k) == len.val[i] > k

\* The loops over the bytes go up to and including the largest length.
ByteIndices(max_num_bytes) == [k \in 1..(max_num_bytes + 1) |-> k - 1]

\* `memset_bv`, with the length that get_memcpy_length has answered.  Of the
\* value, only the lowest byte counts.
Memset(st, op) ==
    LET bits == st.ans.length * BITS_IN_BYTE
        val  == [i \in Inputs |-> Slice(op.val[i], BITS_IN_BYTE - 1, 0)]
        byte == [width |-> BITS_IN_BYTE, const |-> FALSE, val |-> val]
        Write(r, big_val) == StateWrite(r, op.addr, big_val, bits)
        Byte(r, k) ==
            LET addr == Plus(op.addr, k)
            IN  Then(StateRead(r, addr, BITS_IN_BYTE), LAMBDA t :
                    StateWrite(t, addr, [i \in Inputs |-> IF ShouldWrite(op.len, i, k) THEN val[i] ELSE t.ans[i]],
                               BITS_IN_BYTE))
    IN  CASE st.ans = Symbolic ->
               Then(MaxPossibleSolution(st, op.len), LAMBDA r :
               FoldLeft(LAMBDA t, k : Then(t, LAMBDA u : Byte(u, k)), r, ByteIndices(r.ans)))
          [] st.ans = Concrete(0) -> st
          [] OTHER ->
               Then(BvsMustBeEqual(st, byte, Zeros(BITS_IN_BYTE)), LAMBDA r :
                   IF r.ans THEN Write(r, [i \in Inputs |-> Zeros(bits)])
                   ELSE Then(BvsMustBeEqual(r, byte, Ones(BITS_IN_BYTE)), LAMBDA t :
                       IF t.ans THEN Write(t, [i \in Inputs |-> Ones(bits)])
                       ELSE Write(t, [i \in Inputs |-> FlattenSeq([k \in 1..st.ans.length |-> val[i]])])))

\* The loop of memcpy_bv over the bytes of a symbolic length.
CopyBytes(st, op, max_num_bytes) ==
    LET Byte(r, k) ==
            Then(StateRead(r, Plus(op.src, k), BITS_IN_BYTE), LAMBDA src :
                Then(StateRead(src, Plus(op.addr, k), BITS_IN_BYTE), LAMBDA dst :
                    StateWrite(dst, Plus(op.addr, k),
                               [i \in Inputs |-> IF ShouldWrite(op.len, i, k) THEN src.ans[i] ELSE dst.ans[i]],
                               BITS_IN_BYTE)))
    IN  FoldLeft(LAMBDA t, k : Then(t, LAMBDA u : Byte(u, k)), st, ByteIndices(max_num_bytes))

\* Mutant: a constant length is copied byte by byte as well.
CopyWholeByBytes(st, op, length_bytes) == CopyBytes(st, op, length_bytes)

\* One large read and one large write.
CopyWhole(st, op, length_bytes) ==
    LET bits == length_bytes * BITS_IN_BYTE
    IN  Then(StateRead(st, op.src, bits), LAMBDA r : StateWrite(r, op.addr, r.ans, bits))

\* `memcpy_bv`, likewise.
Memcpy(st, op) ==
    CASE st.ans = Symbolic -> Then(MaxPossibleSolution(st, op.len), LAMBDA r : CopyBytes(r, op, r.ans))
      [] st.ans = Concrete(0) -> st
      [] OTHER -> CopyWhole(st, op, st.ans.length)
-----------------------------------------------------------------------------
\* The State after the outcome st of the operation op.
Finish(op, st) ==
    /\ solver' = st.s
    /\ mem' = st.mem
    /\ err' = st.err
    /\ asked' = op
    /\ logged' = st.logged
    /\ steps' = steps + 1
    /\ UNCHANGED setup

Ready == err = NoError /\ steps < setup.steps

DoRead(op, left) ==
    LET st == StateRead(Before(left), op.addr, op.bits)
    IN  /\ Ready
        /\ op.op = "read"
        /\ answer' = st.ans
        /\ Finish(op, st)
        /\ UNCHANGED watchpoints

DoWrite(op, left) ==
    /\ Ready
    /\ op.op = "write"
    /\ Finish(op, StateWrite(Before(left), op.addr, op.val, op.bits))
    /\ answer' = 0
    /\ UNCHANGED watchpoints

DoMemset(op, left) ==
    /\ Ready
    /\ op.op = "memset"
    /\ \E st \in GetMemcpyLength(Before(left), op.len, config.concretize) :
           answer' = st.ans /\ Finish(op, Then(st, LAMBDA r : Memset(r, op)))
    /\ UNCHANGED watchpoints

DoMemcpy(op, left) ==
    /\ Ready
    /\ op.op = "memcpy"
    /\ \E st \in GetMemcpyLength(Before(left), op.len, config.concretize) :
           answer' = st.ans /\ Finish(op, Then(st, LAMBDA r : Memcpy(r, op)))
    /\ UNCHANGED watchpoints

\* The possible outcomes of the query op.
Answers(op, left) ==
    LET q == Before(left)
    IN  CASE op.op = "can_be_equal" -> {BvsCanBeEqual(q, op.bv, op.n)}
          [] op.op = "must_be_equal" -> {BvsMustBeEqual(q, op.bv, op.n)}
          [] op.op = "max" -> {MaxPossibleSolution(q, op.bv)}
          [] op.op = "min" -> {MinPossibleSolution(q, op.bv)}
          [] op.op = "max_str" -> {MaxPossibleSolutionAsBinaryStr(q, op.bv)}
          [] op.op = "min_str" -> {MinPossibleSolutionAsBinaryStr(q, op.bv)}
          [] op.op = "solutions" -> GetPossibleSolutions(q, op.bv, op.n)
          [] op.op = "a_solution" -> GetASolution(q, op.bv)
          [] OTHER -> {}

DoQuery(op, left) ==
    /\ Ready
    /\ \E st \in Answers(op, left) : answer' = st.ans /\ Finish(op, st)
    /\ UNCHANGED watchpoints

\* The watchpoint methods of State.
DoWatch(op) ==
    /\ Ready
    /\ \/ op.op = "add" /\ watchpoints' = AddWatchpoint(watchpoints, op.name, op.segment)
       \/ op.op = "remove" /\ watchpoints' = RemoveWatchpoint(watchpoints, op.name)
       \/ op.op = "enable" /\ watchpoints' = SetEnabled(watchpoints, op.name, TRUE)
       \/ op.op = "disable" /\ watchpoints' = SetEnabled(watchpoints, op.name, FALSE)
    /\ answer' = Found(watchpoints, op.name)
    /\ Finish(op, Before(0))

Ops == Operations[setup.kind]

Next ==
    \/ \E op \in Ops, left \in Failures : DoRead(op, left)
    \/ \E op \in Ops, left \in Failures : DoWrite(op, left)
    \/ \E op \in Ops, left \in Failures : DoMemset(op, left)
    \/ \E op \in Ops, left \in Failures : DoMemcpy(op, left)
    \/ \E op \in Ops, left \in Failures : DoQuery(op, left)
    \/ \E op \in Ops : DoWatch(op)

Spec == Init /\ [][Next]_vars
-----------------------------------------------------------------------------
Flat(m)    == FlattenSeq([k \in 1..NUM_CELLS |-> m[k - 1]])
BytesOf(m) == [a \in Addresses |-> ReadWithinCell(m, a, BITS_IN_BYTE)]

Abstract == INSTANCE ByteMemory WITH
    contents <- [i \in Top(solver) |-> Flat(mem[i])],
    given <- IF asked.op = "read" /\ err = NoError THEN [i \in Top(solver) |-> answer[i]] ELSE <<>>,
    symbolic <- asked.op = "memcpy" /\ err = NoError /\ answer = Symbolic,
    over <- err # NoError

\* The masked accesses to cells, the split of large accesses at cell
\* boundaries, the choice of lengths and the loops over bytes implement a
\* plain string of bits, for every input that remains possible; save that a
\* copy of symbolic length may go byte by byte between ranges that overlap.
ByteMemorySpec == Abstract!Spec

\* The source and the destination of a memcpy, which also does the memmove
\* intrinsic, may overlap: whichever way its length is treated, the bytes that
\* arrive are those that were at the source before.
OverlapCopied ==
    [][asked'.op = "memcpy" /\ err' = NoError =>
       \A i \in Top(solver') :
           Flat(mem'[i]) = Abstract!CopyAtOnce(Flat(mem[i]), asked'.addr.val[i], asked'.src.val[i], asked'.len.val[i])]_vars

Simple == INSTANCE SimpleMemory

\* The two implementations of the memory agree: a read answers the same, and a
\* write has the same result, except that SimpleMemory clears the rest of a
\* byte that is partly written.
SimpleAgrees ==
    [][/\ err' = NoError
       /\ asked'.op \in {"read", "write"}
       /\ ~Simple!Panics(asked'.bits)
       => \A i \in Inputs :
             IF asked'.op = "read"
             THEN answer'[i] = Simple!ReadBits(BytesOf(mem[i]), asked'.addr.val[i], asked'.bits)
             ELSE LET written == Simple!WriteBits(BytesOf(mem[i]), asked'.addr.val[i], asked'.val[i])
                  IN  IF asked'.bits >= BITS_IN_BYTE THEN BytesOf(mem'[i]) = written
                      ELSE Simple!ReadBits(BytesOf(mem'[i]), asked'.addr.val[i], asked'.bits) = asked'.val[i]
      ]_vars

\* The addresses that the operation touches for the input i, if none of them wraps.
Segment(addr, i, bytes) == addr.val[i]..(addr.val[i] + bytes - 1)
Fits(addr, i, bytes)    == addr.val[i] + bytes <= NUM_BYTES

BytesWritten(op, i) == IF op.op = "write" THEN (op.bits + BITS_IN_BYTE - 1) \div BITS_IN_BYTE ELSE op.len.val[i]

\* With null detection, no operation that succeeds has changed the byte at
\* address 0 for any input that is still possible, whichever way its length was
\* chosen; unless it came there from the end of the address space.
NullUntouched ==
    [][config.null_detection /\ err' = NoError /\ asked'.op \in {"write", "memset", "memcpy"}
       => \A i \in Top(solver') :
             Fits(asked'.addr, i, BytesWritten(asked', i)) => BytesOf(mem'[i])[0] = BytesOf(mem[i])[0]]_vars

\* What an answer has to be if these inputs are possible.
Exact(op, ans, possible) ==
    LET vs   == Values(op.bv, possible)
        sols == IF op.bv.const /\ (op.op = "solutions" => op.n > 0) THEN Values(op.bv, Inputs) ELSE vs
    IN  CASE op.op = "can_be_equal" -> ans = (op.n \in vs)
          [] op.op = "must_be_equal" -> ans = (vs \subseteq {op.n})
          [] op.op \in {"max", "max_str"} -> ans = IF vs = {} THEN NoSolution ELSE Max(vs)
          [] op.op \in {"min", "min_str"} -> ans = IF vs = {} THEN NoSolution ELSE Min(vs)
          [] op.op = "a_solution" -> IF sols = {} THEN ans = NoSolution ELSE ans \in sols
          [] op.op = "solutions" ->
               IF ans.kind = "Exactly" THEN ans.set = sols /\ Cardinality(sols) <= op.n
               ELSE ans.set \subseteq sols /\ Cardinality(ans.set) = op.n + 1

IsQuery(op) == "bv" \in DOMAIN op

\* The searches by bisection, word by word, over common values first, and by
\* excluding what was found answer what is true of the possible values.
QueriesExact ==
    [][IsQuery(asked') /\ err' = NoError => Exact(asked', answer', Top(solver))]_vars

\* The queries that leave constraints or levels behind.
Leaves(op, ans) ==
    \/ op.op = "min_str" /\ op.bv.width > WORD
    \/ op.op = "max_str" /\ ans = NoSolution

\* Queries leave the solver as it was, save for the two of Leaves; accesses and
\* comparisons do so even if the solver fails; and no operation ever touches
\* the levels below the last one, on which the backtracking points rely.
SolverRestored ==
    [][/\ IsQuery(asked') /\ err' = NoError /\ ~Leaves(asked', answer') => solver' = solver
       /\ asked'.op \in {"read", "write", "can_be_equal", "must_be_equal"} => solver' = solver
       /\ ~IsQuery(asked') /\ err' = NoError => Len(solver') = Len(solver)
       /\ Len(solver') >= Len(solver)
       /\ \A k \in 1..(Len(solver) - 1) : solver'[k] = solver[k]
       /\ solver'[Len(solver)] \subseteq solver[Len(solver)]]_vars

\* The sets of lengths that a policy may leave, of the given ones.
RECURSIVE LeftBy(_, _)
LeftBy(concretize, lens) ==
    CASE Cardinality(lens) = 1 \/ concretize.policy = "Symbolic" -> {lens}
      [] concretize.policy = "Arbitrary" -> {{n} : n \in lens}
      [] concretize.policy = "Minimum" -> {{Min(lens)}}
      [] concretize.policy = "Maximum" -> {{Max(lens)}}
      [] concretize.policy = "Prefer" ->
           IF concretize.value \in lens THEN {{concretize.value}} ELSE LeftBy(concretize.backup, lens)

\* The length of a memset or memcpy that succeeds is one that the policy of the
\* configuration names, within max_memcpy_length, and the path keeps exactly
\* the inputs that have it.
LengthPolicy ==
    [][asked'.op \in {"memset", "memcpy"} /\ err' = NoError /\ Top(solver) # {}
       => LET max  == config.max_memcpy_length
              lens == {n \in Values(asked'.len, Top(solver)) : max = NoMax \/ n <= max}
          IN  /\ lens # {}
              /\ \E kept \in LeftBy(config.concretize, lens) :
                     Top(solver') = {i \in Top(solver) : asked'.len.val[i] \in kept}]_vars

\* A read or write logs the enabled watchpoints that it may touch and no other,
\* if it consists of whole bytes and does not wrap; and a memset or memcpy logs
\* all that it may change.
WatchpointsExact ==
    [][err' = NoError /\ asked'.op \in {"read", "write", "memset", "memcpy"} =>
       LET op         == asked'
           enabled    == {n \in DOMAIN watchpoints : watchpoints[n].enabled}
           Watched(n) == watchpoints[n].segment.low..watchpoints[n].segment.high
           Touched(n, i, bytes) == Watched(n) \cap Segment(op.addr, i, bytes) # {}
       IN  IF op.op \in {"read", "write"}
           THEN LET bytes == (op.bits + BITS_IN_BYTE - 1) \div BITS_IN_BYTE
                IN  (\/ op.bits > BITS_IN_BYTE /\ op.bits % BITS_IN_BYTE # 0
                     \/ \E i \in Top(solver) : ~Fits(op.addr, i, bytes))
                    \/ logged' = {n \in enabled : \E i \in Top(solver) : Touched(n, i, bytes)}
           ELSE \A n \in enabled, i \in Top(solver') :
                    Touched(n, i, op.len.val[i]) /\ Fits(op.addr, i, op.len.val[i]) => n \in logged']_vars
=============================================================================
